-------------------------- MODULE OperatorDeskProofs --------------------------
(***************************************************************************)
(* The scans of the watchlist with the briefs drawn from them, the         *)
(* approval of briefs, the decision journal, the observation windows with  *)
(* their final review, the installation of the schema, and the desk that   *)
(* they make together: for any number of processes, symbols, briefs,       *)
(* calls, windows, rows of feedback, migrations and failures, and any      *)
(* limits.                                                                 *)
(***************************************************************************)
EXTENDS OperatorDesk, SumsProofs, SequenceTheorems

-----------------------------------------------------------------------------
(***************************************************************************)
(* Rankings: WatchlistScan                                                 *)
(***************************************************************************)

\* A label as a vote, and what it weighs.
LEMMA AxisWeighs ==
  ASSUME NEW label
  PROVE  /\ Axis(label) \in {"for", "against", "neither", "missing"}
         /\ Axis(label) = "for" => EvidenceWeight(label) = 2
         /\ Axis(label) = "against" => EvidenceWeight(label) = -2
         /\ Axis(label) = "neither" => EvidenceWeight(label) = 0
         /\ EvidenceWeight(label) \in {-2, 0, 2}
BY DEF Axis, EvidenceWeight

One(condition) == IF condition THEN 1 ELSE 0

LEMMA VotesAddUp ==
  ASSUME NEW found, NEW vote
  PROVE  Votes(found, vote) =
           One(Axis(found["trend"]) = vote) + One(Axis(found["sentiment"]) = vote)
             + One(Axis(found["valuation"]) = vote)
<1>1. PICK A, B, C :
        /\ A = IF Axis(found["trend"]) = vote THEN {"trend"} ELSE {}
        /\ B = A \cup IF Axis(found["sentiment"]) = vote THEN {"sentiment"} ELSE {}
        /\ C = B \cup IF Axis(found["valuation"]) = vote THEN {"valuation"} ELSE {}
  OBVIOUS
<1>2. IsFiniteSet(A) /\ Cardinality(A) = One(Axis(found["trend"]) = vote)
  BY <1>1, FS_EmptySet, FS_Singleton DEF One
<1>3. /\ IsFiniteSet(B)
      /\ Cardinality(B) = Cardinality(A) + One(Axis(found["sentiment"]) = vote)
  <2>1. CASE Axis(found["sentiment"]) = vote
    <3>1. B = A \cup {"sentiment"} /\ "sentiment" \notin A
      BY <1>1, <2>1
    <3>2. QED
      BY <1>2, <2>1, <3>1, FS_AddElement DEF One
  <2>2. CASE Axis(found["sentiment"]) # vote
    <3>1. B = A
      BY <1>1, <2>2
    <3>2. QED
      BY <1>2, <2>2, <3>1 DEF One
  <2>3. QED
    BY <2>1, <2>2
<1>4. Cardinality(C) = Cardinality(B) + One(Axis(found["valuation"]) = vote)
  <2>1. CASE Axis(found["valuation"]) = vote
    <3>1. C = B \cup {"valuation"} /\ "valuation" \notin B
      BY <1>1, <2>1
    <3>2. QED
      BY <1>3, <2>1, <3>1, FS_AddElement DEF One
  <2>2. CASE Axis(found["valuation"]) # vote
    <3>1. C = B /\ Cardinality(B) \in Int
      BY <1>1, <1>2, <1>3, <2>2 DEF One
    <3>2. QED
      BY <2>2, <3>1 DEF One
  <2>3. QED
    BY <2>1, <2>2
<1>5. {f \in {"trend", "sentiment", "valuation"} : Axis(found[f]) = vote} = C
  BY <1>1
<1>6. QED
  BY <1>2, <1>3, <1>4, <1>5 DEF Votes

\* The scores of three recommendations lie apart.
Bounded(recommendation, score) ==
  /\ score \in Int
  /\ recommendation = "BUY" => score >= 33
  /\ recommendation = "WAIT" => 17 <= score /\ score <= 26
  /\ recommendation = "SELL" => score <= 10

LEMMA StockScores ==
  ASSUME NEW found, NEW w \in Int, NEW c \in Int,
         TextAnalysis(found).recommendation \in {"BUY", "WAIT", "SELL"},
         w = RecommendationWeight[TextAnalysis(found).recommendation],
         c = ConfidenceWeight[TextAnalysis(found).confidence]
  PROVE  Bounded(TextAnalysis(found).recommendation,
                 10 * w + c
                   + EvidenceWeight(found["trend"]) + EvidenceWeight(found["sentiment"])
                   + EvidenceWeight(found["valuation"]) + EvidenceWeight(found["quality"]))
<1>1. PICK bullish, bearish, missing :
        /\ bullish = Votes(found, "for") /\ bearish = Votes(found, "against")
        /\ missing = Votes(found, "missing")
  OBVIOUS
<1>2. PICK x \in {-2, 0, 2}, y \in {-2, 0, 2}, z \in {-2, 0, 2}, q \in {-2, 0, 2} :
        /\ x = EvidenceWeight(found["trend"]) /\ y = EvidenceWeight(found["sentiment"])
        /\ z = EvidenceWeight(found["valuation"]) /\ q = EvidenceWeight(found["quality"])
  BY AxisWeighs
<1>3. PICK r, confidence : /\ r = TextAnalysis(found).recommendation
                           /\ confidence = TextAnalysis(found).confidence
  OBVIOUS
<1>4. missing = 0
  <2>1. missing \in Nat
    BY <1>1, VotesAddUp DEF One
  <2>2. CASE missing > 0
    <3>1. TextAnalysis(found) = InsufficientData
      BY <1>1, <2>2 DEF TextAnalysis
    <3>2. QED
      BY <3>1 DEF InsufficientData
  <2>3. QED
    BY <2>1, <2>2
<1>5. /\ bullish = One(x = 2) + One(y = 2) + One(z = 2)
      /\ bearish = One(x = -2) + One(y = -2) + One(z = -2)
  <2>1. /\ Axis(found["trend"]) # "missing" /\ Axis(found["sentiment"]) # "missing"
        /\ Axis(found["valuation"]) # "missing"
    BY <1>1, <1>4, VotesAddUp DEF One
  <2>2. /\ Axis(found["trend"]) = "for" <=> x = 2
        /\ Axis(found["trend"]) = "against" <=> x = -2
    BY <1>2, <2>1, AxisWeighs
  <2>3. /\ Axis(found["sentiment"]) = "for" <=> y = 2
        /\ Axis(found["sentiment"]) = "against" <=> y = -2
    BY <1>2, <2>1, AxisWeighs
  <2>4. /\ Axis(found["valuation"]) = "for" <=> z = 2
        /\ Axis(found["valuation"]) = "against" <=> z = -2
    BY <1>2, <2>1, AxisWeighs
  <2>5. QED
    BY <1>1, <2>2, <2>3, <2>4, VotesAddUp DEF One
<1>6. \/ /\ bullish >= 2 /\ bearish = 0 /\ r = "BUY"
         /\ confidence = IF bullish = 3 THEN "HIGH" ELSE "MEDIUM"
      \/ /\ bearish >= 2 /\ bullish = 0 /\ r = "SELL"
         /\ confidence = IF bearish = 3 THEN "HIGH" ELSE "MEDIUM"
      \/ /\ ~(bullish >= 2 /\ bearish = 0) /\ ~(bearish >= 2 /\ bullish = 0) /\ r = "WAIT"
         /\ confidence = IF bullish > 0 /\ bearish > 0 THEN "MEDIUM" ELSE "LOW"
  BY <1>1, <1>3, <1>4 DEF TextAnalysis, Analysed
<1>7. /\ w = IF r = "BUY" THEN 3 ELSE IF r = "WAIT" THEN 2 ELSE 1
      /\ c = IF confidence = "HIGH" THEN 3 ELSE IF confidence = "MEDIUM" THEN 2 ELSE 1
  BY <1>3, <1>6 DEF RecommendationWeight, ConfidenceWeight
<1>8. Bounded(r, 10 * w + c + x + y + z + q)
  BY <1>5, <1>6, <1>7 DEF Bounded, One
<1>9. QED
  BY <1>2, <1>3, <1>8

LEMMA CoinScores ==
  ASSUME NEW found, NEW analysis, NEW w \in Int, NEW c \in Int,
         analysis \in {CryptoAnalysis(found), ForexAnalysis(found)},
         analysis.recommendation \in {"BUY", "WAIT", "SELL"},
         w = RecommendationWeight[analysis.recommendation],
         c = ConfidenceWeight[analysis.confidence]
  PROVE  Bounded(analysis.recommendation,
                 10 * w + c + EvidenceWeight(found.trend) + EvidenceWeight(found.sentiment))
<1>1. PICK a, b : a = found.trend /\ b = found.sentiment
  OBVIOUS
<1>2. \/ a = "bullish" /\ b = "positive" /\ analysis = Analysed("BUY", "MEDIUM")
      \/ a = "bullish" /\ b = "neutral" /\ analysis = Analysed("BUY", "LOW")
      \/ a = "bearish" /\ b = "negative" /\ analysis = Analysed("SELL", "MEDIUM")
      \/ a = "bearish" /\ b = "neutral" /\ analysis = Analysed("SELL", "LOW")
      \/ analysis = Analysed("UNKNOWN", "LOW")
      \/ analysis = InsufficientData
  <2>1. CASE analysis = CryptoAnalysis(found)
    BY <1>1, <2>1 DEF CryptoAnalysis
  <2>2. CASE analysis = ForexAnalysis(found)
    BY <1>1, <2>2 DEF ForexAnalysis
  <2>3. QED
    BY <2>1, <2>2
<1>3. PICK r, confidence : r = analysis.recommendation /\ confidence = analysis.confidence
  OBVIOUS
<1>4. PICK x, y : x = EvidenceWeight(a) /\ y = EvidenceWeight(b)
  OBVIOUS
<1>5. \/ r = "BUY" /\ confidence = "MEDIUM" /\ x = 2 /\ y = 2
      \/ r = "BUY" /\ confidence = "LOW" /\ x = 2 /\ y = 0
      \/ r = "SELL" /\ confidence = "MEDIUM" /\ x = -2 /\ y = -2
      \/ r = "SELL" /\ confidence = "LOW" /\ x = -2 /\ y = 0
  <2>1. r \in {"BUY", "WAIT", "SELL"}
    BY <1>3
  <2>2. CASE a = "bullish" /\ b = "positive" /\ analysis = Analysed("BUY", "MEDIUM")
    BY <1>3, <1>4, <2>2 DEF Analysed, EvidenceWeight
  <2>3. CASE a = "bullish" /\ b = "neutral" /\ analysis = Analysed("BUY", "LOW")
    BY <1>3, <1>4, <2>3 DEF Analysed, EvidenceWeight
  <2>4. CASE a = "bearish" /\ b = "negative" /\ analysis = Analysed("SELL", "MEDIUM")
    BY <1>3, <1>4, <2>4 DEF Analysed, EvidenceWeight
  <2>5. CASE a = "bearish" /\ b = "neutral" /\ analysis = Analysed("SELL", "LOW")
    BY <1>3, <1>4, <2>5 DEF Analysed, EvidenceWeight
  <2>6. CASE analysis = Analysed("UNKNOWN", "LOW") \/ analysis = InsufficientData
    BY <1>3, <2>1, <2>6 DEF Analysed, InsufficientData
  <2>7. QED
    BY <1>2, <2>2, <2>3, <2>4, <2>5, <2>6
<1>6. /\ w = IF r = "BUY" THEN 3 ELSE IF r = "WAIT" THEN 2 ELSE 1
      /\ c = IF confidence = "HIGH" THEN 3 ELSE IF confidence = "MEDIUM" THEN 2 ELSE 1
  BY <1>3, <1>5 DEF RecommendationWeight, ConfidenceWeight
<1>7. Bounded(r, 10 * w + c + x + y)
  BY <1>5, <1>6 DEF Bounded
<1>8. QED
  BY <1>1, <1>3, <1>4, <1>7

LEMMA RankedLabel ==
  ASSUME NEW entry, Ranked(entry)
  PROVE  /\ WatchlistLabel(entry) = entry.analysis.recommendation
         /\ entry.analysis.recommendation \in {"BUY", "WAIT", "SELL"}
         /\ entry.analysis.confidence \in {"HIGH", "MEDIUM", "LOW"}
         /\ RecommendationWeight[entry.analysis.recommendation] \in {1, 2, 3}
         /\ ConfidenceWeight[entry.analysis.confidence] \in {1, 2, 3}
<1>1. DOMAIN RecommendationWeight = {"BUY", "WAIT", "SELL"}
  BY DEF RecommendationWeight
<1>2. DOMAIN ConfidenceWeight = {"HIGH", "MEDIUM", "LOW"}
  BY DEF ConfidenceWeight
<1>3. /\ WatchlistLabel(entry) \in {"BUY", "WAIT", "SELL"}
      /\ entry.analysis.confidence \in {"HIGH", "MEDIUM", "LOW"}
  BY <1>1, <1>2 DEF Ranked
<1>4. /\ WatchlistLabel(entry) = entry.analysis.recommendation
      /\ entry.analysis.recommendation \in {"BUY", "WAIT", "SELL"}
  BY <1>1, <1>3 DEF WatchlistLabel
<1>5. /\ \A r \in {"BUY", "WAIT", "SELL"} : RecommendationWeight[r] \in {1, 2, 3}
      /\ \A c \in {"HIGH", "MEDIUM", "LOW"} : ConfidenceWeight[c] \in {1, 2, 3}
  BY DEF RecommendationWeight, ConfidenceWeight
<1>6. QED
  BY <1>3, <1>4, <1>5

\* Whatever was analysed, the score of an entry that is ranked is a number.
LEMMA ScoreIsInt ==
  ASSUME NEW entry, Ranked(entry)
  PROVE  Score(entry) \in Int
<1>1. PICK w, c, x, y, z, q :
        /\ w = RecommendationWeight[WatchlistLabel(entry)]
        /\ c = ConfidenceWeight[entry.analysis.confidence]
        /\ x = EvidenceWeight(entry.found.trend) /\ y = EvidenceWeight(entry.found.sentiment)
        /\ z = EvidenceWeight(entry.found.valuation)
        /\ q = EvidenceWeight(entry.found.quality)
  OBVIOUS
<1>2. /\ w \in {1, 2, 3} /\ c \in {1, 2, 3}
      /\ x \in {-2, 0, 2} /\ y \in {-2, 0, 2} /\ z \in {-2, 0, 2} /\ q \in {-2, 0, 2}
  BY <1>1, RankedLabel, AxisWeighs
<1>3. Score(entry) = 10 * w + c + x + y + z + q
  BY <1>1 DEF Score
<1>4. QED
  BY <1>2, <1>3

LEMMA ScoresLieApart ==
  ASSUME NEW entry \in MarketEntries, Ranked(entry)
  PROVE  Bounded(WatchlistLabel(entry), Score(entry))
<1>1. PICK r, confidence : r = entry.analysis.recommendation
                           /\ confidence = entry.analysis.confidence
  OBVIOUS
<1>2. WatchlistLabel(entry) = r /\ r \in {"BUY", "WAIT", "SELL"}
  BY <1>1, RankedLabel
<1>3. PICK w \in Int, c \in Int :
        w = RecommendationWeight[r] /\ c = ConfidenceWeight[confidence]
  BY <1>1, RankedLabel
<1>4. entry # FailedEntry
  BY <1>1, <1>2 DEF FailedEntry
<1>5. PICK kind \in Kinds, found \in AnyEvidence : entry = MarketEntry(kind, found)
  BY <1>4 DEF MarketEntries
<1>6. entry.analysis = AnalysisOf(kind, found) /\ entry.found = Shown(kind, found)
  BY <1>5 DEF MarketEntry
<1>7. CASE kind = "stock"
  <2>1. entry.analysis = TextAnalysis(found) /\ entry.found = found
    BY <1>6, <1>7 DEF AnalysisOf, Shown
  <2>2. Bounded(r, 10 * w + c + EvidenceWeight(found["trend"])
                     + EvidenceWeight(found["sentiment"]) + EvidenceWeight(found["valuation"])
                     + EvidenceWeight(found["quality"]))
    BY <1>1, <1>2, <1>3, <2>1, StockScores
  <2>3. QED
    BY <1>1, <1>2, <1>3, <2>1, <2>2 DEF Score
<1>8. CASE kind # "stock"
  <2>1. entry.analysis \in {CryptoAnalysis(found), ForexAnalysis(found)}
    BY <1>6, <1>8 DEF AnalysisOf, Kinds
  <2>2. /\ entry.found.trend = found.trend /\ entry.found.sentiment = found.sentiment
        /\ entry.found.valuation = "none" /\ entry.found.quality = "none"
    BY <1>6, <1>8 DEF Shown, AnyEvidence
  <2>3. Bounded(r, 10 * w + c + EvidenceWeight(found.trend) + EvidenceWeight(found.sentiment))
    BY <1>1, <1>2, <1>3, <2>1, CoinScores
  <2>4. EvidenceWeight("none") = 0
    BY DEF EvidenceWeight
  <2>5. PICK x, y : x = EvidenceWeight(found.trend) /\ y = EvidenceWeight(found.sentiment)
    OBVIOUS
  <2>6. x \in Int /\ y \in Int
    BY <2>5, AxisWeighs
  <2>7. Score(entry) = 10 * w + c + x + y + 0 + 0
    BY <1>1, <1>2, <1>3, <2>2, <2>4, <2>5 DEF Score
  <2>8. Score(entry) = 10 * w + c + x + y
    BY <2>6, <2>7
  <2>9. QED
    BY <1>2, <2>3, <2>5, <2>8
<1>9. QED
  BY <1>7, <1>8

LEMMA EvidenceOnlyBreaksTies == EvidenceBreaksTies
<1>1. SUFFICES ASSUME NEW e \in MarketEntries, NEW f \in MarketEntries, Ranked(e), Ranked(f),
                      RecommendationWeight[WatchlistLabel(e)]
                        > RecommendationWeight[WatchlistLabel(f)]
               PROVE  Score(e) > Score(f)
  BY DEF EvidenceBreaksTies
<1>2. PICK r \in {"BUY", "WAIT", "SELL"}, s \in {"BUY", "WAIT", "SELL"} :
        r = WatchlistLabel(e) /\ s = WatchlistLabel(f)
  BY <1>1, RankedLabel
<1>3. Bounded(r, Score(e)) /\ Bounded(s, Score(f))
  BY <1>1, <1>2, ScoresLieApart
<1>4. RecommendationWeight[r] > RecommendationWeight[s]
  BY <1>1, <1>2
<1>5. (r = "BUY" /\ s \in {"WAIT", "SELL"}) \/ (r = "WAIT" /\ s = "SELL")
  BY <1>4 DEF RecommendationWeight
<1>6. QED
  BY <1>3, <1>5 DEF Bounded

\* The place of each is a number of its own, and no place is left empty.
LEMMA PlacesAreTaken ==
  ASSUME NEW n \in Nat, NEW S \in SUBSET (1 .. n), NEW score \in [S -> Int]
  PROVE  /\ IsFiniteSet(S) /\ Cardinality(S) \in Nat
         /\ \A i \in S : RankOf(S, score, i) \in 1 .. Cardinality(S)
         /\ \A i, j \in S : score[j] < score[i] \/ (score[j] = score[i] /\ i < j) =>
              RankOf(S, score, i) < RankOf(S, score, j)
         /\ \A rank \in 1 .. Cardinality(S) : \E i \in S : RankOf(S, score, i) = rank
<1>1. IsFiniteSet(S) /\ Cardinality(S) \in Nat
  <2>1. IsFiniteSet(1 .. n)
    BY FS_Interval
  <2>2. QED
    BY <2>1, FS_Subset, FS_CardinalityType
<1> DEFINE Above(i) == {j \in S : score[j] > score[i] \/ (score[j] = score[i] /\ j <= i)}
<1>2. \A i \in S : RankOf(S, score, i) = Cardinality(Above(i))
  BY DEF RankOf
<1>3. \A i \in S : /\ Above(i) \in SUBSET S /\ i \in Above(i)
                   /\ IsFiniteSet(Above(i)) /\ Cardinality(Above(i)) \in 1 .. Cardinality(S)
  <2>1. SUFFICES ASSUME NEW i \in S
                 PROVE  /\ Above(i) \in SUBSET S /\ i \in Above(i)
                        /\ IsFiniteSet(Above(i))
                        /\ Cardinality(Above(i)) \in 1 .. Cardinality(S)
    OBVIOUS
  <2>2. Above(i) \in SUBSET S /\ i \in Above(i)
    OBVIOUS
  <2>3. IsFiniteSet(Above(i)) /\ Cardinality(Above(i)) <= Cardinality(S)
    BY <1>1, <2>2, FS_Subset
  <2>4. Cardinality(Above(i)) \in Nat /\ Cardinality(Above(i)) # 0
    BY <2>2, <2>3, FS_CardinalityType, FS_EmptySet
  <2>5. QED
    BY <1>1, <2>2, <2>3, <2>4
<1>4. \A i, j \in S : score[j] < score[i] \/ (score[j] = score[i] /\ i < j) =>
        Cardinality(Above(i)) < Cardinality(Above(j))
  <2>1. SUFFICES ASSUME NEW i \in S, NEW j \in S,
                        score[j] < score[i] \/ (score[j] = score[i] /\ i < j)
                 PROVE  Cardinality(Above(i)) < Cardinality(Above(j))
    OBVIOUS
  <2>2. i \in Int /\ j \in Int /\ score[i] \in Int /\ score[j] \in Int
    OBVIOUS
  <2>3. Above(i) \in SUBSET Above(j)
    <3>1. SUFFICES ASSUME NEW k \in Above(i) PROVE k \in Above(j)
      OBVIOUS
    <3>2. k \in S /\ k \in Int /\ score[k] \in Int
      OBVIOUS
    <3>3. score[k] > score[i] \/ (score[k] = score[i] /\ k <= i)
      OBVIOUS
    <3>4. score[k] > score[j] \/ (score[k] = score[j] /\ k <= j)
      BY <2>1, <2>2, <3>2, <3>3
    <3>5. QED
      BY <3>2, <3>4
  <2>4. j \in Above(j) /\ j \notin Above(i)
    <3>1. ~(score[j] > score[i] \/ (score[j] = score[i] /\ j <= i))
      BY <2>1, <2>2
    <3>2. QED
      BY <1>3, <3>1
  <2>5. Above(i) # Above(j)
    BY <2>4
  <2> HIDE DEF Above
  <2>6. /\ IsFiniteSet(Above(j)) /\ Cardinality(Above(i)) \in Nat
        /\ Cardinality(Above(j)) \in Nat
    BY <1>1, <1>3
  <2>7. PICK A, B : A = Above(i) /\ B = Above(j)
    OBVIOUS
  <2>8. A \in SUBSET B /\ A # B /\ IsFiniteSet(B)
    BY <2>3, <2>5, <2>6, <2>7
  <2>9. Cardinality(A) <= Cardinality(B) /\ Cardinality(A) # Cardinality(B)
    BY <2>8, FS_Subset
  <2>10. Cardinality(A) \in Nat /\ Cardinality(B) \in Nat
    BY <2>6, <2>7
  <2>11. Cardinality(A) < Cardinality(B)
    BY <2>9, <2>10
  <2>12. QED
    BY <2>7, <2>11
<1>5. \A rank \in 1 .. Cardinality(S) : \E i \in S : Cardinality(Above(i)) = rank
  <2>1. PICK f : f = [i \in S |-> Cardinality(Above(i))]
    OBVIOUS
  <2>2. f \in [S -> 1 .. Cardinality(S)]
    BY <1>3, <2>1
  <2>3. \A i, j \in S : f[i] = f[j] => i = j
    <3>1. SUFFICES ASSUME NEW i \in S, NEW j \in S, i # j PROVE f[i] # f[j]
      OBVIOUS
    <3>2. /\ i \in Int /\ j \in Int /\ score[i] \in Int /\ score[j] \in Int
          /\ f[i] \in Int /\ f[j] \in Int
      BY <1>1, <2>2
    <3>3. \/ score[j] < score[i] \/ (score[j] = score[i] /\ i < j)
          \/ score[i] < score[j] \/ (score[i] = score[j] /\ j < i)
      BY <3>1, <3>2
    <3>4. f[i] < f[j] \/ f[j] < f[i]
      BY <1>4, <2>1, <3>3
    <3>5. QED
      BY <3>2, <3>4
  <2>4. f \in Injection(S, 1 .. Cardinality(S))
    BY <2>2, <2>3 DEF Injection, IsInjective
  <2>5. IsFiniteSet(1 .. Cardinality(S)) /\ Cardinality(1 .. Cardinality(S)) = Cardinality(S)
    BY <1>1, FS_Interval
  <2>6. f \in Surjection(S, 1 .. Cardinality(S))
    BY <2>4, <2>5, FS_Injection
  <2>7. QED
    BY <2>1, <2>6 DEF Surjection
<1>6. QED
  BY <1>1, <1>2, <1>3, <1>4, <1>5

\* The list in which each has its place: nobody is left out or named twice, and
\* no one stands before a greater score.
Listing(order, S, score) ==
  /\ order \in [1 .. Cardinality(S) -> S]
  /\ \A i \in S : \E rank \in 1 .. Cardinality(S) : order[rank] = i
  /\ \A a, b \in 1 .. Cardinality(S) : a < b =>
       order[a] # order[b] /\ score[order[a]] >= score[order[b]]

LEMMA ListInOrder ==
  ASSUME NEW n \in Nat, NEW S \in SUBSET (1 .. n), NEW score \in [S -> Int]
  PROVE  Cardinality(S) \in Nat /\ Listing(InOrder(S, score), S, score)
<1>1. PICK order : order = InOrder(S, score)
  OBVIOUS
<1>2. Cardinality(S) \in Nat
  BY PlacesAreTaken
<1>3. \A rank \in 1 .. Cardinality(S) :
        order[rank] \in S /\ RankOf(S, score, order[rank]) = rank
  BY <1>1, PlacesAreTaken DEF InOrder
<1>4. order \in [1 .. Cardinality(S) -> S]
  BY <1>1, <1>3 DEF InOrder
<1>5. \A i, j \in S : RankOf(S, score, i) = RankOf(S, score, j) => i = j
  <2>1. SUFFICES ASSUME NEW i \in S, NEW j \in S, i # j
                 PROVE  RankOf(S, score, i) # RankOf(S, score, j)
    OBVIOUS
  <2>2. i \in Int /\ j \in Int /\ score[i] \in Int /\ score[j] \in Int
    OBVIOUS
  <2>3. RankOf(S, score, i) \in Int /\ RankOf(S, score, j) \in Int
    BY <1>2, PlacesAreTaken
  <2>4. \/ score[j] < score[i] \/ (score[j] = score[i] /\ i < j)
        \/ score[i] < score[j] \/ (score[i] = score[j] /\ j < i)
    BY <2>1, <2>2
  <2>5. RankOf(S, score, i) < RankOf(S, score, j) \/ RankOf(S, score, j) < RankOf(S, score, i)
    BY <2>4, PlacesAreTaken
  <2>6. QED
    BY <2>3, <2>5
<1>6. \A i \in S : \E rank \in 1 .. Cardinality(S) : order[rank] = i
  <2>1. SUFFICES ASSUME NEW i \in S
                 PROVE  \E rank \in 1 .. Cardinality(S) : order[rank] = i
    OBVIOUS
  <2>2. PICK rank \in 1 .. Cardinality(S) : rank = RankOf(S, score, i)
    BY PlacesAreTaken
  <2>3. order[rank] = i
    BY <1>3, <1>5, <2>2
  <2>4. QED
    BY <2>3
<1>7. \A a, b \in 1 .. Cardinality(S) : a < b =>
        order[a] # order[b] /\ score[order[a]] >= score[order[b]]
  <2>1. SUFFICES ASSUME NEW a \in 1 .. Cardinality(S), NEW b \in 1 .. Cardinality(S), a < b
                 PROVE  order[a] # order[b] /\ score[order[a]] >= score[order[b]]
    OBVIOUS
  <2>2. PICK i \in S, j \in S :
          i = order[a] /\ j = order[b] /\ RankOf(S, score, i) = a /\ RankOf(S, score, j) = b
    BY <1>3
  <2>3. i # j
    BY <2>1, <2>2
  <2>4. ~(score[i] < score[j])
    <3>1. score[i] < score[j] => RankOf(S, score, j) < RankOf(S, score, i)
      BY PlacesAreTaken
    <3>2. ~(b < a)
      BY <1>2, <2>1
    <3>3. QED
      BY <2>2, <3>1, <3>2
  <2>5. score[i] \in Int /\ score[j] \in Int
    OBVIOUS
  <2>6. score[i] >= score[j]
    BY <2>4, <2>5
  <2>7. QED
    BY <2>2, <2>3, <2>6
<1>8. QED
  BY <1>1, <1>2, <1>4, <1>6, <1>7 DEF Listing

SnapshotRow ==
  [scan_time : Nat, symbol : Symbols, status : {"success", "error"}, rank : Nat,
   recommendation : {"BUY", "WAIT", "SELL", "none"}, score : Int]

\* The rows that a scan of a list ends with: one for each symbol, those with a rank
\* first, in their order.
WholeTable(t, symbols, F) ==
  /\ F \in Seq(SnapshotRow) /\ Len(F) = Len(symbols)
  /\ \A k \in 1 .. Len(F) : F[k].scan_time = t /\ F[k].symbol \in Range(symbols)
  /\ \A s \in Range(symbols) : \E k \in 1 .. Len(F) : F[k].symbol = s
  /\ \A k \in 1 .. Len(F) : F[k].rank # 0 => F[k].rank = k
  /\ \A a, b \in 1 .. Len(F) : a < b =>
       /\ F[a].symbol # F[b].symbol
       /\ F[b].rank # 0 => F[a].rank # 0 /\ F[a].score >= F[b].score

\* The positions that are ranked, and those that failed.
RankedIn(symbols, results) == {i \in DOMAIN symbols : Ranked(results[symbols[i]])}
FailedIn(symbols, results) == {i \in DOMAIN symbols : ~Ranked(results[symbols[i]])}

\* Part of the table: the rows of some positions.
PartOf(A, t, symbols, positions) ==
  /\ A \in Seq(SnapshotRow) /\ Cardinality(positions) \in Nat
  /\ Len(A) = Cardinality(positions)
  /\ \A k \in 1 .. Len(A) :
       A[k].scan_time = t /\ \E i \in positions : A[k].symbol = symbols[i]
  /\ \A i \in positions : \E k \in 1 .. Len(A) : A[k].symbol = symbols[i]
  /\ \A a, b \in 1 .. Len(A) : a < b => A[a].symbol # A[b].symbol

BestFirst(A) ==
  /\ \A k \in 1 .. Len(A) : A[k].rank = k
  /\ \A a, b \in 1 .. Len(A) : a < b => A[a].score >= A[b].score

NoneRanked(A) == \A k \in 1 .. Len(A) : A[k].rank = 0

LEMMA SuccessRowsAreRanked ==
  ASSUME NEW t \in Nat, NEW symbols \in Seq(Symbols), IsInjective(symbols), NEW results
  PROVE  /\ PartOf(SuccessRows(t, symbols, results), t, symbols, RankedIn(symbols, results))
         /\ BestFirst(SuccessRows(t, symbols, results))
<1>a. PICK A : A = SuccessRows(t, symbols, results)
  OBVIOUS
<1>1. PICK n \in Nat : n = Len(symbols)
  OBVIOUS
<1>0. PICK valid : /\ valid = RankedIn(symbols, results)
                   /\ valid = {i \in DOMAIN symbols : Ranked(results[symbols[i]])}
  BY DEF RankedIn
<1>2. DOMAIN symbols = 1 .. n /\ valid \in SUBSET (1 .. n)
  BY <1>0, <1>1
<1>3. PICK score : score = [i \in valid |-> Score(results[symbols[i]])]
  OBVIOUS
<1>4. score \in [valid -> Int] /\ \A i \in valid : score[i] = Score(results[symbols[i]])
  BY <1>0, <1>3, ScoreIsInt
<1>5. PICK order : order = InOrder(valid, score)
  OBVIOUS
<1>6. PICK m \in Nat : m = Cardinality(valid)
  BY <1>2, <1>4, ListInOrder
<1>7. /\ order \in [1 .. m -> valid]
      /\ \A i \in valid : \E k \in 1 .. m : order[k] = i
      /\ \A a, b \in 1 .. m : a < b =>
           order[a] # order[b] /\ score[order[a]] >= score[order[b]]
  <2>1. Listing(order, valid, score)
    BY <1>2, <1>4, <1>5, ListInOrder
  <2>2. QED
    BY <1>6, <2>1 DEF Listing
<1>8. A = [k \in 1 .. m |->
             SuccessRow(t, symbols[order[k]], results[symbols[order[k]]], k)]
  <2>1. DOMAIN order = 1 .. m
    BY <1>7
  <2>2. A = [k \in DOMAIN order |->
               SuccessRow(t, symbols[order[k]], results[symbols[order[k]]], k)]
    BY <1>a, <1>0, <1>3, <1>5 DEF SuccessRows
  <2>3. QED
    BY <2>1, <2>2
<1>9. \A k \in 1 .. m :
        /\ A[k] \in SnapshotRow /\ A[k].scan_time = t /\ A[k].rank = k
        /\ A[k].symbol = symbols[order[k]] /\ A[k].score = score[order[k]]
  <2>1. SUFFICES ASSUME NEW k \in 1 .. m
                 PROVE  /\ A[k] \in SnapshotRow /\ A[k].scan_time = t /\ A[k].rank = k
                        /\ A[k].symbol = symbols[order[k]] /\ A[k].score = score[order[k]]
    OBVIOUS
  <2>2. PICK i \in valid : i = order[k]
    BY <1>7
  <2>3. PICK s, entry : s \in Symbols /\ s = symbols[i] /\ entry = results[symbols[i]]
    BY <1>2, <2>2
  <2>4. Ranked(entry) /\ score[i] = Score(entry)
    BY <1>0, <1>4, <2>3
  <2>5. PICK label, x : label = WatchlistLabel(entry) /\ x = Score(entry)
    OBVIOUS
  <2>6. label \in {"BUY", "WAIT", "SELL"} /\ x \in Int
    BY <2>4, <2>5, RankedLabel, ScoreIsInt
  <2>7. A[k] = [scan_time |-> t, symbol |-> s, status |-> "success", rank |-> k,
                recommendation |-> label, score |-> x]
    BY <1>8, <2>2, <2>3, <2>5 DEF SuccessRow
  <2>8. k \in Nat
    BY <1>6
  <2>9. QED
    BY <2>2, <2>3, <2>4, <2>5, <2>6, <2>7, <2>8 DEF SnapshotRow
<1>10. A \in Seq(SnapshotRow) /\ Len(A) = m
  <2>1. A \in [1 .. m -> SnapshotRow]
    BY <1>8, <1>9
  <2>2. QED
    BY <2>1
<1>11. \A i \in valid : \E k \in 1 .. m : A[k].symbol = symbols[i]
  BY <1>7, <1>9
<1>12. \A a, b \in 1 .. m : a < b => A[a].symbol # A[b].symbol /\ A[a].score >= A[b].score
  <2>1. SUFFICES ASSUME NEW a \in 1 .. m, NEW b \in 1 .. m, a < b
                 PROVE  A[a].symbol # A[b].symbol /\ A[a].score >= A[b].score
    OBVIOUS
  <2>2. PICK i \in valid, j \in valid :
          i = order[a] /\ j = order[b] /\ i # j /\ score[i] >= score[j]
    BY <1>7, <2>1
  <2>3. symbols[i] # symbols[j]
    BY <1>2, <2>2 DEF IsInjective
  <2>4. QED
    BY <1>9, <2>2, <2>3
<1>13. \A k \in 1 .. m : A[k].scan_time = t /\ A[k].rank = k
                         /\ \E i \in valid : A[k].symbol = symbols[i]
  BY <1>7, <1>9
<1>14. PartOf(A, t, symbols, valid)
  <2>1. Len(A) = m /\ m = Cardinality(valid)
    BY <1>6, <1>10
  <2>2. QED
    BY <1>10, <1>11, <1>12, <1>13, <2>1 DEF PartOf
<1>15. BestFirst(A)
  BY <1>10, <1>12, <1>13 DEF BestFirst
<1>16. QED
  BY <1>a, <1>0, <1>14, <1>15

LEMMA FailureRowsAreListed ==
  ASSUME NEW t \in Nat, NEW symbols \in Seq(Symbols), IsInjective(symbols), NEW results
  PROVE  /\ PartOf(FailureRows(t, symbols, results), t, symbols, FailedIn(symbols, results))
         /\ NoneRanked(FailureRows(t, symbols, results))
<1>a. PICK B : B = FailureRows(t, symbols, results)
  OBVIOUS
<1>1. PICK n \in Nat : n = Len(symbols)
  OBVIOUS
<1>0. PICK failed : /\ failed = FailedIn(symbols, results)
                    /\ failed = {i \in DOMAIN symbols : ~Ranked(results[symbols[i]])}
  BY DEF FailedIn
<1>2. DOMAIN symbols = 1 .. n /\ failed \in SUBSET (1 .. n)
  BY <1>0, <1>1
<1>3. PICK score : score = [i \in failed |-> 0]
  OBVIOUS
<1>4. score \in [failed -> Int]
  BY <1>3
<1>5. PICK order : order = InOrder(failed, score)
  OBVIOUS
<1>6. PICK m \in Nat : m = Cardinality(failed)
  BY <1>2, <1>4, ListInOrder
<1>7. /\ order \in [1 .. m -> failed]
      /\ \A i \in failed : \E k \in 1 .. m : order[k] = i
      /\ \A a, b \in 1 .. m : a < b => order[a] # order[b]
  <2>1. Listing(order, failed, score)
    BY <1>2, <1>4, <1>5, ListInOrder
  <2>2. QED
    BY <1>6, <2>1 DEF Listing
<1>8. B = [k \in 1 .. m |-> ErrorRow(t, symbols[order[k]])]
  <2>1. DOMAIN order = 1 .. m
    BY <1>7
  <2>2. B = [k \in DOMAIN order |-> ErrorRow(t, symbols[order[k]])]
    BY <1>a, <1>0, <1>3, <1>5 DEF FailureRows
  <2>3. QED
    BY <2>1, <2>2
<1>9. \A k \in 1 .. m : /\ B[k] \in SnapshotRow /\ B[k].scan_time = t /\ B[k].rank = 0
                        /\ B[k].symbol = symbols[order[k]]
  <2>1. SUFFICES ASSUME NEW k \in 1 .. m
                 PROVE  /\ B[k] \in SnapshotRow /\ B[k].scan_time = t /\ B[k].rank = 0
                        /\ B[k].symbol = symbols[order[k]]
    OBVIOUS
  <2>a. order[k] \in 1 .. n
    BY <1>2, <1>7
  <2>2. PICK s \in Symbols : s = symbols[order[k]]
    BY <1>1, <2>a
  <2>3. B[k] = [scan_time |-> t, symbol |-> s, status |-> "error", rank |-> 0,
                recommendation |-> "none", score |-> 0]
    BY <1>8, <2>2 DEF ErrorRow
  <2>4. QED
    BY <2>2, <2>3 DEF SnapshotRow
<1>10. B \in Seq(SnapshotRow) /\ Len(B) = m
  <2>1. B \in [1 .. m -> SnapshotRow]
    BY <1>8, <1>9
  <2>2. QED
    BY <2>1
<1>11. \A i \in failed : \E k \in 1 .. m : B[k].symbol = symbols[i]
  <2>1. SUFFICES ASSUME NEW i \in failed PROVE \E k \in 1 .. m : B[k].symbol = symbols[i]
    OBVIOUS
  <2>2. PICK k \in 1 .. m : order[k] = i
    BY <1>7
  <2>3. QED
    BY <1>9, <2>2
<1>12. \A a, b \in 1 .. m : a < b => B[a].symbol # B[b].symbol
  <2>1. SUFFICES ASSUME NEW a \in 1 .. m, NEW b \in 1 .. m, a < b
                 PROVE  B[a].symbol # B[b].symbol
    OBVIOUS
  <2>2. PICK i \in failed, j \in failed : i = order[a] /\ j = order[b] /\ i # j
    BY <1>7, <2>1
  <2>3. symbols[i] # symbols[j]
    BY <1>2, <2>2 DEF IsInjective
  <2>4. QED
    BY <1>9, <2>2, <2>3
<1>13. \A k \in 1 .. m : B[k].scan_time = t /\ B[k].rank = 0
                         /\ \E i \in failed : B[k].symbol = symbols[i]
  BY <1>7, <1>9
<1>14. PartOf(B, t, symbols, failed)
  <2>1. Len(B) = m /\ m = Cardinality(failed)
    BY <1>6, <1>10
  <2>2. QED
    BY <1>10, <1>11, <1>12, <1>13, <2>1 DEF PartOf
<1>15. NoneRanked(B)
  BY <1>10, <1>13 DEF NoneRanked
<1>16. QED
  BY <1>a, <1>0, <1>14, <1>15

LEMMA ScanRowsAreWhole ==
  ASSUME NEW t \in Nat, NEW symbols \in Seq(Symbols), IsInjective(symbols), NEW results
  PROVE  WholeTable(t, symbols, ScanRows(t, symbols, results))
<1>1. PICK n \in Nat : n = Len(symbols) /\ DOMAIN symbols = 1 .. n
  OBVIOUS
<1>2. PICK valid, failed : /\ valid = RankedIn(symbols, results)
                           /\ failed = FailedIn(symbols, results)
  OBVIOUS
<1>3. PICK A, B, F : /\ A = SuccessRows(t, symbols, results)
                     /\ B = FailureRows(t, symbols, results)
                     /\ F = ScanRows(t, symbols, results)
  OBVIOUS
<1>a. PartOf(A, t, symbols, valid) /\ BestFirst(A)
  BY <1>2, <1>3, SuccessRowsAreRanked
<1>b. PartOf(B, t, symbols, failed) /\ NoneRanked(B)
  BY <1>2, <1>3, FailureRowsAreListed
<1>c. /\ valid = {i \in DOMAIN symbols : Ranked(results[symbols[i]])}
      /\ failed = {i \in DOMAIN symbols : ~Ranked(results[symbols[i]])}
  BY <1>2 DEF RankedIn, FailedIn
<1>4. PICK m \in Nat, f \in Nat : m = Cardinality(valid) /\ f = Cardinality(failed)
  BY <1>a, <1>b DEF PartOf
<1>5. m + f = n
  <2>1. IsFiniteSet(1 .. n) /\ Cardinality(1 .. n) = n
    BY FS_Interval
  <2>2. valid \in SUBSET (1 .. n) /\ failed \in SUBSET (1 .. n)
    BY <1>1, <1>c
  <2>3. IsFiniteSet(valid) /\ IsFiniteSet(failed)
    BY <2>1, <2>2, FS_Subset
  <2>4. valid \cup failed = 1 .. n /\ valid \cap failed = {}
    BY <1>1, <1>c
  <2>5. Cardinality(1 .. n) = Cardinality(valid) + Cardinality(failed) - Cardinality({})
    BY <2>3, <2>4, FS_Union
  <2>6. QED
    BY <1>4, <2>1, <2>5, FS_EmptySet
<1>6. /\ A \in Seq(SnapshotRow) /\ Len(A) = m
      /\ \A k \in 1 .. m : /\ A[k].scan_time = t /\ A[k].rank = k
                           /\ \E i \in valid : A[k].symbol = symbols[i]
      /\ \A i \in valid : \E k \in 1 .. m : A[k].symbol = symbols[i]
      /\ \A a, b \in 1 .. m : a < b => A[a].symbol # A[b].symbol /\ A[a].score >= A[b].score
  <2>1. Len(A) = m
    BY <1>4, <1>a DEF PartOf
  <2>2. QED
    BY <1>a, <2>1 DEF PartOf, BestFirst
<1>7. /\ B \in Seq(SnapshotRow) /\ Len(B) = f
      /\ \A k \in 1 .. f : /\ B[k].scan_time = t /\ B[k].rank = 0
                           /\ \E i \in failed : B[k].symbol = symbols[i]
      /\ \A i \in failed : \E k \in 1 .. f : B[k].symbol = symbols[i]
      /\ \A a, b \in 1 .. f : a < b => B[a].symbol # B[b].symbol
  <2>1. Len(B) = f
    BY <1>4, <1>b DEF PartOf
  <2>2. QED
    BY <1>b, <2>1 DEF PartOf, NoneRanked
<1>8. /\ F \in Seq(SnapshotRow) /\ Len(F) = n
      /\ \A k \in 1 .. m : F[k] = A[k]
      /\ \A k \in 1 .. f : F[m + k] = B[k]
  <2>1. F = A \o B
    BY <1>3 DEF ScanRows
  <2>2. A \in Seq(SnapshotRow) /\ B \in Seq(SnapshotRow) /\ Len(A) = m /\ Len(B) = f
    BY <1>6, <1>7
  <2>a. /\ F \in Seq(SnapshotRow) /\ Len(F) = Len(A) + Len(B)
        /\ \A k \in 1 .. Len(A) + Len(B) :
             F[k] = IF k <= Len(A) THEN A[k] ELSE B[k - Len(A)]
    BY <2>1, <2>2, ConcatProperties
  <2>3. F \in Seq(SnapshotRow) /\ Len(F) = n
    BY <1>5, <2>2, <2>a
  <2>4. \A k \in 1 .. m + f : F[k] = IF k <= m THEN A[k] ELSE B[k - m]
    BY <2>2, <2>a
  <2>5. \A k \in 1 .. m : k \in 1 .. m + f /\ k <= m
    OBVIOUS
  <2>6. \A k \in 1 .. f : m + k \in 1 .. m + f /\ ~(m + k <= m) /\ (m + k) - m = k
    OBVIOUS
  <2>7. QED
    BY <2>3, <2>4, <2>5, <2>6
<1>9. \A k \in 1 .. n : k \in 1 .. m \/ \E c \in 1 .. f : k = m + c
  <2>1. SUFFICES ASSUME NEW k \in 1 .. n, k \notin 1 .. m
                 PROVE  \E c \in 1 .. f : k = m + c
    OBVIOUS
  <2>2. k - m \in 1 .. f /\ k = m + (k - m)
    BY <1>5, <2>1
  <2>3. QED
    BY <2>2
<1>10. \A k \in 1 .. n : F[k].scan_time = t /\ F[k].symbol \in Range(symbols)
  <2>1. SUFFICES ASSUME NEW k \in 1 .. n
                 PROVE  F[k].scan_time = t /\ F[k].symbol \in Range(symbols)
    OBVIOUS
  <2>2. \E i \in DOMAIN symbols : F[k].scan_time = t /\ F[k].symbol = symbols[i]
    <3>1. CASE k \in 1 .. m
      <4>1. PICK i \in valid : A[k].symbol = symbols[i] /\ A[k].scan_time = t
        BY <1>6, <3>1
      <4>2. i \in DOMAIN symbols /\ F[k] = A[k]
        BY <1>8, <1>c, <3>1
      <4>3. QED
        BY <4>1, <4>2
    <3>2. CASE \E c \in 1 .. f : k = m + c
      <4>1. PICK c \in 1 .. f : k = m + c
        BY <3>2
      <4>2. PICK i \in failed : B[c].symbol = symbols[i] /\ B[c].scan_time = t
        BY <1>7
      <4>3. i \in DOMAIN symbols /\ F[k] = B[c]
        BY <1>8, <1>c, <4>1
      <4>4. QED
        BY <4>2, <4>3
    <3>3. QED
      BY <1>9, <3>1, <3>2
  <2>3. QED
    BY <2>2 DEF Range
<1>11. \A s \in Range(symbols) : \E k \in 1 .. n : F[k].symbol = s
  <2>1. SUFFICES ASSUME NEW s \in Range(symbols)
                 PROVE  \E k \in 1 .. n : F[k].symbol = s
    OBVIOUS
  <2>2. PICK i \in DOMAIN symbols : s = symbols[i]
    BY DEF Range
  <2>3. CASE i \in valid
    <3>1. PICK k \in 1 .. m : A[k].symbol = s
      BY <1>6, <2>2, <2>3
    <3>2. k \in 1 .. n
      BY <1>5
    <3>3. QED
      BY <1>8, <3>1, <3>2
  <2>4. CASE i \in failed
    <3>1. PICK k \in 1 .. f : B[k].symbol = s
      BY <1>7, <2>2, <2>4
    <3>2. m + k \in 1 .. n
      BY <1>5
    <3>3. QED
      BY <1>8, <3>1, <3>2
  <2>5. QED
    BY <1>c, <2>2, <2>3, <2>4
<1>12. \A k \in 1 .. n : F[k].rank # 0 => k \in 1 .. m /\ F[k].rank = k
  <2>1. SUFFICES ASSUME NEW k \in 1 .. n, F[k].rank # 0
                 PROVE  k \in 1 .. m /\ F[k].rank = k
    OBVIOUS
  <2>2. ASSUME NEW c \in 1 .. f, k = m + c PROVE FALSE
    <3>1. B[c].rank = 0
      BY <1>7
    <3>2. F[k] = B[c]
      BY <1>8, <2>2
    <3>3. QED
      BY <2>1, <3>1, <3>2
  <2>3. k \in 1 .. m
    BY <1>9, <2>2
  <2>4. F[k] = A[k]
    BY <1>8, <2>3
  <2>5. A[k].rank = k
    BY <1>6, <2>3
  <2>6. QED
    BY <2>3, <2>4, <2>5
<1>13. \A a, b \in 1 .. n : a < b => F[a].symbol # F[b].symbol
  <2>1. SUFFICES ASSUME NEW a \in 1 .. n, NEW b \in 1 .. n, a < b
                 PROVE  F[a].symbol # F[b].symbol
    OBVIOUS
  <2>2. CASE a \in 1 .. m /\ b \in 1 .. m
    BY <1>6, <1>8, <2>1, <2>2
  <2>3. CASE a \in 1 .. m /\ b \notin 1 .. m
    <3>1. PICK c \in 1 .. f : b = m + c
      BY <1>9, <2>3
    <3>a. PICK i \in valid : F[a].symbol = symbols[i]
      <4>1. PICK i \in valid : A[a].symbol = symbols[i]
        BY <1>6, <2>3
      <4>2. F[a] = A[a]
        BY <1>8, <2>3
      <4>3. QED
        BY <4>1, <4>2
    <3>b. PICK j \in failed : F[b].symbol = symbols[j]
      <4>1. PICK j \in failed : B[c].symbol = symbols[j]
        BY <1>7
      <4>2. F[b] = B[c]
        BY <1>8, <3>1
      <4>3. QED
        BY <4>1, <4>2
    <3>2. F[a].symbol = symbols[i] /\ F[b].symbol = symbols[j]
      BY <3>a, <3>b
    <3>3. i \in DOMAIN symbols /\ j \in DOMAIN symbols /\ i # j
      BY <1>c
    <3>4. QED
      BY <3>2, <3>3 DEF IsInjective
  <2>4. CASE a \notin 1 .. m
    <3>1. b \notin 1 .. m
      BY <2>1, <2>4
    <3>2. PICK c \in 1 .. f, d \in 1 .. f : a = m + c /\ b = m + d
      BY <1>9, <2>4, <3>1
    <3>3. c < d
      BY <2>1, <3>2
    <3>4. F[a] = B[c] /\ F[b] = B[d]
      BY <1>8, <3>2
    <3>5. B[c].symbol # B[d].symbol
      BY <1>7, <3>3
    <3>6. QED
      BY <3>4, <3>5
  <2>5. QED
    BY <2>2, <2>3, <2>4
<1>14. \A a, b \in 1 .. n : a < b /\ F[b].rank # 0 => F[a].rank # 0 /\ F[a].score >= F[b].score
  <2>1. SUFFICES ASSUME NEW a \in 1 .. n, NEW b \in 1 .. n, a < b, F[b].rank # 0
                 PROVE  F[a].rank # 0 /\ F[a].score >= F[b].score
    OBVIOUS
  <2>2. b \in 1 .. m
    BY <1>12, <2>1
  <2>3. a \in 1 .. m /\ a # 0
    BY <2>1, <2>2
  <2>4. QED
    BY <1>6, <1>8, <2>1, <2>2, <2>3
<1>15. QED
  BY <1>1, <1>3, <1>8, <1>10, <1>11, <1>12, <1>13, <1>14 DEF WholeTable


-----------------------------------------------------------------------------
(***************************************************************************)
(* Scans and briefs: WatchlistScan                                         *)
(***************************************************************************)
ScanRecord == [symbols : Seq(Symbols), end : {"running", "done", "died"}]

BriefStatus ==
  {"INSUFFICIENT_DATA", "DATA_ERROR", "DATA_STALE", "NO_TRADE", "SUCCESS",
   "RISK_REJECTED", "POLICY_BLOCKED"}

BriefRecord ==
  [symbol : Symbols, generated_at : Nat, status : BriefStatus, snapshot : Nat,
   before : Nat, newest : Nat, whole : BOOLEAN]

NewScan == [symbols |-> << >>, end |-> "running"]

Analysing(t) == [pc |-> "analyse", at |-> t]
Writing(t, rows) == [pc |-> "write", at |-> t, rows |-> rows]
Inserting(x) == [pc |-> "insert", sheet |-> x]

ScanTypes ==
  /\ listed \in Seq(Symbols) /\ IsInjective(listed)
  /\ now \in Nat /\ aged \in SUBSET (1 .. now)
  /\ DOMAIN scans \in SUBSET (1 .. now)
  /\ \A t \in DOMAIN scans : scans[t] \in ScanRecord /\ IsInjective(scans[t].symbols)
  /\ snapshots \in Seq(SnapshotRow)
  /\ \A i \in DOMAIN snapshots : snapshots[i].scan_time \in DOMAIN scans
  /\ sheets \in Seq(BriefRecord)
  /\ DOMAIN watcher = Watchers

\* A process that scans has a scan of its own, which is under way.
WatcherOK(state, runs) ==
  \/ state = Away
  \/ \E t \in DOMAIN runs : state = Analysing(t) /\ runs[t] = NewScan
  \/ \E t \in DOMAIN runs, rows \in Seq(SnapshotRow) :
       state = Writing(t, rows) /\ rows # << >> /\ runs[t].end = "running"
  \/ \E x \in BriefRecord : state = Inserting(x)

Scanning(state) == state.pc \in {"analyse", "write"}

OneScanEach(states) ==
  \A p, q \in Watchers :
    Scanning(states[p]) /\ Scanning(states[q]) /\ states[p].at = states[q].at => p = q

\* The first n rows of F, at their positions among all rows: no other row is of t.
Laid(rows, t, F, n, pos) ==
  /\ n \in 0 .. Len(F) /\ pos \in [1 .. n -> DOMAIN rows]
  /\ \A a, b \in 1 .. n : a < b => pos[a] < pos[b]
  /\ \A k \in 1 .. n : rows[pos[k]] = F[k]
  /\ \A i \in DOMAIN rows : rows[i].scan_time = t => \E k \in 1 .. n : pos[k] = i

\* What is left of F after its first n rows.
Left(rows, F, n) ==
  Len(rows) = Len(F) - n /\ \A k \in 1 .. Len(rows) : rows[k] = F[n + k]

\* Of the rows that a scan is to end with the first ones are there, and the process
\* that scans has the others.
TableOK(t, symbols, end, rows, states) ==
  \E F \in Seq(SnapshotRow), n \in Nat : \E pos \in [1 .. n -> Nat] :
    /\ WholeTable(t, symbols, F) /\ Laid(rows, t, F, n, pos)
    /\ end = "done" => n = Len(F)
    /\ \A p \in Watchers :
         states[p].pc = "write" /\ states[p].at = t => Left(states[p].rows, F, n)

\* A brief, inserted or not: newest is the newest scan of which a row was there, and
\* no brief that was there when it was asked for had a newer one.
SheetOK(x, rows, briefs, runs, moment) ==
  /\ x \in BriefRecord /\ x.generated_at \in 1 .. moment /\ x.before <= Len(briefs)
  /\ x.snapshot # 0 =>
       /\ x.snapshot \in DOMAIN rows
       /\ rows[x.snapshot].symbol = x.symbol /\ rows[x.snapshot].scan_time = x.newest
  /\ x.status = "SUCCESS" => x.snapshot # 0 /\ rows[x.snapshot].recommendation = "BUY"
  /\ x.newest # 0 =>
       x.newest \in DOMAIN runs /\ \E i \in DOMAIN rows : rows[i].scan_time = x.newest
  /\ \A a \in DOMAIN briefs : a <= x.before => briefs[a].newest <= x.newest
  /\ x.snapshot = 0 /\ x.whole /\ x.newest # 0 =>
       runs[x.newest].end = "done" /\ x.symbol \notin Range(runs[x.newest].symbols)

SheetsOK(states, rows, briefs, runs, moment) ==
  /\ \A b \in DOMAIN briefs : SheetOK(briefs[b], rows, briefs, runs, moment)
  /\ \A p \in Watchers :
       states[p].pc = "insert" => SheetOK(states[p].sheet, rows, briefs, runs, moment)

ScanInv ==
  /\ ScanTypes
  /\ \A p \in Watchers : WatcherOK(watcher[p], scans)
  /\ OneScanEach(watcher)
  /\ \A t \in DOMAIN scans :
       TableOK(t, scans[t].symbols, scans[t].end, snapshots, watcher)
  /\ SheetsOK(watcher, snapshots, sheets, scans, now)

LEMMA Largest ==
  ASSUME NEW b \in Nat, NEW T \in SUBSET (0 .. b), T # {}
  PROVE  \E t \in T : \A u \in T : t >= u
<1> DEFINE R == {ss \in Nat \X Nat : ss[1] < ss[2]}
<1>1. IsWellFoundedOn(OpToRel(<, Nat), Nat)
  BY NatLessThanWellFounded, Zenon
<1>2. IsWellFoundedOn(R, Nat)
  BY <1>1, Zenon DEF OpToRel
<1>3. \A x, y \in Nat : x < y => <<x, y>> \in R
  OBVIOUS
<1> HIDE DEF R
<1>4. PICK D : D = {b - t : t \in T}
  OBVIOUS
<1>5. D \in SUBSET Nat /\ D # {}
  <2>1. \A t \in T : b - t \in Nat
    OBVIOUS
  <2>2. \A d \in D : d \in Nat
    BY <1>4, <2>1
  <2>3. D # {}
    BY <1>4
  <2>4. QED
    BY <2>2, <2>3
<1>6. PICK x \in D : \A y \in D : ~(<<y, x>> \in R)
  BY <1>2, <1>5, WFMin
<1>7. PICK t \in T : x = b - t
  BY <1>4, <1>6
<1>8. \A u \in T : t >= u
  <2>1. SUFFICES ASSUME NEW u \in T PROVE t >= u
    OBVIOUS
  <2>2. b - u \in D /\ b - u \in Nat /\ x \in Nat
    BY <1>4, <1>5
  <2>3. ~(b - u < x)
    BY <1>3, <1>6, <2>2
  <2>4. t \in Int /\ u \in Int
    OBVIOUS
  <2>5. QED
    BY <1>7, <2>3, <2>4
<1>9. QED
  BY <1>8

\* SELECT MAX(scan_time) has an answer as soon as there is a row.
LEMMA NewestScan ==
  ASSUME NEW b \in Nat, snapshots \in Seq(SnapshotRow), snapshots # << >>,
         \A i \in DOMAIN snapshots : snapshots[i].scan_time \in 1 .. b
  PROVE  /\ MaxScanTime \in 1 .. b
         /\ \E i \in DOMAIN snapshots : snapshots[i].scan_time = MaxScanTime
         /\ \A i \in DOMAIN snapshots : MaxScanTime >= snapshots[i].scan_time
<1>1. PICK T : T = {snapshots[i].scan_time : i \in DOMAIN snapshots}
  OBVIOUS
<1>2. T \in SUBSET (1 .. b) /\ T \in SUBSET (0 .. b)
  BY <1>1
<1>3. T # {}
  <2>1. 1 \in DOMAIN snapshots
    OBVIOUS
  <2>2. QED
    BY <1>1, <2>1
<1>4. \E t \in T : \A u \in T : t >= u
  BY <1>2, <1>3, Largest
<1>5. \E t \in T : \A i \in DOMAIN snapshots : t >= snapshots[i].scan_time
  BY <1>1, <1>4
<1>6. MaxScanTime = CHOOSE t \in T : \A i \in DOMAIN snapshots : t >= snapshots[i].scan_time
  BY <1>1 DEF MaxScanTime
<1>7. MaxScanTime \in T /\ \A i \in DOMAIN snapshots : MaxScanTime >= snapshots[i].scan_time
  BY <1>5, <1>6
<1>8. QED
  BY <1>1, <1>2, <1>7

LEMMA EmptyTable ==
  ASSUME NEW t \in Nat
  PROVE  WholeTable(t, << >>, << >>)
<1>1. << >> \in Seq(SnapshotRow) /\ Len(<< >>) = 0 /\ Range(<< >>) = {}
  BY DEF Range
<1>2. QED
  BY <1>1 DEF WholeTable

\* One row more of t, in its place.
LEMMA LaidMore ==
  ASSUME NEW rows \in Seq(SnapshotRow), NEW row \in SnapshotRow, NEW t \in Nat,
         NEW F \in Seq(SnapshotRow), NEW n \in Nat, NEW pos \in [1 .. n -> Nat],
         Laid(rows, t, F, n, pos), n < Len(F), row = F[n + 1]
  PROVE  \E new \in [1 .. n + 1 -> Nat] : Laid(Append(rows, row), t, F, n + 1, new)
<1>1. PICK len \in Nat : len = Len(rows) /\ DOMAIN rows = 1 .. len
  OBVIOUS
<1>2. PICK new : new = [k \in 1 .. n + 1 |-> IF k <= n THEN pos[k] ELSE len + 1]
  OBVIOUS
<1>3. PICK more : more = Append(rows, row)
  OBVIOUS
<1>4. /\ Len(more) = len + 1 /\ DOMAIN more = 1 .. len + 1
      /\ \A i \in 1 .. len : more[i] = rows[i]
      /\ more[len + 1] = row
  <2>1. /\ more \in Seq(SnapshotRow) /\ Len(more) = len + 1
        /\ \A i \in 1 .. len : more[i] = rows[i]
        /\ more[len + 1] = row
    BY <1>1, <1>3, AppendProperties
  <2>2. DOMAIN more = 1 .. len + 1
    BY <2>1
  <2>3. QED
    BY <2>1, <2>2
<1>5. /\ pos \in [1 .. n -> 1 .. len]
      /\ \A a, b \in 1 .. n : a < b => pos[a] < pos[b]
      /\ \A k \in 1 .. n : rows[pos[k]] = F[k]
      /\ \A i \in 1 .. len : rows[i].scan_time = t => \E k \in 1 .. n : pos[k] = i
  BY <1>1 DEF Laid
<1>6. /\ \A k \in 1 .. n : k \in 1 .. n + 1 /\ new[k] = pos[k]
      /\ n + 1 \in 1 .. n + 1 /\ new[n + 1] = len + 1
      /\ \A k \in 1 .. n + 1 : k \in 1 .. n \/ k = n + 1
  BY <1>2
<1>7. new \in [1 .. n + 1 -> 1 .. len + 1]
  <2>1. \A k \in 1 .. n + 1 : new[k] \in 1 .. len + 1
    <3>1. SUFFICES ASSUME NEW k \in 1 .. n + 1 PROVE new[k] \in 1 .. len + 1
      OBVIOUS
    <3>2. CASE k \in 1 .. n
      BY <1>5, <1>6, <3>2
    <3>3. CASE k = n + 1
      BY <1>6, <3>3
    <3>4. QED
      BY <1>6, <3>2, <3>3
  <2>2. QED
    BY <1>2, <2>1
<1>8. \A a, b \in 1 .. n + 1 : a < b => new[a] < new[b]
  <2>1. SUFFICES ASSUME NEW a \in 1 .. n + 1, NEW b \in 1 .. n + 1, a < b
                 PROVE  new[a] < new[b]
    OBVIOUS
  <2>2. a \in 1 .. n
    BY <2>1
  <2>3. CASE b \in 1 .. n
    BY <1>5, <1>6, <2>1, <2>2, <2>3
  <2>4. CASE b = n + 1
    <3>1. new[a] \in 1 .. len /\ new[b] = len + 1
      BY <1>5, <1>6, <2>2, <2>4
    <3>2. QED
      BY <3>1
  <2>5. QED
    BY <1>6, <2>3, <2>4
<1>9. \A k \in 1 .. n + 1 : more[new[k]] = F[k]
  <2>1. SUFFICES ASSUME NEW k \in 1 .. n + 1 PROVE more[new[k]] = F[k]
    OBVIOUS
  <2>2. CASE k \in 1 .. n
    <3>1. new[k] = pos[k] /\ pos[k] \in 1 .. len /\ rows[pos[k]] = F[k]
      BY <1>5, <1>6, <2>2
    <3>2. QED
      BY <1>4, <3>1
  <2>3. CASE k = n + 1
    BY <1>4, <1>6, <2>3
  <2>4. QED
    BY <1>6, <2>2, <2>3
<1>10. \A i \in 1 .. len + 1 : more[i].scan_time = t => \E k \in 1 .. n + 1 : new[k] = i
  <2>1. SUFFICES ASSUME NEW i \in 1 .. len + 1, more[i].scan_time = t
                 PROVE  \E k \in 1 .. n + 1 : new[k] = i
    OBVIOUS
  <2>2. CASE i \in 1 .. len
    <3>1. rows[i].scan_time = t
      BY <1>4, <2>1, <2>2
    <3>2. PICK k \in 1 .. n : pos[k] = i
      BY <1>5, <2>2, <3>1
    <3>3. QED
      BY <1>6, <3>2
  <2>3. CASE i = len + 1
    BY <1>6, <2>3
  <2>4. QED
    BY <2>2, <2>3
<1>11. n + 1 \in 0 .. Len(F) /\ new \in [1 .. n + 1 -> Nat]
  BY <1>7
<1>12. Laid(more, t, F, n + 1, new)
  BY <1>4, <1>7, <1>8, <1>9, <1>10, <1>11 DEF Laid
<1>13. QED
  BY <1>3, <1>11, <1>12

\* One row more, of another scan.
LEMMA LaidStill ==
  ASSUME NEW rows \in Seq(SnapshotRow), NEW row \in SnapshotRow, NEW t \in Nat,
         NEW F \in Seq(SnapshotRow), NEW n \in Nat, NEW pos \in [1 .. n -> Nat],
         Laid(rows, t, F, n, pos), row.scan_time # t
  PROVE  Laid(Append(rows, row), t, F, n, pos)
<1>1. PICK len \in Nat : len = Len(rows) /\ DOMAIN rows = 1 .. len
  OBVIOUS
<1>2. PICK more : more = Append(rows, row)
  OBVIOUS
<1>3. /\ DOMAIN more = 1 .. len + 1
      /\ \A i \in 1 .. len : more[i] = rows[i]
      /\ more[len + 1] = row
  <2>1. /\ more \in Seq(SnapshotRow) /\ Len(more) = len + 1
        /\ \A i \in 1 .. len : more[i] = rows[i]
        /\ more[len + 1] = row
    BY <1>1, <1>2, AppendProperties
  <2>2. DOMAIN more = 1 .. len + 1
    BY <2>1
  <2>3. QED
    BY <2>1, <2>2
<1>4. /\ n \in 0 .. Len(F) /\ pos \in [1 .. n -> 1 .. len]
      /\ \A a, b \in 1 .. n : a < b => pos[a] < pos[b]
      /\ \A k \in 1 .. n : rows[pos[k]] = F[k]
      /\ \A i \in 1 .. len : rows[i].scan_time = t => \E k \in 1 .. n : pos[k] = i
  BY <1>1 DEF Laid
<1>5. \A i \in 1 .. len : i \in 1 .. len + 1
  OBVIOUS
<1>6. pos \in [1 .. n -> 1 .. len + 1]
  BY <1>4, <1>5
<1>7. \A k \in 1 .. n : more[pos[k]] = F[k]
  BY <1>3, <1>4
<1>8. \A i \in 1 .. len + 1 : more[i].scan_time = t => \E k \in 1 .. n : pos[k] = i
  <2>1. SUFFICES ASSUME NEW i \in 1 .. len + 1, more[i].scan_time = t
                 PROVE  \E k \in 1 .. n : pos[k] = i
    OBVIOUS
  <2>2. i # len + 1
    BY <1>3, <2>1
  <2>3. i \in 1 .. len
    BY <2>2
  <2>4. rows[i].scan_time = t
    BY <1>3, <2>1, <2>3
  <2>5. QED
    BY <1>4, <2>3, <2>4
<1>9. Laid(more, t, F, n, pos)
  BY <1>3, <1>4, <1>6, <1>7, <1>8 DEF Laid
<1>10. QED
  BY <1>2, <1>9

\* What the invariant says of a table is what a reader of it counts on.
LEMMA TableIsWhole ==
  ASSUME ScanInv, NEW t \in DOMAIN scans
  PROVE  ScanIsWhole(t)
<1>1. PICK S : S = RowsOf(t)
  OBVIOUS
<1>2. PICK F \in Seq(SnapshotRow), n \in Nat : \E pos \in [1 .. n -> Nat] :
        /\ WholeTable(t, scans[t].symbols, F) /\ Laid(snapshots, t, F, n, pos)
        /\ scans[t].end = "done" => n = Len(F)
  BY DEF ScanInv, TableOK
<1>3. PICK pos \in [1 .. n -> Nat] :
        /\ WholeTable(t, scans[t].symbols, F) /\ Laid(snapshots, t, F, n, pos)
        /\ scans[t].end = "done" => n = Len(F)
  BY <1>2
<1>4. /\ Len(F) = Len(scans[t].symbols) /\ Len(F) \in Nat
      /\ \A k \in 1 .. Len(F) : F[k].scan_time = t /\ F[k].symbol \in Range(scans[t].symbols)
      /\ \A k \in 1 .. Len(F) : F[k].rank # 0 => F[k].rank = k
      /\ \A a, b \in 1 .. Len(F) : a < b =>
           /\ F[a].symbol # F[b].symbol
           /\ F[b].rank # 0 => F[a].rank # 0 /\ F[a].score >= F[b].score
  BY <1>3 DEF WholeTable
<1>5. /\ n <= Len(F) /\ \A k \in 1 .. n : pos[k] \in DOMAIN snapshots /\ pos[k] \in Nat
      /\ \A a, b \in 1 .. n : a < b => pos[a] < pos[b]
      /\ \A k \in 1 .. n : snapshots[pos[k]] = F[k]
      /\ \A i \in DOMAIN snapshots : snapshots[i].scan_time = t => \E k \in 1 .. n : pos[k] = i
  BY <1>3 DEF Laid
<1>6. \A k \in 1 .. n : k \in 1 .. Len(F)
  BY <1>4, <1>5
<1>7. /\ \A k \in 1 .. n : pos[k] \in S
      /\ \A i \in S : \E k \in 1 .. n : pos[k] = i
  <2>1. \A i : i \in S <=> i \in DOMAIN snapshots /\ snapshots[i].scan_time = t
    BY <1>1 DEF RowsOf
  <2>2. \A k \in 1 .. n : snapshots[pos[k]].scan_time = t
    BY <1>4, <1>5, <1>6
  <2>3. QED
    BY <1>5, <2>1, <2>2
<1>8. \A a, b \in 1 .. n : pos[a] <= pos[b] <=> a <= b
  <2>1. SUFFICES ASSUME NEW a \in 1 .. n, NEW b \in 1 .. n
                 PROVE  pos[a] <= pos[b] <=> a <= b
    OBVIOUS
  <2>2. a < b \/ b < a \/ a = b
    OBVIOUS
  <2>3. a < b => pos[a] < pos[b]
    BY <1>5
  <2>4. b < a => pos[b] < pos[a]
    BY <1>5
  <2>5. pos[a] \in Nat /\ pos[b] \in Nat
    BY <1>5
  <2>6. QED
    BY <2>2, <2>3, <2>4, <2>5
<1>9. \A c \in 0 .. n : \A T : T = {pos[k] : k \in 1 .. c} => Cardinality(T) = c
  <2>1. SUFFICES ASSUME NEW c \in 0 .. n, NEW T, T = {pos[k] : k \in 1 .. c}
                 PROVE  Cardinality(T) = c
    OBVIOUS
  <2>2. PICK f : f = [k \in 1 .. c |-> pos[k]]
    OBVIOUS
  <2>3. f \in [1 .. c -> T] /\ \A i \in T : \E k \in 1 .. c : f[k] = i
    BY <2>1, <2>2
  <2>4. \A a, b \in 1 .. c : f[a] = f[b] => a = b
    <3>1. SUFFICES ASSUME NEW a \in 1 .. c, NEW b \in 1 .. c, f[a] = f[b]
                   PROVE  a = b
      OBVIOUS
    <3>2. a \in 1 .. n /\ b \in 1 .. n
      BY <2>1
    <3>3. pos[a] = pos[b] /\ pos[a] \in Nat
      BY <1>5, <2>2, <3>1, <3>2
    <3>4. a <= b /\ b <= a
      BY <1>8, <3>2, <3>3
    <3>5. QED
      BY <3>4
  <2>5. f \in Bijection(1 .. c, T)
    BY <2>3, <2>4 DEF Bijection, Injection, Surjection, IsInjective
  <2>6. ExistsBijection(1 .. c, T) /\ c \in Nat
    BY <2>5 DEF ExistsBijection
  <2>7. QED
    BY <2>6, FS_CountingElements
<1>10. ASSUME NEW k \in 1 .. n
       PROVE  Cardinality({i \in S : i <= pos[k]}) = k
  <2>1. PICK T : T = {pos[a] : a \in 1 .. k}
    OBVIOUS
  <2>2. \A i : i \in T <=> \E a \in 1 .. n : a <= k /\ i = pos[a]
    BY <2>1
  <2>3. \A i : i \in {j \in S : j <= pos[k]} <=> \E a \in 1 .. n : a <= k /\ i = pos[a]
    <3>1. \A i \in S : i <= pos[k] => \E a \in 1 .. n : a <= k /\ i = pos[a]
      <4>1. SUFFICES ASSUME NEW i \in S, i <= pos[k]
                     PROVE  \E a \in 1 .. n : a <= k /\ i = pos[a]
        OBVIOUS
      <4>2. PICK a \in 1 .. n : pos[a] = i
        BY <1>7
      <4>3. a <= k
        BY <1>8, <4>1, <4>2
      <4>4. QED
        BY <4>2, <4>3
    <3>2. \A a \in 1 .. n : a <= k => pos[a] \in S /\ pos[a] <= pos[k]
      BY <1>7, <1>8
    <3>3. QED
      BY <3>1, <3>2
  <2>4. T = {j \in S : j <= pos[k]}
    BY <2>2, <2>3
  <2>5. k \in 0 .. n
    OBVIOUS
  <2>6. QED
    BY <1>9, <2>1, <2>4, <2>5
<1>11. ASSUME NEW j \in S
       PROVE  /\ snapshots[j].symbol \in Range(scans[t].symbols)
              /\ snapshots[j].rank # 0 =>
                   snapshots[j].rank = Cardinality({i \in S : i <= j})
              /\ \A i \in S : i < j =>
                   /\ snapshots[i].symbol # snapshots[j].symbol
                   /\ snapshots[j].rank # 0 =>
                        snapshots[i].rank # 0 /\ snapshots[i].score >= snapshots[j].score
  <2>1. PICK b \in 1 .. n : pos[b] = j
    BY <1>7
  <2>2. snapshots[j] = F[b] /\ b \in 1 .. Len(F)
    BY <1>5, <1>6, <2>1
  <2>3. Cardinality({i \in S : i <= j}) = b
    BY <1>10, <2>1
  <2>4. ASSUME NEW i \in S, i < j
        PROVE  /\ snapshots[i].symbol # snapshots[j].symbol
               /\ snapshots[j].rank # 0 =>
                    snapshots[i].rank # 0 /\ snapshots[i].score >= snapshots[j].score
    <3>1. PICK a \in 1 .. n : pos[a] = i
      BY <1>7
    <3>2. a < b
      <4>1. ~(pos[b] <= pos[a])
        BY <1>5, <2>1, <2>4, <3>1
      <4>2. ~(b <= a)
        BY <1>8, <4>1
      <4>3. QED
        BY <4>2
    <3>3. snapshots[i] = F[a] /\ a \in 1 .. Len(F)
      BY <1>5, <1>6, <3>1
    <3>4. QED
      BY <1>4, <2>2, <3>2, <3>3
  <2>5. snapshots[j].symbol \in Range(scans[t].symbols)
    BY <1>4, <2>2
  <2>6. snapshots[j].rank # 0 => snapshots[j].rank = b
    BY <1>4, <2>2
  <2>7. QED
    BY <2>3, <2>4, <2>5, <2>6
<1>12. scans[t].end = "done" => Cardinality(S) = Len(scans[t].symbols)
  <2>1. PICK T : T = {pos[k] : k \in 1 .. n}
    OBVIOUS
  <2>2. T = S
    BY <1>7, <2>1
  <2>3. n \in 0 .. n
    OBVIOUS
  <2>4. Cardinality(S) = n
    BY <1>9, <2>1, <2>2, <2>3
  <2>5. QED
    BY <1>3, <1>4, <2>4
<1>13. QED
  BY <1>1, <1>11, <1>12 DEF ScanIsWhole

\* Rows, briefs and scans are added, time goes on, and no scan that is done changes.
Grown(rows, briefs, runs, moment, rows2, briefs2, runs2, moment2) ==
  /\ DOMAIN rows \in SUBSET (DOMAIN rows2)
  /\ \A i \in DOMAIN rows : rows2[i] = rows[i]
  /\ Len(briefs) \in Nat /\ Len(briefs2) \in Nat /\ Len(briefs2) >= Len(briefs)
  /\ \A a \in DOMAIN briefs2 : a <= Len(briefs) => a \in DOMAIN briefs /\ briefs2[a] = briefs[a]
  /\ DOMAIN briefs2 \in SUBSET Nat
  /\ DOMAIN runs \in SUBSET (DOMAIN runs2)
  /\ \A t \in DOMAIN runs : runs[t].end = "done" => runs2[t] = runs[t]
  /\ moment \in Nat /\ moment2 \in Nat /\ moment2 >= moment

\* A brief stays as it should be.
LEMMA SheetStays ==
  ASSUME NEW x, NEW rows, NEW briefs, NEW runs, NEW moment,
         NEW rows2, NEW briefs2, NEW runs2, NEW moment2,
         SheetOK(x, rows, briefs, runs, moment),
         Grown(rows, briefs, runs, moment, rows2, briefs2, runs2, moment2)
  PROVE  SheetOK(x, rows2, briefs2, runs2, moment2)
<1>0. /\ DOMAIN rows \in SUBSET (DOMAIN rows2)
      /\ \A i \in DOMAIN rows : rows2[i] = rows[i]
      /\ Len(briefs) \in Nat /\ Len(briefs2) \in Nat /\ Len(briefs2) >= Len(briefs)
      /\ \A a \in DOMAIN briefs2 :
           a <= Len(briefs) => a \in DOMAIN briefs /\ briefs2[a] = briefs[a]
      /\ DOMAIN briefs2 \in SUBSET Nat
      /\ DOMAIN runs \in SUBSET (DOMAIN runs2)
      /\ \A t \in DOMAIN runs : runs[t].end = "done" => runs2[t] = runs[t]
      /\ moment \in Nat /\ moment2 \in Nat /\ moment2 >= moment
  BY DEF Grown
<1>1. /\ x \in BriefRecord /\ x.generated_at \in 1 .. moment /\ x.before <= Len(briefs)
      /\ x.before \in Nat
  BY DEF SheetOK, BriefRecord
<1>2. x.generated_at \in 1 .. moment2 /\ x.before <= Len(briefs2)
  BY <1>0, <1>1
<1>3. x.snapshot # 0 =>
        /\ x.snapshot \in DOMAIN rows2
        /\ rows2[x.snapshot].symbol = x.symbol /\ rows2[x.snapshot].scan_time = x.newest
  BY <1>0 DEF SheetOK
<1>4. x.status = "SUCCESS" => x.snapshot # 0 /\ rows2[x.snapshot].recommendation = "BUY"
  BY <1>0 DEF SheetOK
<1>5. x.newest # 0 =>
        x.newest \in DOMAIN runs2 /\ \E i \in DOMAIN rows2 : rows2[i].scan_time = x.newest
  BY <1>0 DEF SheetOK
<1>6. \A a \in DOMAIN briefs2 : a <= x.before => briefs2[a].newest <= x.newest
  <2>1. SUFFICES ASSUME NEW a \in DOMAIN briefs2, a <= x.before
                 PROVE  briefs2[a].newest <= x.newest
    OBVIOUS
  <2>2. a <= Len(briefs)
    BY <1>0, <1>1, <2>1
  <2>3. a \in DOMAIN briefs /\ briefs2[a] = briefs[a]
    BY <1>0, <2>2
  <2>4. QED
    BY <2>1, <2>3 DEF SheetOK
<1>7. x.snapshot = 0 /\ x.whole /\ x.newest # 0 =>
        runs2[x.newest].end = "done" /\ x.symbol \notin Range(runs2[x.newest].symbols)
  BY <1>0 DEF SheetOK
<1>8. QED
  BY <1>1, <1>2, <1>3, <1>4, <1>5, <1>6, <1>7 DEF SheetOK

\* So does a table, while no row of its scan is written by its process.
LEMMA TableStays ==
  ASSUME NEW t, NEW symbols, NEW end, NEW rows, NEW states,
         TableOK(t, symbols, end, rows, states),
         NEW end2, end2 = "done" => end = "done",
         NEW states2, \A p \in Watchers : states2[p].pc = "write" /\ states2[p].at = t =>
                                            states2[p] = states[p]
  PROVE  TableOK(t, symbols, end2, rows, states2)
BY DEF TableOK

LEMMA ScanStarts ==
  ASSUME ScanInit
  PROVE  ScanInv
<1>1. /\ listed = InitialList /\ snapshots = << >> /\ sheets = << >>
      /\ watcher = [p \in Watchers |-> Away]
      /\ now = 0 /\ aged = {} /\ scans = << >>
  BY DEF ScanInit
<1>2. DOMAIN scans = {} /\ DOMAIN sheets = {} /\ DOMAIN snapshots = {}
  BY <1>1
<1>3. ScanTypes
  <2>1. snapshots \in Seq(SnapshotRow) /\ sheets \in Seq(BriefRecord)
    BY <1>1
  <2>2. listed \in Seq(Symbols) /\ IsInjective(listed)
    BY <1>1, ScanAssumption
  <2>3. now \in Nat /\ aged \in SUBSET (1 .. now) /\ DOMAIN scans \in SUBSET (1 .. now)
    BY <1>1, <1>2
  <2>4. DOMAIN watcher = Watchers
    BY <1>1
  <2>5. QED
    BY <1>2, <2>1, <2>2, <2>3, <2>4 DEF ScanTypes
<1>4. \A p \in Watchers : watcher[p] = Away /\ watcher[p].pc = "idle"
  BY <1>1 DEF Away
<1>5. /\ \A p \in Watchers : WatcherOK(watcher[p], scans)
      /\ OneScanEach(watcher)
  BY <1>4 DEF WatcherOK, OneScanEach, Scanning
<1>6. SheetsOK(watcher, snapshots, sheets, scans, now)
  BY <1>2, <1>4 DEF SheetsOK
<1>7. QED
  BY <1>2, <1>3, <1>5, <1>6 DEF ScanInv

LEMMA ScanInvImplies ==
  ASSUME ScanInv
  PROVE  ScanTypeOK /\ ScansSound /\ BriefsSound
<1>1. ScanTypes /\ SheetsOK(watcher, snapshots, sheets, scans, now)
  BY DEF ScanInv
<1>2. \A b \in DOMAIN sheets : /\ SheetOK(sheets[b], snapshots, sheets, scans, now)
                               /\ sheets[b] \in BriefRecord
  BY <1>1 DEF SheetsOK, SheetOK
<1>3. ScanTypeOK
  BY <1>1, <1>2 DEF ScanTypes, SheetOK, ScanTypeOK
<1>4. ScansSound
  BY EvidenceOnlyBreaksTies, TableIsWhole DEF ScansSound
<1>5. BriefsMoveOn
  <2>1. SUFFICES ASSUME NEW a \in DOMAIN sheets, NEW b \in DOMAIN sheets, ~Overlap(a, b),
                        sheets[a].snapshot # 0, sheets[b].snapshot # 0
                 PROVE  snapshots[sheets[a].snapshot].scan_time
                          <= snapshots[sheets[b].snapshot].scan_time
    BY DEF BriefsMoveOn
  <2>2. a <= sheets[b].before
    <3>1. ~(a > sheets[b].before)
      BY <2>1 DEF Overlap
    <3>a. PICK x \in BriefRecord : x = sheets[b]
      BY <1>2
    <3>b. x.before \in Nat
      BY DEF BriefRecord
    <3>c. a \in Nat
      BY <1>1 DEF ScanTypes
    <3>2. a \in Nat /\ sheets[b].before \in Nat
      BY <3>a, <3>b, <3>c
    <3>3. QED
      BY <3>1, <3>2
  <2>3. sheets[a].newest <= sheets[b].newest
    BY <1>2, <2>2 DEF SheetOK
  <2>4. /\ snapshots[sheets[a].snapshot].scan_time = sheets[a].newest
        /\ snapshots[sheets[b].snapshot].scan_time = sheets[b].newest
    BY <1>2, <2>1 DEF SheetOK
  <2>5. QED
    BY <2>3, <2>4
<1>6. PlansRestOnBuys
  <2>1. SUFFICES ASSUME NEW b \in DOMAIN sheets, sheets[b].status = "SUCCESS"
                 PROVE  LET row == snapshots[sheets[b].snapshot] IN
                          /\ row.symbol = sheets[b].symbol /\ row.recommendation = "BUY"
                          /\ row.scan_time = sheets[b].newest
    BY DEF PlansRestOnBuys
  <2>2. QED
    BY <1>2, <2>1 DEF SheetOK
<1>7. DenialsAreScans
  <2>1. SUFFICES ASSUME NEW b \in DOMAIN sheets, sheets[b].snapshot = 0, sheets[b].whole,
                        sheets[b].newest # 0
                 PROVE  sheets[b].symbol \notin Range(scans[sheets[b].newest].symbols)
    BY DEF DenialsAreScans
  <2>2. QED
    BY <1>2, <2>1 DEF SheetOK
<1>8. QED
  BY <1>3, <1>4, <1>5, <1>6, <1>7 DEF BriefsSound

-----------------------------------------------------------------------------
\* The list changes, or hours pass: the rest of the invariant is not about them.
LEMMA ListOrHoursPreserve ==
  ASSUME ScanInv, UNCHANGED <<snapshots, sheets, watcher, now, scans>>,
         listed' \in Seq(Symbols), IsInjective(listed'), aged' \in SUBSET (1 .. now)
  PROVE  ScanInv'
<1>1. ScanTypes'
  BY DEF ScanInv, ScanTypes
<1>2. /\ \A p \in Watchers : WatcherOK(watcher'[p], scans')
      /\ OneScanEach(watcher')
      /\ \A t \in DOMAIN scans' :
           TableOK(t, scans'[t].symbols, scans'[t].end, snapshots', watcher')
      /\ SheetsOK(watcher', snapshots', sheets', scans', now')
  BY DEF ScanInv
<1>3. QED
  BY <1>1, <1>2 DEF ScanInv

LEMMA AddSymbolPreserves ==
  ASSUME ScanInv, NEW s \in Symbols, AddSymbol(s)
  PROVE  ScanInv'
<1>1. /\ s \notin Range(listed) /\ listed' = Append(listed, s)
      /\ UNCHANGED <<snapshots, sheets, watcher, now, aged, scans>>
  BY DEF AddSymbol
<1>2. listed \in Seq(Symbols) /\ IsInjective(listed) /\ aged \in SUBSET (1 .. now)
  BY DEF ScanInv, ScanTypes
<1>3. PICK n \in Nat : n = Len(listed) /\ DOMAIN listed = 1 .. n
  BY <1>2
<1>4. /\ listed' \in Seq(Symbols) /\ Len(listed') = n + 1
      /\ \A i \in 1 .. n : listed'[i] = listed[i]
      /\ listed'[n + 1] = s
  BY <1>1, <1>2, <1>3, AppendProperties
<1>5. DOMAIN listed' = 1 .. n + 1
  BY <1>4
<1>6. IsInjective(listed')
  <2>1. SUFFICES ASSUME NEW i \in 1 .. n + 1, NEW j \in 1 .. n + 1, listed'[i] = listed'[j]
                 PROVE  i = j
    BY <1>5 DEF IsInjective
  <2>2. \A k \in 1 .. n : listed[k] # s
    BY <1>1, <1>3 DEF Range
  <2>3. CASE i \in 1 .. n /\ j \in 1 .. n
    BY <1>2, <1>3, <1>4, <2>1, <2>3 DEF IsInjective
  <2>4. CASE i = n + 1 \/ j = n + 1
    BY <1>4, <2>1, <2>2, <2>4
  <2>5. QED
    BY <2>3, <2>4
<1>7. QED
  BY <1>1, <1>2, <1>4, <1>6, ListOrHoursPreserve

LEMMA RemoveSymbolPreserves ==
  ASSUME ScanInv, NEW s \in Symbols, RemoveSymbol(s)
  PROVE  ScanInv'
<1>1. UNCHANGED <<snapshots, sheets, watcher, now, aged, scans>>
  BY DEF RemoveSymbol
<1>2. listed \in Seq(Symbols) /\ IsInjective(listed) /\ aged \in SUBSET (1 .. now)
  BY DEF ScanInv, ScanTypes
<1>3. PICK n \in Nat : n = Len(listed) /\ DOMAIN listed = 1 .. n
  BY <1>2
<1>4. PICK d \in 1 .. n :
        listed' = [j \in 1 .. Len(listed) - 1 |-> listed[IF j < d THEN j ELSE j + 1]]
  BY <1>3 DEF RemoveSymbol
<1>5. PICK m \in Nat : m = n - 1
  BY <1>4
<1>6. PICK from : from = [j \in 1 .. m |-> IF j < d THEN j ELSE j + 1]
  OBVIOUS
<1>7. from \in [1 .. m -> 1 .. n] /\ \A i, j \in 1 .. m : from[i] = from[j] => i = j
  <2>1. \A j \in 1 .. m : from[j] \in 1 .. n
    BY <1>5, <1>6
  <2>2. \A i, j \in 1 .. m : from[i] = from[j] => i = j
    BY <1>5, <1>6
  <2>3. QED
    BY <1>6, <2>1, <2>2
<1>8. listed' = [j \in 1 .. m |-> listed[from[j]]]
  BY <1>3, <1>4, <1>5, <1>6
<1>9. listed' \in Seq(Symbols)
  <2>1. \A i \in 1 .. n : listed[i] \in Symbols
    BY <1>2, <1>3
  <2>2. listed' \in [1 .. m -> Symbols]
    BY <1>7, <1>8, <2>1
  <2>3. QED
    BY <2>2
<1>10. IsInjective(listed')
  <2>1. \A i, j \in 1 .. n : listed[i] = listed[j] => i = j
    BY <1>2, <1>3 DEF IsInjective
  <2>2. \A i, j \in 1 .. m : listed'[i] = listed'[j] => i = j
    BY <1>7, <1>8, <2>1
  <2>3. DOMAIN listed' = 1 .. m
    BY <1>8
  <2>4. QED
    BY <2>2, <2>3 DEF IsInjective
<1>11. QED
  BY <1>1, <1>2, <1>9, <1>10, ListOrHoursPreserve

LEMMA HoursPassPreserves ==
  ASSUME ScanInv, HoursPass
  PROVE  ScanInv'
<1>1. aged' = 1 .. now /\ UNCHANGED <<listed, snapshots, sheets, watcher, now, scans>>
  BY DEF HoursPass
<1>2. listed' \in Seq(Symbols) /\ IsInjective(listed') /\ aged' \in SUBSET (1 .. now)
  BY <1>1 DEF ScanInv, ScanTypes
<1>3. QED
  BY <1>1, <1>2, ListOrHoursPreserve

-----------------------------------------------------------------------------
LEMMA Turned ==
  ASSUME ScanInv, NEW p \in Watchers, NEW state, Turns(p, state)
  PROVE  /\ DOMAIN watcher' = Watchers /\ watcher'[p] = state
         /\ \A q \in Watchers : q # p => watcher'[q] = watcher[q]
<1>1. DOMAIN watcher = Watchers
  BY DEF ScanInv, ScanTypes
<1>2. QED
  BY <1>1 DEF Turns

LEMMA WatcherCases ==
  ASSUME NEW state, NEW runs, WatcherOK(state, runs)
  PROVE  /\ state.pc \in {"idle", "analyse", "write", "insert"}
         /\ state.pc = "analyse" => /\ state = Analysing(state.at) /\ state.at \in DOMAIN runs
                                    /\ runs[state.at] = NewScan
         /\ state.pc = "write" => /\ state.at \in DOMAIN runs /\ runs[state.at].end = "running"
                                  /\ state.rows \in Seq(SnapshotRow) /\ state.rows # << >>
                                  /\ state = Writing(state.at, state.rows)
         /\ state.pc = "insert" => state.sheet \in BriefRecord /\ state = Inserting(state.sheet)
<1>1. CASE state = Away
  BY <1>1 DEF Away
<1>2. CASE \E t \in DOMAIN runs : state = Analysing(t) /\ runs[t] = NewScan
  BY <1>2 DEF Analysing
<1>3. CASE \E t \in DOMAIN runs, rows \in Seq(SnapshotRow) :
             state = Writing(t, rows) /\ rows # << >> /\ runs[t].end = "running"
  BY <1>3 DEF Writing
<1>4. CASE \E x \in BriefRecord : state = Inserting(x)
  BY <1>4 DEF Inserting
<1>5. QED
  BY <1>1, <1>2, <1>3, <1>4 DEF WatcherOK

LEMMA WatcherStays ==
  ASSUME NEW state, NEW runs, WatcherOK(state, runs),
         NEW runs2, DOMAIN runs \in SUBSET (DOMAIN runs2),
         Scanning(state) => runs2[state.at] = runs[state.at]
  PROVE  WatcherOK(state, runs2)
<1>1. CASE state = Away
  BY <1>1 DEF WatcherOK
<1>2. CASE \E t \in DOMAIN runs : state = Analysing(t) /\ runs[t] = NewScan
  <2>1. PICK t \in DOMAIN runs : state = Analysing(t) /\ runs[t] = NewScan
    BY <1>2
  <2>2. state.at = t /\ Scanning(state)
    BY <2>1 DEF Analysing, Scanning
  <2>3. t \in DOMAIN runs2 /\ runs2[t] = NewScan
    BY <2>1, <2>2
  <2>4. QED
    BY <2>1, <2>3 DEF WatcherOK
<1>3. CASE \E t \in DOMAIN runs, rows \in Seq(SnapshotRow) :
             state = Writing(t, rows) /\ rows # << >> /\ runs[t].end = "running"
  <2>1. PICK t \in DOMAIN runs, rows \in Seq(SnapshotRow) :
               state = Writing(t, rows) /\ rows # << >> /\ runs[t].end = "running"
    BY <1>3
  <2>2. state.at = t /\ Scanning(state)
    BY <2>1 DEF Writing, Scanning
  <2>3. t \in DOMAIN runs2 /\ runs2[t].end = "running"
    BY <2>1, <2>2
  <2>4. QED
    BY <2>1, <2>3 DEF WatcherOK
<1>4. CASE \E x \in BriefRecord : state = Inserting(x)
  BY <1>4 DEF WatcherOK
<1>5. QED
  BY <1>1, <1>2, <1>3, <1>4 DEF WatcherOK

\* The process that turns ends what it does, goes on with its scan, or begins one that
\* no process has.
LEMMA OneScanEachStays ==
  ASSUME ScanInv, NEW p \in Watchers, NEW state, Turns(p, state),
         Scanning(state) => \A q \in Watchers :
           q # p /\ Scanning(watcher[q]) => watcher[q].at # state.at
  PROVE  OneScanEach(watcher')
<1>1. /\ watcher'[p] = state
      /\ \A q \in Watchers : q # p => watcher'[q] = watcher[q]
  BY Turned
<1>2. OneScanEach(watcher)
  BY DEF ScanInv
<1>3. QED
  BY <1>1, <1>2 DEF OneScanEach

LEMMA SheetsStay ==
  ASSUME ScanInv, UNCHANGED sheets, now' \in Nat, now' >= now,
         \A q \in Watchers : watcher'[q].pc = "insert" => watcher'[q] = watcher[q],
         DOMAIN snapshots \in SUBSET (DOMAIN snapshots'),
         \A i \in DOMAIN snapshots : snapshots'[i] = snapshots[i],
         DOMAIN scans \in SUBSET (DOMAIN scans'),
         \A t \in DOMAIN scans : scans[t].end = "done" => scans'[t] = scans[t]
  PROVE  SheetsOK(watcher', snapshots', sheets', scans', now')
<1>1. now \in Nat /\ sheets \in Seq(BriefRecord)
  BY DEF ScanInv, ScanTypes
<1>2. /\ Len(sheets) \in Nat /\ DOMAIN sheets \in SUBSET Nat /\ sheets' = sheets
      /\ \A a \in DOMAIN sheets : a <= Len(sheets) => a \in DOMAIN sheets
  BY <1>1
<1>3. \A x : SheetOK(x, snapshots, sheets, scans, now)
               => SheetOK(x, snapshots', sheets', scans', now')
  <2>1. SUFFICES ASSUME NEW x, SheetOK(x, snapshots, sheets, scans, now)
                 PROVE  SheetOK(x, snapshots', sheets', scans', now')
    OBVIOUS
  <2>2. Len(sheets') >= Len(sheets) /\ Len(sheets') \in Nat /\ DOMAIN sheets' \in SUBSET Nat
    BY <1>2
  <2>3. \A a \in DOMAIN sheets' :
          a <= Len(sheets) => a \in DOMAIN sheets /\ sheets'[a] = sheets[a]
    BY <1>2
  <2>4. Grown(snapshots, sheets, scans, now, snapshots', sheets', scans', now')
    BY <1>1, <1>2, <2>2, <2>3 DEF Grown
  <2>5. QED
    BY <2>1, <2>4, SheetStays
<1>4. QED
  BY <1>2, <1>3 DEF ScanInv, SheetsOK

LEMMA BeginScanPreserves ==
  ASSUME ScanInv, NEW p \in Watchers, BeginScan(p)
  PROVE  ScanInv'
<1>1. /\ now' = now + 1 /\ Turns(p, Analysing(now + 1))
      /\ UNCHANGED <<listed, snapshots, sheets, aged>>
      /\ watcher[p].pc = "idle"
  BY DEF BeginScan, Busy, Analysing
<1>2. PICK t : t = now + 1
  OBVIOUS
<1>3. ScanTypes
  BY DEF ScanInv
<1>4. /\ t \in Nat /\ t \notin DOMAIN scans /\ t \in 1 .. now' /\ now' >= now /\ now' \in Nat
      /\ 1 .. now \in SUBSET (1 .. now')
  BY <1>1, <1>2, <1>3 DEF ScanTypes
<1>5. /\ DOMAIN scans' = DOMAIN scans \cup {t} /\ scans'[t] = NewScan
      /\ \A u \in DOMAIN scans : scans'[u] = scans[u]
  BY <1>2, <1>4 DEF BeginScan, NewScan
<1>6. /\ DOMAIN watcher' = Watchers /\ watcher'[p] = Analysing(t)
      /\ \A q \in Watchers : q # p => watcher'[q] = watcher[q]
  BY <1>1, <1>2, Turned
<1>7. ScanTypes'
  <2>1. NewScan \in ScanRecord /\ IsInjective(NewScan.symbols)
    BY DEF NewScan, ScanRecord, IsInjective
  <2>2. \A u \in DOMAIN scans' : scans'[u] \in ScanRecord /\ IsInjective(scans'[u].symbols)
    BY <1>3, <1>5, <2>1 DEF ScanTypes
  <2>3. DOMAIN scans' \in SUBSET (1 .. now')
    BY <1>3, <1>4, <1>5 DEF ScanTypes
  <2>4. \A i \in DOMAIN snapshots' : snapshots'[i].scan_time \in DOMAIN scans'
    BY <1>1, <1>3, <1>5 DEF ScanTypes
  <2>5. QED
    BY <1>1, <1>3, <1>4, <1>6, <2>2, <2>3, <2>4 DEF ScanTypes
<1>8. \A q \in Watchers : Scanning(watcher[q]) => watcher[q].at \in DOMAIN scans
  BY WatcherCases DEF ScanInv, Scanning
<1>9. \A q \in Watchers : WatcherOK(watcher'[q], scans')
  <2>1. SUFFICES ASSUME NEW q \in Watchers PROVE WatcherOK(watcher'[q], scans')
    OBVIOUS
  <2>2. CASE q = p
    BY <1>5, <1>6, <2>2 DEF WatcherOK
  <2>3. CASE q # p
    <3>1. WatcherOK(watcher[q], scans)
      BY DEF ScanInv
    <3>2. WatcherOK(watcher[q], scans')
      BY <1>5, <1>8, <3>1, WatcherStays
    <3>3. QED
      BY <1>6, <2>3, <3>2
  <2>4. QED
    BY <2>2, <2>3
<1>10. OneScanEach(watcher')
  <2>1. \A q \in Watchers : Scanning(watcher[q]) => watcher[q].at # t
    BY <1>4, <1>8
  <2>2. Analysing(t).at = t
    BY DEF Analysing
  <2>3. QED
    BY <1>1, <1>2, <2>1, <2>2, OneScanEachStays
<1>11. \A u \in DOMAIN scans' :
         TableOK(u, scans'[u].symbols, scans'[u].end, snapshots', watcher')
  <2>1. watcher'[p].pc # "write"
    BY <1>6 DEF Analysing
  <2>2. ASSUME NEW u \in DOMAIN scans
        PROVE  TableOK(u, scans'[u].symbols, scans'[u].end, snapshots', watcher')
    <3>1. TableOK(u, scans[u].symbols, scans[u].end, snapshots, watcher)
      BY DEF ScanInv
    <3>2. \A q \in Watchers : watcher'[q].pc = "write" /\ watcher'[q].at = u
                                => watcher'[q] = watcher[q]
      BY <1>6, <2>1
    <3>3. TableOK(u, scans[u].symbols, scans[u].end, snapshots, watcher')
      BY <3>1, <3>2, TableStays
    <3>4. QED
      BY <1>1, <1>5, <3>3
  <2>3. TableOK(t, << >>, "running", snapshots, watcher')
    <3>1. \A i \in DOMAIN snapshots : snapshots[i].scan_time # t
      BY <1>3, <1>4 DEF ScanTypes
    <3>2. \A q \in Watchers : ~(watcher'[q].pc = "write" /\ watcher'[q].at = t)
      BY <1>4, <1>6, <1>8, <2>1 DEF Scanning
    <3>3. WholeTable(t, << >>, << >>)
      BY <1>4, EmptyTable
    <3>4. Laid(snapshots, t, << >>, 0, << >>)
      BY <3>1 DEF Laid
    <3>5. << >> \in Seq(SnapshotRow) /\ << >> \in [1 .. 0 -> Nat] /\ 0 \in Nat
      OBVIOUS
    <3>6. QED
      BY <3>2, <3>3, <3>4, <3>5 DEF TableOK
  <2>4. QED
    BY <1>1, <1>5, <2>2, <2>3 DEF NewScan
<1>12. SheetsOK(watcher', snapshots', sheets', scans', now')
  <2>1. \A q \in Watchers : watcher'[q].pc = "insert" => watcher'[q] = watcher[q]
    BY <1>6 DEF Analysing
  <2>2. QED
    BY <1>1, <1>4, <1>5, <2>1, SheetsStay
<1>13. QED
  BY <1>7, <1>9, <1>10, <1>11, <1>12 DEF ScanInv

LEMMA TableGrows ==
  ASSUME NEW t \in Nat, NEW symbols, NEW end, NEW rows \in Seq(SnapshotRow), NEW states,
         TableOK(t, symbols, end, rows, states),
         NEW row \in SnapshotRow, row.scan_time # t
  PROVE  TableOK(t, symbols, end, Append(rows, row), states)
<1>1. PICK F \in Seq(SnapshotRow), n \in Nat : \E pos \in [1 .. n -> Nat] :
        /\ WholeTable(t, symbols, F) /\ Laid(rows, t, F, n, pos)
        /\ end = "done" => n = Len(F)
        /\ \A p \in Watchers :
             states[p].pc = "write" /\ states[p].at = t => Left(states[p].rows, F, n)
  BY DEF TableOK
<1>2. PICK pos \in [1 .. n -> Nat] :
        /\ WholeTable(t, symbols, F) /\ Laid(rows, t, F, n, pos)
        /\ end = "done" => n = Len(F)
        /\ \A p \in Watchers :
             states[p].pc = "write" /\ states[p].at = t => Left(states[p].rows, F, n)
  BY <1>1
<1>3. Laid(Append(rows, row), t, F, n, pos)
  BY <1>2, LaidStill
<1>4. QED
  BY <1>2, <1>3 DEF TableOK

\* A step of the process that has a scan changes that scan only.
OwnScanStep(p, t, state) ==
  /\ p \in Watchers /\ Scanning(watcher[p]) /\ t = watcher[p].at
  /\ Turns(p, state) /\ (Scanning(state) => state.at = t) /\ state.pc # "insert"
  /\ DOMAIN scans' = DOMAIN scans
  /\ \A u \in DOMAIN scans : u # t => scans'[u] = scans[u]

LEMMA OwnScanOnly ==
  ASSUME ScanInv, NEW p, NEW t, NEW state, OwnScanStep(p, t, state)
  PROVE  /\ t \in DOMAIN scans /\ t \in Nat /\ scans[t].end = "running"
         /\ DOMAIN watcher' = Watchers /\ watcher'[p] = state
         /\ \A q \in Watchers : q # p => watcher'[q] = watcher[q]
         /\ \A q \in Watchers : q # p => WatcherOK(watcher'[q], scans')
         /\ \A q \in Watchers : q # p /\ Scanning(watcher'[q]) => watcher'[q].at # t
         /\ \A q \in Watchers : watcher'[q].pc = "insert" => watcher'[q] = watcher[q]
         /\ OneScanEach(watcher')
         /\ \A u \in DOMAIN scans : scans[u].end = "done" => scans'[u] = scans[u]
         /\ \A u \in DOMAIN scans : u # t =>
              TableOK(u, scans'[u].symbols, scans'[u].end, snapshots, watcher')
<1>1. /\ p \in Watchers /\ Scanning(watcher[p]) /\ t = watcher[p].at
      /\ Turns(p, state) /\ (Scanning(state) => state.at = t) /\ state.pc # "insert"
      /\ DOMAIN scans' = DOMAIN scans
      /\ \A u \in DOMAIN scans : u # t => scans'[u] = scans[u]
  BY DEF OwnScanStep
<1>2. \A q \in Watchers : WatcherOK(watcher[q], scans)
  BY DEF ScanInv
<1>3. t \in DOMAIN scans /\ scans[t].end = "running"
  BY <1>1, <1>2, WatcherCases DEF Scanning, NewScan
<1>4. t \in Nat
  BY <1>3 DEF ScanInv, ScanTypes
<1>5. /\ DOMAIN watcher' = Watchers /\ watcher'[p] = state
      /\ \A q \in Watchers : q # p => watcher'[q] = watcher[q]
  BY <1>1, Turned
<1>6. \A q \in Watchers : q # p /\ Scanning(watcher[q]) => watcher[q].at # t
  BY <1>1 DEF ScanInv, OneScanEach
<1>7. \A q \in Watchers : q # p => WatcherOK(watcher'[q], scans')
  <2>1. SUFFICES ASSUME NEW q \in Watchers, q # p PROVE WatcherOK(watcher'[q], scans')
    OBVIOUS
  <2>2. Scanning(watcher[q]) => watcher[q].at \in DOMAIN scans /\ watcher[q].at # t
    BY <1>2, <1>6, <2>1, WatcherCases DEF Scanning
  <2>3. WatcherOK(watcher[q], scans')
    BY <1>1, <1>2, <2>2, WatcherStays
  <2>4. QED
    BY <1>5, <2>1, <2>3
<1>8. OneScanEach(watcher')
  BY <1>1, <1>6, OneScanEachStays
<1>9. \A u \in DOMAIN scans : scans[u].end = "done" => scans'[u] = scans[u]
  BY <1>1, <1>3
<1>10. ASSUME NEW u \in DOMAIN scans, u # t
       PROVE  TableOK(u, scans'[u].symbols, scans'[u].end, snapshots, watcher')
  <2>1. TableOK(u, scans[u].symbols, scans[u].end, snapshots, watcher)
    BY DEF ScanInv
  <2>2. \A q \in Watchers : watcher'[q].pc = "write" /\ watcher'[q].at = u
                              => watcher'[q] = watcher[q]
    BY <1>1, <1>5, <1>10 DEF Scanning
  <2>3. TableOK(u, scans[u].symbols, scans[u].end, snapshots, watcher')
    BY <2>1, <2>2, TableStays
  <2>4. QED
    BY <1>1, <1>10, <2>3
<1>11. \A q \in Watchers : watcher'[q].pc = "insert" => watcher'[q] = watcher[q]
  BY <1>1, <1>5
<1>12. \A q \in Watchers : q # p /\ Scanning(watcher'[q]) => watcher'[q].at # t
  BY <1>5, <1>6
<1>13. QED
  BY <1>3, <1>4, <1>5, <1>7, <1>8, <1>9, <1>10, <1>11, <1>12

\* What LeaveOrWrite makes of the process and its scan.
NextState(t, rows) == IF rows = << >> THEN Away ELSE Writing(t, rows)

NextScan(symbols, rows) ==
  [symbols |-> symbols, end |-> IF rows = << >> THEN "done" ELSE "running"]

\* The scan of t is under way, for these symbols.
UnderWay(records, t, symbols) ==
  /\ t \in DOMAIN scans /\ DOMAIN records = DOMAIN scans
  /\ \A u \in DOMAIN scans : u # t => records[u] = scans[u]
  /\ records[t] = [symbols |-> symbols, end |-> "running"]

LEMMA LeftOrWritten ==
  ASSUME ScanInv, NEW p \in Watchers, Scanning(watcher[p]), NEW t, t = watcher[p].at,
         NEW symbols, NEW rows, NEW records, UnderWay(records, t, symbols),
         LeaveOrWrite(p, rows, records)
  PROVE  OwnScanStep(p, t, NextState(t, rows)) /\ scans'[t] = NextScan(symbols, rows)
<1>0. /\ t \in DOMAIN scans /\ DOMAIN records = DOMAIN scans
      /\ \A u \in DOMAIN scans : u # t => records[u] = scans[u]
      /\ records[t] = [symbols |-> symbols, end |-> "running"]
  BY DEF UnderWay
<1>1. CASE rows = << >>
  <2>1. Turns(p, Away) /\ scans' = [records EXCEPT ![t].end = "done"]
    BY <1>1 DEF LeaveOrWrite
  <2>2. /\ DOMAIN scans' = DOMAIN scans
        /\ \A u \in DOMAIN scans : u # t => scans'[u] = scans[u]
        /\ scans'[t] = [symbols |-> symbols, end |-> "done"]
    BY <1>0, <2>1
  <2>3. QED
    BY <1>0, <1>1, <2>1, <2>2 DEF OwnScanStep, NextState, NextScan, Away, Scanning
<1>2. CASE rows # << >>
  <2>1. Turns(p, Writing(t, rows)) /\ scans' = records
    BY <1>2 DEF LeaveOrWrite, Writing
  <2>2. /\ Scanning(Writing(t, rows)) /\ Writing(t, rows).at = t
        /\ Writing(t, rows).pc # "insert"
    BY DEF Scanning, Writing
  <2>3. QED
    BY <1>0, <1>2, <2>1, <2>2 DEF OwnScanStep, NextState, NextScan
<1>3. QED
  BY <1>1, <1>2

\* What is left to show of such a step.
LEMMA ScanStepPreserves ==
  ASSUME ScanInv, NEW p \in Watchers, NEW t, NEW symbols, NEW rows \in Seq(SnapshotRow),
         OwnScanStep(p, t, NextState(t, rows)), scans'[t] = NextScan(symbols, rows),
         symbols \in Seq(Symbols), IsInjective(symbols),
         UNCHANGED <<listed, sheets, now, aged>>,
         snapshots' \in Seq(SnapshotRow), DOMAIN snapshots \in SUBSET (DOMAIN snapshots'),
         \A i \in DOMAIN snapshots : snapshots'[i] = snapshots[i],
         \A i \in DOMAIN snapshots' : snapshots'[i].scan_time \in DOMAIN scans,
         TableOK(t, symbols, scans'[t].end, snapshots', watcher'),
         \A u \in DOMAIN scans : u # t =>
           TableOK(u, scans'[u].symbols, scans'[u].end, snapshots', watcher')
  PROVE  ScanInv'
<1>1. ScanTypes
  BY DEF ScanInv
<1>2. DOMAIN scans' = DOMAIN scans /\ \A u \in DOMAIN scans : u # t => scans'[u] = scans[u]
  BY DEF OwnScanStep
<1>3. /\ t \in DOMAIN scans /\ DOMAIN watcher' = Watchers
      /\ watcher'[p] = NextState(t, rows)
      /\ \A q \in Watchers : q # p => WatcherOK(watcher'[q], scans')
      /\ \A q \in Watchers : watcher'[q].pc = "insert" => watcher'[q] = watcher[q]
      /\ OneScanEach(watcher')
      /\ \A u \in DOMAIN scans : scans[u].end = "done" => scans'[u] = scans[u]
  BY OwnScanOnly
<1>4. scans'[t] \in ScanRecord /\ scans'[t].symbols = symbols
  BY DEF NextScan, ScanRecord
<1>5. ScanTypes'
  <2>1. \A u \in DOMAIN scans' : scans'[u] \in ScanRecord /\ IsInjective(scans'[u].symbols)
    BY <1>1, <1>2, <1>4 DEF ScanTypes
  <2>2. QED
    BY <1>1, <1>2, <1>3, <2>1 DEF ScanTypes
<1>6. WatcherOK(watcher'[p], scans')
  <2>1. CASE rows = << >>
    BY <1>3, <2>1 DEF WatcherOK, NextState
  <2>2. CASE rows # << >>
    <3>1. watcher'[p] = Writing(t, rows) /\ scans'[t].end = "running" /\ t \in DOMAIN scans'
      BY <1>2, <1>3, <2>2 DEF NextState, NextScan
    <3>2. QED
      BY <2>2, <3>1 DEF WatcherOK
  <2>3. QED
    BY <2>1, <2>2
<1>7. \A q \in Watchers : WatcherOK(watcher'[q], scans')
  BY <1>3, <1>6
<1>8. \A u \in DOMAIN scans' :
        TableOK(u, scans'[u].symbols, scans'[u].end, snapshots', watcher')
  BY <1>2, <1>4
<1>9. SheetsOK(watcher', snapshots', sheets', scans', now')
  <2>1. now' \in Nat /\ now' >= now
    BY <1>1 DEF ScanTypes
  <2>2. DOMAIN scans \in SUBSET (DOMAIN scans')
    BY <1>2
  <2>3. QED
    BY <1>3, <2>1, <2>2, SheetsStay
<1>10. QED
  BY <1>3, <1>5, <1>7, <1>8, <1>9 DEF ScanInv

LEMMA ScanWatchlistPreserves ==
  ASSUME ScanInv, NEW p \in Watchers, ScanWatchlist(p)
  PROVE  ScanInv'
<1>1. PICK results \in [Range(listed) -> Entries] :
        LeaveOrWrite(p, ScanRows(watcher[p].at, listed, results),
                     [scans EXCEPT ![watcher[p].at].symbols = listed])
  BY DEF ScanWatchlist
<1>2. /\ UNCHANGED <<listed, snapshots, sheets, now, aged>>
      /\ watcher[p].pc = "analyse" /\ Scanning(watcher[p])
  BY DEF ScanWatchlist, Busy, Scanning
<1>3. PICK t, F : t = watcher[p].at /\ F = ScanRows(t, listed, results)
  OBVIOUS
<1>4. ScanTypes /\ WatcherOK(watcher[p], scans)
  BY DEF ScanInv
<1>5. t \in DOMAIN scans /\ scans[t] = NewScan
  BY <1>2, <1>3, <1>4, WatcherCases
<1>6. t \in Nat /\ listed \in Seq(Symbols) /\ IsInjective(listed)
  BY <1>4, <1>5 DEF ScanTypes
<1>7. PICK records : records = [scans EXCEPT ![t].symbols = listed]
  OBVIOUS
<1>8. UnderWay(records, t, listed)
  BY <1>5, <1>7 DEF NewScan, UnderWay
<1>9. LeaveOrWrite(p, F, records)
  BY <1>1, <1>3, <1>7
<1>10. OwnScanStep(p, t, NextState(t, F)) /\ scans'[t] = NextScan(listed, F)
  <2>1. PICK symbols : symbols = listed
    OBVIOUS
  <2>2. UnderWay(records, t, symbols) /\ Scanning(watcher[p]) /\ t = watcher[p].at
    BY <1>2, <1>3, <1>8, <2>1
  <2>3. OwnScanStep(p, t, NextState(t, F)) /\ scans'[t] = NextScan(symbols, F)
    BY <1>9, <2>2, LeftOrWritten
  <2>4. QED
    BY <2>1, <2>3
<1>11. WholeTable(t, listed, F) /\ F \in Seq(SnapshotRow)
  <2>1. WholeTable(t, listed, ScanRows(t, listed, results))
    BY <1>6, ScanRowsAreWhole
  <2>2. WholeTable(t, listed, F)
    BY <1>3, <2>1
  <2>3. QED
    BY <2>2 DEF WholeTable
<1>12. \A i \in DOMAIN snapshots : snapshots[i].scan_time # t
  <2>1. TableOK(t, << >>, "running", snapshots, watcher)
    BY <1>5 DEF ScanInv, NewScan
  <2>2. PICK G \in Seq(SnapshotRow), n \in Nat : \E pos \in [1 .. n -> Nat] :
          WholeTable(t, << >>, G) /\ Laid(snapshots, t, G, n, pos)
    BY <2>1 DEF TableOK
  <2>3. PICK pos \in [1 .. n -> Nat] : WholeTable(t, << >>, G) /\ Laid(snapshots, t, G, n, pos)
    BY <2>2
  <2>4. Len(G) = 0
    BY <2>3 DEF WholeTable
  <2>5. n = 0
    BY <2>3, <2>4 DEF Laid
  <2>6. QED
    BY <2>3, <2>5 DEF Laid
<1>13. /\ watcher'[p] = NextState(t, F)
       /\ \A q \in Watchers : q # p /\ Scanning(watcher'[q]) => watcher'[q].at # t
       /\ \A u \in DOMAIN scans : u # t =>
            TableOK(u, scans'[u].symbols, scans'[u].end, snapshots, watcher')
  BY <1>10, OwnScanOnly
<1>14. TableOK(t, listed, scans'[t].end, snapshots, watcher')
  <2>1. 0 \in Nat /\ << >> \in [1 .. 0 -> Nat]
    OBVIOUS
  <2>2. Laid(snapshots, t, F, 0, << >>)
    BY <1>11, <1>12 DEF Laid
  <2>3. scans'[t].end = "done" => 0 = Len(F)
    BY <1>10 DEF NextScan
  <2>4. ASSUME NEW q \in Watchers, watcher'[q].pc = "write" /\ watcher'[q].at = t
        PROVE  Left(watcher'[q].rows, F, 0)
    <3>1. q = p
      BY <1>13, <2>4 DEF Scanning
    <3>2. watcher'[p].rows = F
      BY <1>13, <2>4, <3>1 DEF NextState, Away, Writing
    <3>3. Left(F, F, 0)
      BY <1>11 DEF Left
    <3>4. QED
      BY <3>1, <3>2, <3>3
  <2>5. QED
    BY <1>11, <2>1, <2>2, <2>3, <2>4 DEF TableOK
<1>15. \A i \in DOMAIN snapshots : snapshots[i].scan_time \in DOMAIN scans
  BY <1>4 DEF ScanTypes
<1>16. snapshots \in Seq(SnapshotRow)
  BY <1>4 DEF ScanTypes
<1>17. QED
  BY <1>2, <1>6, <1>10, <1>11, <1>13, <1>14, <1>15, <1>16, ScanStepPreserves

LEMMA WriteSnapshotPreserves ==
  ASSUME ScanInv, NEW p \in Watchers, WriteSnapshot(p)
  PROVE  ScanInv'
<1>1. /\ watcher[p].pc = "write" /\ Scanning(watcher[p])
      /\ snapshots' = Append(snapshots, Head(watcher[p].rows))
      /\ LeaveOrWrite(p, Tail(watcher[p].rows), scans)
      /\ UNCHANGED <<listed, sheets, now, aged>>
  BY DEF WriteSnapshot, Busy, Scanning
<1>2. ScanTypes /\ WatcherOK(watcher[p], scans)
  BY DEF ScanInv
<1>3. PICK t, rows, symbols :
        t = watcher[p].at /\ rows = watcher[p].rows /\ symbols = scans[t].symbols
  OBVIOUS
<1>4. /\ t \in DOMAIN scans /\ scans[t].end = "running"
      /\ rows \in Seq(SnapshotRow) /\ rows # << >>
  BY <1>1, <1>2, <1>3, WatcherCases
<1>5. /\ t \in Nat /\ symbols \in Seq(Symbols) /\ IsInjective(symbols)
      /\ scans[t] = [symbols |-> symbols, end |-> "running"]
      /\ snapshots \in Seq(SnapshotRow)
  BY <1>2, <1>3, <1>4 DEF ScanTypes, ScanRecord
<1>6. PICK row, rest : row = Head(rows) /\ rest = Tail(rows)
  OBVIOUS
<1>7. /\ row \in SnapshotRow /\ rest \in Seq(SnapshotRow) /\ Len(rest) = Len(rows) - 1
      /\ \A k \in 1 .. Len(rest) : rest[k] = rows[k + 1]
  BY <1>4, <1>6, HeadTailProperties
<1>8. row = rows[1] /\ Len(rows) \in Nat /\ Len(rows) >= 1
  BY <1>4, <1>6
<1>9. OwnScanStep(p, t, NextState(t, rest)) /\ scans'[t] = NextScan(symbols, rest)
  <2>1. PICK records : records = scans
    OBVIOUS
  <2>2. LeaveOrWrite(p, rest, records)
    BY <1>1, <1>3, <1>6, <2>1
  <2>3. UnderWay(records, t, symbols)
    BY <1>4, <1>5, <2>1 DEF UnderWay
  <2>4. QED
    BY <1>1, <1>3, <2>2, <2>3, LeftOrWritten
<1>10. /\ watcher'[p] = NextState(t, rest)
       /\ \A q \in Watchers : q # p /\ Scanning(watcher'[q]) => watcher'[q].at # t
       /\ \A u \in DOMAIN scans : u # t =>
            TableOK(u, scans'[u].symbols, scans'[u].end, snapshots, watcher')
  BY <1>9, OwnScanOnly
<1>11. PICK F \in Seq(SnapshotRow), n \in Nat : \E pos \in [1 .. n -> Nat] :
         /\ WholeTable(t, symbols, F) /\ Laid(snapshots, t, F, n, pos)
         /\ Left(rows, F, n)
  <2>1. TableOK(t, symbols, scans[t].end, snapshots, watcher)
    BY <1>3, <1>4 DEF ScanInv
  <2>2. QED
    BY <1>1, <1>3, <2>1 DEF TableOK
<1>12. PICK pos \in [1 .. n -> Nat] :
         /\ WholeTable(t, symbols, F) /\ Laid(snapshots, t, F, n, pos)
         /\ Left(rows, F, n)
  BY <1>11
<1>13. /\ Len(F) \in Nat /\ Len(rows) = Len(F) - n
       /\ \A k \in 1 .. Len(rows) : rows[k] = F[n + k]
  BY <1>12 DEF Left
<1>14. n < Len(F) /\ n + 1 \in 1 .. Len(F) /\ row = F[n + 1]
  <2>1. 1 \in 1 .. Len(rows)
    BY <1>8
  <2>2. rows[1] = F[n + 1]
    BY <1>13, <2>1
  <2>3. QED
    BY <1>8, <1>13, <2>2
<1>15. row.scan_time = t
  BY <1>12, <1>14 DEF WholeTable
<1>16. snapshots' = Append(snapshots, row)
  BY <1>1, <1>3, <1>6
<1>17. PICK new \in [1 .. n + 1 -> Nat] : Laid(snapshots', t, F, n + 1, new)
  <2>1. \E new \in [1 .. n + 1 -> Nat] : Laid(Append(snapshots, row), t, F, n + 1, new)
    BY <1>5, <1>7, <1>12, <1>14, LaidMore
  <2>2. QED
    BY <1>16, <2>1
<1>18. Left(rest, F, n + 1)
  <2>1. Len(rest) = Len(F) - (n + 1)
    BY <1>7, <1>13
  <2>2. \A k \in 1 .. Len(rest) : rest[k] = F[(n + 1) + k]
    <3>1. SUFFICES ASSUME NEW k \in 1 .. Len(rest) PROVE rest[k] = F[(n + 1) + k]
      OBVIOUS
    <3>2. k + 1 \in 1 .. Len(rows) /\ n + (k + 1) = (n + 1) + k
      BY <1>7, <1>8
    <3>3. QED
      BY <1>7, <1>13, <3>2
  <2>3. QED
    BY <2>1, <2>2 DEF Left
<1>19. TableOK(t, symbols, scans'[t].end, snapshots', watcher')
  <2>1. n + 1 \in Nat
    OBVIOUS
  <2>2. scans'[t].end = "done" => n + 1 = Len(F)
    <3>1. scans'[t].end = "done" => rest = << >>
      BY <1>9 DEF NextScan
    <3>2. rest = << >> => Len(rest) = 0
      OBVIOUS
    <3>3. Len(rest) = Len(F) - (n + 1)
      BY <1>18 DEF Left
    <3>4. QED
      BY <1>13, <3>1, <3>2, <3>3
  <2>3. ASSUME NEW q \in Watchers, watcher'[q].pc = "write" /\ watcher'[q].at = t
        PROVE  Left(watcher'[q].rows, F, n + 1)
    <3>1. q = p
      BY <1>10, <2>3 DEF Scanning
    <3>2. watcher'[p].rows = rest
      BY <1>10, <2>3, <3>1 DEF NextState, Away, Writing
    <3>3. QED
      BY <1>18, <3>1, <3>2
  <2>4. QED
    BY <1>12, <1>17, <2>1, <2>2, <2>3 DEF TableOK
<1>20. ASSUME NEW u \in DOMAIN scans, u # t
       PROVE  TableOK(u, scans'[u].symbols, scans'[u].end, snapshots', watcher')
  <2>1. TableOK(u, scans'[u].symbols, scans'[u].end, snapshots, watcher')
    BY <1>10, <1>20
  <2>2. u \in Nat
    BY <1>2 DEF ScanTypes
  <2>3. TableOK(u, scans'[u].symbols, scans'[u].end, Append(snapshots, row), watcher')
    BY <1>5, <1>7, <1>15, <1>20, <2>1, <2>2, TableGrows
  <2>4. QED
    BY <1>16, <2>3
<1>21. PICK len \in Nat : len = Len(snapshots) /\ DOMAIN snapshots = 1 .. len
  BY <1>5
<1>22. /\ snapshots' \in Seq(SnapshotRow) /\ Len(snapshots') = len + 1
       /\ \A i \in 1 .. len : snapshots'[i] = snapshots[i]
       /\ snapshots'[len + 1] = row
  BY <1>5, <1>7, <1>16, <1>21, AppendProperties
<1>23. DOMAIN snapshots' = 1 .. len + 1
  BY <1>22
<1>24. /\ DOMAIN snapshots \in SUBSET (DOMAIN snapshots')
       /\ \A i \in DOMAIN snapshots : snapshots'[i] = snapshots[i]
  BY <1>21, <1>22, <1>23
<1>25. \A i \in DOMAIN snapshots' : snapshots'[i].scan_time \in DOMAIN scans
  <2>1. SUFFICES ASSUME NEW i \in 1 .. len + 1
                 PROVE  snapshots'[i].scan_time \in DOMAIN scans
    BY <1>23
  <2>2. CASE i \in 1 .. len
    BY <1>2, <1>21, <1>22, <2>2 DEF ScanTypes
  <2>3. CASE i = len + 1
    BY <1>4, <1>15, <1>22, <2>3
  <2>4. QED
    BY <2>2, <2>3
<1>26. QED
  BY <1>1, <1>5, <1>7, <1>9, <1>19, <1>20, <1>22, <1>24, <1>25, ScanStepPreserves

\* A process is done with a brief, or begins with one, or dies: what the tables are
\* made of stays.
LEMMA TurnKeepsTables ==
  ASSUME ScanInv, NEW p \in Watchers, NEW state, Turns(p, state), ~Scanning(state),
         DOMAIN scans' = DOMAIN scans,
         \A t \in DOMAIN scans : /\ scans'[t].symbols = scans[t].symbols
                                 /\ scans'[t].end = "done" => scans[t].end = "done"
                                 /\ scans'[t] = scans[t]
                                      \/ (Scanning(watcher[p]) /\ watcher[p].at = t),
         UNCHANGED snapshots, WatcherOK(state, scans')
  PROVE  /\ \A q \in Watchers : WatcherOK(watcher'[q], scans')
         /\ OneScanEach(watcher')
         /\ \A t \in DOMAIN scans' :
              TableOK(t, scans'[t].symbols, scans'[t].end, snapshots', watcher')
<1>1. /\ watcher'[p] = state
      /\ \A q \in Watchers : q # p => watcher'[q] = watcher[q]
  BY Turned
<1>2. OneScanEach(watcher')
  BY OneScanEachStays
<1>3. \A q \in Watchers : WatcherOK(watcher'[q], scans')
  <2>1. SUFFICES ASSUME NEW q \in Watchers, q # p PROVE WatcherOK(watcher'[q], scans')
    BY <1>1
  <2>2. WatcherOK(watcher[q], scans)
    BY DEF ScanInv
  <2>3. Scanning(watcher[q]) => watcher[q].at \in DOMAIN scans
    BY <2>2, WatcherCases DEF Scanning
  <2>4. Scanning(watcher[q]) /\ Scanning(watcher[p]) => watcher[q].at # watcher[p].at
    BY <2>1 DEF ScanInv, OneScanEach
  <2>5. Scanning(watcher[q]) => scans'[watcher[q].at] = scans[watcher[q].at]
    BY <2>3, <2>4
  <2>6. WatcherOK(watcher[q], scans')
    BY <2>2, <2>5, WatcherStays
  <2>7. QED
    BY <1>1, <2>1, <2>6
<1>4. ASSUME NEW t \in DOMAIN scans
      PROVE  TableOK(t, scans'[t].symbols, scans'[t].end, snapshots', watcher')
  <2>1. TableOK(t, scans[t].symbols, scans[t].end, snapshots, watcher)
    BY DEF ScanInv
  <2>2. \A q \in Watchers : watcher'[q].pc = "write" /\ watcher'[q].at = t
                              => watcher'[q] = watcher[q]
    BY <1>1 DEF Scanning
  <2>3. scans'[t].end = "done" => scans[t].end = "done"
    OBVIOUS
  <2>4. TableOK(t, scans[t].symbols, scans'[t].end, snapshots, watcher')
    BY <2>1, <2>2, <2>3, TableStays
  <2>5. QED
    BY <2>4
<1>5. QED
  BY <1>2, <1>3, <1>4

LEMMA WatcherDiesPreserves ==
  ASSUME ScanInv, NEW p \in Watchers, WatcherDies(p)
  PROVE  ScanInv'
<1>1. /\ Turns(p, Away) /\ UNCHANGED <<listed, snapshots, sheets, now, aged>>
      /\ scans' = IF Scanning(watcher[p])
                  THEN [scans EXCEPT ![watcher[p].at].end = "died"] ELSE scans
  BY DEF WatcherDies, Scanning
<1>2. ScanTypes /\ WatcherOK(watcher[p], scans)
  BY DEF ScanInv
<1>3. Scanning(watcher[p]) => /\ watcher[p].at \in DOMAIN scans
                              /\ scans[watcher[p].at].end = "running"
  BY <1>2, WatcherCases DEF Scanning, NewScan
<1>4. /\ DOMAIN scans' = DOMAIN scans
      /\ \A t \in DOMAIN scans :
           /\ scans'[t].symbols = scans[t].symbols /\ scans'[t] \in ScanRecord
           /\ scans'[t].end = "done" => scans[t].end = "done"
           /\ scans[t].end = "done" => scans'[t] = scans[t]
           /\ scans'[t] = scans[t] \/ (Scanning(watcher[p]) /\ watcher[p].at = t)
  <2>1. \A t \in DOMAIN scans : scans[t] \in ScanRecord
    BY <1>2 DEF ScanTypes
  <2>2. CASE ~Scanning(watcher[p])
    BY <1>1, <2>1, <2>2
  <2>3. CASE Scanning(watcher[p])
    <3>1. PICK at : at = watcher[p].at
      OBVIOUS
    <3>2. /\ scans' = [scans EXCEPT ![at].end = "died"] /\ at \in DOMAIN scans
          /\ scans[at].end = "running"
      BY <1>1, <1>3, <2>3, <3>1
    <3>3. /\ DOMAIN scans' = DOMAIN scans
          /\ scans'[at] = [scans[at] EXCEPT !.end = "died"]
          /\ \A t \in DOMAIN scans : t # at => scans'[t] = scans[t]
      BY <3>2
    <3>4. /\ scans'[at].symbols = scans[at].symbols /\ scans'[at].end = "died"
          /\ scans'[at] \in ScanRecord
      <4>1. PICK x \in ScanRecord : x = scans[at]
        BY <2>1, <3>2
      <4>2. PICK y : y = [x EXCEPT !.end = "died"]
        OBVIOUS
      <4>3. y \in ScanRecord /\ y.symbols = x.symbols /\ y.end = "died"
        BY <4>2 DEF ScanRecord
      <4>4. scans'[at] = y
        BY <3>3, <4>1, <4>2
      <4>5. QED
        BY <4>1, <4>3, <4>4
    <3>5. QED
      BY <2>1, <2>3, <3>1, <3>2, <3>3, <3>4
  <2>4. QED
    BY <2>2, <2>3
<1>5. WatcherOK(Away, scans') /\ ~Scanning(Away)
  BY DEF WatcherOK, Scanning, Away
<1>6. /\ DOMAIN watcher' = Watchers /\ watcher'[p] = Away
      /\ \A q \in Watchers : q # p => watcher'[q] = watcher[q]
  BY <1>1, Turned
<1>7. ScanTypes'
  <2>1. \A t \in DOMAIN scans' : scans'[t] \in ScanRecord /\ IsInjective(scans'[t].symbols)
    BY <1>2, <1>4 DEF ScanTypes
  <2>2. QED
    BY <1>1, <1>2, <1>4, <1>6, <2>1 DEF ScanTypes
<1>8. /\ \A q \in Watchers : WatcherOK(watcher'[q], scans')
      /\ OneScanEach(watcher')
      /\ \A t \in DOMAIN scans' :
           TableOK(t, scans'[t].symbols, scans'[t].end, snapshots', watcher')
  BY <1>1, <1>4, <1>5, TurnKeepsTables
<1>9. SheetsOK(watcher', snapshots', sheets', scans', now')
  <2>1. \A q \in Watchers : watcher'[q].pc = "insert" => watcher'[q] = watcher[q]
    BY <1>6 DEF Away
  <2>2. now' \in Nat /\ now' >= now
    BY <1>1, <1>2 DEF ScanTypes
  <2>3. QED
    BY <1>1, <1>4, <2>1, <2>2, SheetsStay
<1>10. QED
  BY <1>7, <1>8, <1>9 DEF ScanInv

\* A brief that is asked for stands on the rows that are there.
LEMMA AskedSheet ==
  ASSUME ScanInv, NEW s \in Symbols, NEW priced,
         NEW outcome \in BriefStatuses(LatestSnapshot(s), priced), NEW x,
         x = [symbol |-> s, generated_at |-> now + 1, status |-> outcome,
              snapshot |-> LatestSnapshot(s), before |-> Len(sheets),
              newest |-> IF snapshots = << >> THEN 0 ELSE MaxScanTime,
              whole |-> LatestSnapshot(s) # 0 \/ \A t \in DOMAIN scans : scans[t].end = "done"]
  PROVE  SheetOK(x, snapshots, sheets, scans, now + 1)
<1>1. ScanTypes
  BY DEF ScanInv
<1>2. /\ now \in Nat /\ DOMAIN scans \in SUBSET (1 .. now) /\ snapshots \in Seq(SnapshotRow)
      /\ \A i \in DOMAIN snapshots : snapshots[i].scan_time \in DOMAIN scans
      /\ sheets \in Seq(BriefRecord) /\ Len(sheets) \in Nat
  BY <1>1 DEF ScanTypes
<1>3. PICK i, newest, whole :
        /\ i = LatestSnapshot(s)
        /\ newest = IF snapshots = << >> THEN 0 ELSE MaxScanTime
        /\ whole = (LatestSnapshot(s) # 0 \/ \A t \in DOMAIN scans : scans[t].end = "done")
  OBVIOUS
<1>4. x = [symbol |-> s, generated_at |-> now + 1, status |-> outcome, snapshot |-> i,
           before |-> Len(sheets), newest |-> newest, whole |-> whole]
  BY <1>3
<1>5. /\ i = 0 \/ (i \in DOMAIN snapshots /\ snapshots[i].symbol = s
                      /\ snapshots[i].scan_time = MaxScanTime)
      /\ i = 0 => \A j \in DOMAIN snapshots :
                    ~(snapshots[j].scan_time = MaxScanTime /\ snapshots[j].symbol = s)
  <2>1. 0 \notin DOMAIN snapshots
    BY <1>2
  <2>2. CASE \E j \in DOMAIN snapshots :
               snapshots[j].scan_time = MaxScanTime /\ snapshots[j].symbol = s
    <3>1. i \in DOMAIN snapshots /\ snapshots[i].symbol = s
            /\ snapshots[i].scan_time = MaxScanTime
      BY <1>3, <2>2 DEF LatestSnapshot
    <3>2. QED
      BY <2>1, <3>1
  <2>3. CASE ~\E j \in DOMAIN snapshots :
                snapshots[j].scan_time = MaxScanTime /\ snapshots[j].symbol = s
    <3>1. i = 0
      BY <1>3, <2>3 DEF LatestSnapshot
    <3>2. QED
      BY <2>3, <3>1
  <2>4. QED
    BY <2>2, <2>3
<1>6. /\ newest \in Nat
      /\ newest # 0 => newest \in DOMAIN scans /\ \E j \in DOMAIN snapshots :
                                                    snapshots[j].scan_time = newest
      /\ \A j \in DOMAIN snapshots : newest >= snapshots[j].scan_time
      /\ snapshots # << >> => newest = MaxScanTime
  <2>1. CASE snapshots = << >>
    BY <1>3, <2>1
  <2>2. CASE snapshots # << >>
    <3>1. \A j \in DOMAIN snapshots : snapshots[j].scan_time \in 1 .. now
      BY <1>2
    <3>2. /\ MaxScanTime \in 1 .. now
          /\ \E j \in DOMAIN snapshots : snapshots[j].scan_time = MaxScanTime
          /\ \A j \in DOMAIN snapshots : MaxScanTime >= snapshots[j].scan_time
      BY <1>2, <2>2, <3>1, NewestScan
    <3>3. newest = MaxScanTime
      BY <1>3, <2>2
    <3>4. QED
      BY <1>2, <3>2, <3>3
  <2>3. QED
    BY <2>1, <2>2
<1>7. i # 0 => i \in DOMAIN snapshots /\ snapshots[i].symbol = s
                 /\ snapshots[i].scan_time = newest
  <2>1. i # 0 => snapshots # << >>
    BY <1>5
  <2>2. QED
    BY <1>5, <1>6, <2>1
<1>8. outcome = "SUCCESS" => i # 0 /\ snapshots[i].recommendation = "BUY"
  <2>1. outcome \in BriefStatuses(i, priced)
    BY <1>3
  <2>2. outcome = "SUCCESS" => Gate(i) = "open"
    BY <2>1 DEF BriefStatuses, Gate
  <2>3. Gate(i) = "open" => i # 0 /\ snapshots[i].recommendation = "BUY"
    BY DEF Gate
  <2>4. QED
    BY <2>2, <2>3
<1>9. \A a \in DOMAIN sheets : sheets[a].newest <= newest
  <2>1. SUFFICES ASSUME NEW a \in DOMAIN sheets PROVE sheets[a].newest <= newest
    OBVIOUS
  <2>2. PICK y : y = sheets[a]
    OBVIOUS
  <2>3. SheetOK(y, snapshots, sheets, scans, now)
    BY <2>2 DEF ScanInv, SheetsOK
  <2>4. y \in BriefRecord /\ (y.newest # 0 => \E j \in DOMAIN snapshots :
                                                snapshots[j].scan_time = y.newest)
    BY <2>3 DEF SheetOK
  <2>5. y.newest \in Nat
    BY <2>4 DEF BriefRecord
  <2>6. CASE y.newest = 0
    BY <1>6, <2>2, <2>6
  <2>7. CASE y.newest # 0
    <3>1. PICK j \in DOMAIN snapshots : snapshots[j].scan_time = y.newest
      BY <2>4, <2>7
    <3>2. newest >= y.newest
      BY <1>6, <3>1
    <3>3. QED
      BY <1>6, <2>2, <2>5, <3>2
  <2>8. QED
    BY <2>6, <2>7
<1>10. i = 0 /\ whole /\ newest # 0 =>
         scans[newest].end = "done" /\ s \notin Range(scans[newest].symbols)
  <2>1. SUFFICES ASSUME i = 0, whole, newest # 0
                 PROVE  scans[newest].end = "done" /\ s \notin Range(scans[newest].symbols)
    OBVIOUS
  <2>2. newest \in DOMAIN scans /\ scans[newest].end = "done"
    BY <1>3, <1>6, <2>1
  <2>3. snapshots # << >> /\ newest = MaxScanTime
    BY <1>3, <1>6, <2>1
  <2>4. PICK F \in Seq(SnapshotRow), n \in Nat : \E pos \in [1 .. n -> Nat] :
          /\ WholeTable(newest, scans[newest].symbols, F)
          /\ Laid(snapshots, newest, F, n, pos) /\ n = Len(F)
    BY <2>2 DEF ScanInv, TableOK
  <2>5. PICK pos \in [1 .. n -> Nat] :
          /\ WholeTable(newest, scans[newest].symbols, F)
          /\ Laid(snapshots, newest, F, n, pos) /\ n = Len(F)
    BY <2>4
  <2>6. ASSUME s \in Range(scans[newest].symbols)
        PROVE  FALSE
    <3>1. PICK k \in 1 .. n : F[k].symbol = s /\ F[k].scan_time = newest
      BY <2>5, <2>6 DEF WholeTable
    <3>2. pos[k] \in DOMAIN snapshots /\ snapshots[pos[k]] = F[k]
      BY <2>5 DEF Laid
    <3>3. QED
      BY <1>5, <2>1, <2>3, <3>1, <3>2
  <2>7. QED
    BY <2>2, <2>6
<1>11. x \in BriefRecord
  <2>1. outcome \in BriefStatus
    <3>1. PICK gate : gate = Gate(LatestSnapshot(s))
      OBVIOUS
    <3>2. gate \in {"INSUFFICIENT_DATA", "DATA_ERROR", "DATA_STALE", "NO_TRADE", "open"}
      BY <3>1 DEF Gate
    <3>3. \/ outcome = gate /\ gate # "open"
          \/ outcome \in {"SUCCESS", "RISK_REJECTED", "POLICY_BLOCKED"}
      BY <3>1 DEF BriefStatuses
    <3>4. QED
      BY <3>2, <3>3 DEF BriefStatus
  <2>2. whole \in BOOLEAN
    BY <1>3
  <2>3. i \in Nat
    BY <1>2, <1>5
  <2>4. now + 1 \in Nat
    BY <1>2
  <2>5. QED
    BY <1>2, <1>4, <1>6, <2>1, <2>2, <2>3, <2>4 DEF BriefRecord
<1>12. /\ x.symbol = s /\ x.generated_at = now + 1 /\ x.status = outcome /\ x.snapshot = i
       /\ x.before = Len(sheets) /\ x.newest = newest /\ x.whole = whole
  BY <1>4
<1>13. /\ x.generated_at \in 1 .. now + 1 /\ x.before <= Len(sheets)
       /\ \A a \in DOMAIN sheets : a <= x.before => sheets[a].newest <= x.newest
  BY <1>2, <1>9, <1>12
<1>14. /\ x.snapshot # 0 =>
            /\ x.snapshot \in DOMAIN snapshots
            /\ snapshots[x.snapshot].symbol = x.symbol
            /\ snapshots[x.snapshot].scan_time = x.newest
       /\ x.status = "SUCCESS" =>
            x.snapshot # 0 /\ snapshots[x.snapshot].recommendation = "BUY"
  BY <1>7, <1>8, <1>12
<1>15. /\ x.newest # 0 =>
            /\ x.newest \in DOMAIN scans
            /\ \E j \in DOMAIN snapshots : snapshots[j].scan_time = x.newest
       /\ x.snapshot = 0 /\ x.whole /\ x.newest # 0 =>
            scans[x.newest].end = "done" /\ x.symbol \notin Range(scans[x.newest].symbols)
  BY <1>6, <1>10, <1>12
<1>16. QED
  BY <1>11, <1>13, <1>14, <1>15 DEF SheetOK

LEMMA AskBriefPreserves ==
  ASSUME ScanInv, NEW p \in Watchers, NEW s \in Symbols, NEW priced \in BOOLEAN,
         AskBrief(p, s, priced)
  PROVE  ScanInv'
<1>1. /\ watcher[p].pc = "idle" /\ now' = now + 1
      /\ UNCHANGED <<listed, snapshots, sheets, aged, scans>>
  BY DEF AskBrief, Busy
<1>2. PICK outcome \in BriefStatuses(LatestSnapshot(s), priced) :
        Turns(p, [pc |-> "insert",
                  sheet |-> [symbol |-> s, generated_at |-> now + 1,
                             status |-> outcome, snapshot |-> LatestSnapshot(s),
                             before |-> Len(sheets),
                             newest |-> IF snapshots = << >> THEN 0 ELSE MaxScanTime,
                             whole |-> LatestSnapshot(s) # 0 \/ \A t \in DOMAIN scans :
                                         scans[t].end = "done"]])
  BY DEF AskBrief
<1>3. PICK x :
        x = [symbol |-> s, generated_at |-> now + 1, status |-> outcome,
             snapshot |-> LatestSnapshot(s), before |-> Len(sheets),
             newest |-> IF snapshots = << >> THEN 0 ELSE MaxScanTime,
             whole |-> LatestSnapshot(s) # 0 \/ \A t \in DOMAIN scans : scans[t].end = "done"]
  OBVIOUS
<1>4. Turns(p, Inserting(x))
  BY <1>2, <1>3 DEF Inserting
<1>5. SheetOK(x, snapshots, sheets, scans, now + 1) /\ x \in BriefRecord
  BY <1>3, AskedSheet DEF SheetOK
<1>6. ScanTypes
  BY DEF ScanInv
<1>7. /\ now' \in Nat /\ now' >= now /\ now \in Nat /\ aged' \in SUBSET (1 .. now')
      /\ DOMAIN scans' \in SUBSET (1 .. now')
  BY <1>1, <1>6 DEF ScanTypes
<1>8. /\ DOMAIN watcher' = Watchers /\ watcher'[p] = Inserting(x)
      /\ \A q \in Watchers : q # p => watcher'[q] = watcher[q]
  BY <1>4, Turned
<1>9. ScanTypes'
  BY <1>1, <1>6, <1>7, <1>8 DEF ScanTypes
<1>10. /\ \A q \in Watchers : WatcherOK(watcher'[q], scans')
       /\ OneScanEach(watcher')
       /\ \A t \in DOMAIN scans' :
            TableOK(t, scans'[t].symbols, scans'[t].end, snapshots', watcher')
  <2>1. ~Scanning(Inserting(x)) /\ WatcherOK(Inserting(x), scans')
    BY <1>5 DEF Scanning, Inserting, WatcherOK
  <2>2. QED
    BY <1>1, <1>4, <2>1, TurnKeepsTables
<1>11. /\ Len(sheets) \in Nat /\ DOMAIN sheets \in SUBSET Nat
       /\ \A a \in DOMAIN sheets : a <= Len(sheets) => a \in DOMAIN sheets
       /\ Len(sheets) >= Len(sheets)
  BY <1>6 DEF ScanTypes
<1>12. \A y : SheetOK(y, snapshots, sheets, scans, now)
                => SheetOK(y, snapshots', sheets', scans', now')
  <2>1. SUFFICES ASSUME NEW y, SheetOK(y, snapshots, sheets, scans, now)
                 PROVE  SheetOK(y, snapshots, sheets, scans, now')
    BY <1>1
  <2>2. Grown(snapshots, sheets, scans, now, snapshots, sheets, scans, now')
    BY <1>7, <1>11 DEF Grown
  <2>3. QED
    BY <2>1, <2>2, SheetStays
<1>13. SheetsOK(watcher', snapshots', sheets', scans', now')
  <2>1. \A b \in DOMAIN sheets' : SheetOK(sheets'[b], snapshots', sheets', scans', now')
    BY <1>1, <1>12 DEF ScanInv, SheetsOK
  <2>2. ASSUME NEW q \in Watchers, watcher'[q].pc = "insert"
        PROVE  SheetOK(watcher'[q].sheet, snapshots', sheets', scans', now')
    <3>1. CASE q = p
      <4>1. watcher'[q].sheet = x
        BY <1>8, <3>1 DEF Inserting
      <4>2. QED
        BY <1>1, <1>5, <4>1
    <3>2. CASE q # p
      BY <1>8, <1>12, <2>2, <3>2 DEF ScanInv, SheetsOK
    <3>3. QED
      BY <3>1, <3>2
  <2>3. QED
    BY <2>1, <2>2 DEF SheetsOK
<1>14. QED
  BY <1>9, <1>10, <1>13 DEF ScanInv

LEMMA InsertBriefPreserves ==
  ASSUME ScanInv, NEW p \in Watchers, InsertBrief(p)
  PROVE  ScanInv'
<1>1. /\ watcher[p].pc = "insert" /\ sheets' = Append(sheets, watcher[p].sheet)
      /\ Turns(p, Away) /\ UNCHANGED <<listed, snapshots, now, aged, scans>>
  BY DEF InsertBrief, Busy
<1>2. PICK x : x = watcher[p].sheet
  OBVIOUS
<1>3. SheetOK(x, snapshots, sheets, scans, now) /\ x \in BriefRecord
  BY <1>1, <1>2 DEF ScanInv, SheetsOK, SheetOK
<1>4. ScanTypes
  BY DEF ScanInv
<1>5. PICK len \in Nat : len = Len(sheets) /\ DOMAIN sheets = 1 .. len
  BY <1>4 DEF ScanTypes
<1>6. /\ sheets \in Seq(BriefRecord) /\ sheets' \in Seq(BriefRecord)
      /\ Len(sheets') = len + 1
      /\ \A b \in 1 .. len : sheets'[b] = sheets[b]
      /\ sheets'[len + 1] = x
  BY <1>1, <1>2, <1>3, <1>4, <1>5, AppendProperties DEF ScanTypes
<1>7. DOMAIN sheets' = 1 .. len + 1
  BY <1>6
<1>8. /\ DOMAIN watcher' = Watchers /\ watcher'[p] = Away
      /\ \A q \in Watchers : q # p => watcher'[q] = watcher[q]
  BY <1>1, Turned
<1>9. ScanTypes'
  BY <1>1, <1>4, <1>6, <1>8 DEF ScanTypes
<1>10. /\ \A q \in Watchers : WatcherOK(watcher'[q], scans')
       /\ OneScanEach(watcher')
       /\ \A t \in DOMAIN scans' :
            TableOK(t, scans'[t].symbols, scans'[t].end, snapshots', watcher')
  <2>1. ~Scanning(Away) /\ WatcherOK(Away, scans')
    BY DEF Scanning, Away, WatcherOK
  <2>2. QED
    BY <1>1, <2>1, TurnKeepsTables
<1>11. \A y : SheetOK(y, snapshots, sheets, scans, now)
                => SheetOK(y, snapshots', sheets', scans', now')
  <2>1. SUFFICES ASSUME NEW y, SheetOK(y, snapshots, sheets, scans, now)
                 PROVE  SheetOK(y, snapshots, sheets', scans, now)
    BY <1>1
  <2>2. now \in Nat /\ now >= now
    BY <1>4 DEF ScanTypes
  <2>3. /\ Len(sheets) \in Nat /\ Len(sheets') \in Nat /\ Len(sheets') >= Len(sheets)
        /\ DOMAIN sheets' \in SUBSET Nat
    BY <1>5, <1>6, <1>7
  <2>4. \A a \in DOMAIN sheets' :
          a <= Len(sheets) => a \in DOMAIN sheets /\ sheets'[a] = sheets[a]
    <3>1. SUFFICES ASSUME NEW a \in 1 .. len + 1, a <= len
                   PROVE  a \in DOMAIN sheets /\ sheets'[a] = sheets[a]
      BY <1>5, <1>7
    <3>2. a \in 1 .. len
      BY <3>1
    <3>3. QED
      BY <1>5, <1>6, <3>2
  <2>5. Grown(snapshots, sheets, scans, now, snapshots, sheets', scans, now)
    BY <2>2, <2>3, <2>4 DEF Grown
  <2>6. QED
    BY <2>1, <2>5, SheetStays
<1>12. SheetsOK(watcher', snapshots', sheets', scans', now')
  <2>1. ASSUME NEW b \in DOMAIN sheets'
        PROVE  SheetOK(sheets'[b], snapshots', sheets', scans', now')
    <3>1. CASE b \in 1 .. len
      <4>1. SheetOK(sheets[b], snapshots, sheets, scans, now) /\ sheets'[b] = sheets[b]
        BY <1>5, <1>6, <3>1 DEF ScanInv, SheetsOK
      <4>2. QED
        BY <1>11, <4>1
    <3>2. CASE b = len + 1
      BY <1>3, <1>6, <1>11, <3>2
    <3>3. b \in 1 .. len \/ b = len + 1
      BY <1>7, <2>1
    <3>4. QED
      BY <3>1, <3>2, <3>3
  <2>2. ASSUME NEW q \in Watchers, watcher'[q].pc = "insert"
        PROVE  SheetOK(watcher'[q].sheet, snapshots', sheets', scans', now')
    <3>1. q # p
      BY <1>8, <2>2 DEF Away
    <3>2. QED
      BY <1>8, <1>11, <2>2, <3>1 DEF ScanInv, SheetsOK
  <2>3. QED
    BY <2>1, <2>2 DEF SheetsOK
<1>13. QED
  BY <1>9, <1>10, <1>12 DEF ScanInv

LEMMA ScanStep ==
  ASSUME ScanInv, [ScanNext]_scanVars
  PROVE  ScanInv'
<1>1. CASE UNCHANGED scanVars
  <2>1. UNCHANGED <<listed, snapshots, sheets, watcher, now, aged, scans>>
    BY <1>1 DEF scanVars
  <2>2. listed \in Seq(Symbols) /\ IsInjective(listed) /\ aged \in SUBSET (1 .. now)
    BY DEF ScanInv, ScanTypes
  <2>3. QED
    BY <2>1, <2>2, ListOrHoursPreserve
<1>2. CASE ScanNext
  BY <1>2, HoursPassPreserves, AddSymbolPreserves, RemoveSymbolPreserves, BeginScanPreserves,
     ScanWatchlistPreserves, WriteSnapshotPreserves, AskBriefPreserves, InsertBriefPreserves,
     WatcherDiesPreserves DEF ScanNext
<1>3. QED
  BY <1>1, <1>2

\* What is true of each table, brief and process stays true.
LEMMA ScanInvariance == ScanSpec => []ScanInv
<1>1. ScanInit => ScanInv
  BY ScanStarts
<1>2. ScanInv /\ [ScanNext]_scanVars => ScanInv'
  BY ScanStep
<1>3. QED
  BY <1>1, <1>2, PTL DEF ScanSpec

\* However many scans run at a time, and wherever they die: each one that ended has a
\* row for each symbol it was to scan, the best one first, and one that did not has
\* the first of them (manual_scan_service.py:206-234).
THEOREM ScansStaySound == ScanSpec => []ScansSound
<1>1. ScanInv => ScansSound
  BY ScanInvImplies
<1>2. QED
  BY <1>1, ScanInvariance, PTL

\* Of two briefs of a symbol the later one rests on no older scan unless the requests
\* overlapped, a plan rests on a BUY of the newest scan, and a brief denies that there
\* is a row only if there can be none, however requests and scans interleave
\* (decision_brief_service.py:238).
THEOREM BriefsFollowScans == ScanSpec => []BriefsSound
<1>1. ScanInv => BriefsSound
  BY ScanInvImplies
<1>2. QED
  BY <1>1, ScanInvariance, PTL

-----------------------------------------------------------------------------
(***************************************************************************)
(* Approvals: BriefApproval                                                *)
(***************************************************************************)
CallRecord ==
  [pc : Labels, brief : Briefs, order : {0} \cup DOMAIN status]

\* The calls that have an order, and the status it has.
Holds(p) ==
  call[p].pc \in {"NEW", "VALIDATED", "PENDING", "traded", "FILLED", "link"}

StatusAt(label) ==
  IF label = "traded" THEN "PENDING"
  ELSE IF label = "link" THEN "FILLED" ELSE label

\* Every call has its own order, of its own brief.
CallsKnowOrders ==
  \A p \in Approvers : Holds(p) =>
    /\ call[p].order \in DOMAIN status
    /\ origin[call[p].order] = call[p].brief
    /\ status[call[p].order] = StatusAt(call[p].pc)
    /\ \A q \in Approvers : Holds(q) /\ call[q].order = call[p].order => q = p

TradesAreHeld ==
  \A p \in Approvers :
    /\ call[p].pc \in {"traded", "FILLED", "link"} => call[p].order \in traded
    /\ call[p].pc = "link" => <<call[p].brief, call[p].order>> \in completed

\* A completed request is of a filled order, and the only one of its brief.
CompletedIsFilled ==
  /\ \A c \in completed : /\ c[2] \in traded /\ status[c[2]] = "FILLED"
                          /\ origin[c[2]] = c[1]
  /\ \A c, d \in completed : c[1] = d[1] => c = d
  /\ links \subseteq completed

OrdersInv == TypeOK /\ CallsKnowOrders /\ TradesAreHeld /\ CompletedIsFilled

LEMMA BriefIdle == Idle \in CallRecord /\ Idle.pc = "idle"
  BY BriefAssumption DEF Idle, CallRecord, Labels

LEMMA BriefInit == Init => OrdersInv
<1> SUFFICES ASSUME Init PROVE OrdersInv
  OBVIOUS
<1>1. /\ status = << >> /\ traded = {} /\ completed = {} /\ links = {}
      /\ origin = << >> /\ raced = {} /\ call = [p \in Approvers |-> Idle]
  BY DEF Init, Engine!Init
<1>2. TypeOK
  BY <1>1, BriefIdle DEF TypeOK, CallRecord
<1>3. QED
  BY <1>1, <1>2, BriefIdle
  DEF OrdersInv, CallsKnowOrders, TradesAreHeld, CompletedIsFilled, Holds

\* A call goes on or ends while the tables stay as they are.
LEMMA BriefCallStep ==
  ASSUME OrdersInv, NEW p \in Approvers, NEW s,
         call' = [call EXCEPT ![p] = s], s \in CallRecord,
         s.pc \in {"idle", "check", "gates", "insert"},
         UNCHANGED <<lifecycle, origin>>, raced' \subseteq Briefs,
         links' \subseteq completed
  PROVE  OrdersInv'
<1>1. TypeOK'
  <2>1. call \in [Approvers -> CallRecord] /\ completed \subseteq Briefs \X DOMAIN status
    BY DEF OrdersInv, TypeOK, CallRecord
  <2>2. call' \in [Approvers -> CallRecord] /\ links' \subseteq Briefs \X DOMAIN status
    BY <2>1
  <2>3. QED
    BY <2>2 DEF OrdersInv, TypeOK, lifecycle, CallRecord
<1>2. \A q \in Approvers : q # p => call'[q] = call[q]
  BY DEF OrdersInv, TypeOK
<1>3. call'[p] = s
  BY DEF OrdersInv, TypeOK
<1>4. UNCHANGED <<status, traded, completed, origin>>
  BY DEF lifecycle
<1>5. CallsKnowOrders'
  BY <1>2, <1>3, <1>4 DEF OrdersInv, CallsKnowOrders, Holds
<1>6. TradesAreHeld'
  BY <1>2, <1>3, <1>4 DEF OrdersInv, TradesAreHeld
<1>7. CompletedIsFilled'
  BY <1>4 DEF OrdersInv, CompletedIsFilled
<1>8. QED
  BY <1>1, <1>5, <1>6, <1>7 DEF OrdersInv

\* The call goes on with its order, which has moved on with it.
LEMMA BriefInsertStep ==
  ASSUME OrdersInv, NEW p \in Approvers, InsertOrder(p)
  PROVE  OrdersInv'
<1> DEFINE s == [call[p] EXCEPT !.pc = "NEW", !.order = Len(status) + 1]
<1>1. /\ status \in Seq({"NEW", "VALIDATED", "PENDING", "FILLED"})
      /\ origin \in [DOMAIN status -> Briefs]
      /\ call \in [Approvers -> CallRecord]
      /\ traded \subseteq DOMAIN status
      /\ completed \subseteq Briefs \X DOMAIN status
      /\ links \subseteq Briefs \X DOMAIN status /\ raced \subseteq Briefs
  BY DEF OrdersInv, TypeOK, CallRecord
<1>2. /\ status' = Append(status, "NEW") /\ UNCHANGED <<traded, completed, links, raced>>
      /\ origin' = Append(origin, call[p].brief)
      /\ call' = [call EXCEPT ![p] = s]
  BY <1>1 DEF InsertOrder, Engine!Insert
<1>3. /\ status' \in Seq({"NEW", "VALIDATED", "PENDING", "FILLED"})
      /\ DOMAIN status' = DOMAIN status \cup {Len(status) + 1}
      /\ Len(status) + 1 \notin DOMAIN status
      /\ \A o \in DOMAIN status : status'[o] = status[o]
      /\ status'[Len(status) + 1] = "NEW"
  BY <1>1, <1>2
<1>4. origin \in Seq(Briefs) /\ Len(origin) = Len(status)
  BY <1>1
<1>5. /\ origin' \in [DOMAIN status' -> Briefs]
      /\ \A o \in DOMAIN status : origin'[o] = origin[o]
      /\ origin'[Len(status) + 1] = call[p].brief
  <2>1. call[p].brief \in Briefs
    BY <1>1 DEF CallRecord
  <2>2. origin' \in Seq(Briefs) /\ Len(origin') = Len(status) + 1
    BY <1>2, <1>4, <2>1
  <2>3. DOMAIN origin' = DOMAIN status'
    BY <1>1, <1>3, <2>2
  <2>4. origin' \in [DOMAIN status' -> Briefs]
    BY <2>2, <2>3
  <2>5. DOMAIN status = 1 .. Len(origin)
    BY <1>1, <1>4
  <2>6. QED
    BY <1>2, <1>4, <2>1, <2>4, <2>5
<1>6. /\ s.pc = "NEW" /\ s.brief = call[p].brief /\ s.order = Len(status) + 1
      /\ s \in [pc : Labels, brief : Briefs, order : {0} \cup DOMAIN status']
  <2>1. call[p] \in CallRecord
    BY <1>1
  <2>2. QED
    BY <2>1, <1>3 DEF CallRecord, Labels
<1>7. /\ \A q \in Approvers : q # p => call'[q] = call[q]
      /\ call'[p] = s
  BY <1>1, <1>2
<1> HIDE DEF s
<1>8. TypeOK'
  <2>1. CallRecord \subseteq CallRecord'
    BY <1>3 DEF CallRecord
  <2>2. call' \in [Approvers -> CallRecord']
    BY <1>1, <1>2, <1>6, <2>1 DEF CallRecord
  <2>3. QED
    BY <1>1, <1>2, <1>3, <1>5, <2>2 DEF TypeOK, CallRecord
<1>9. CallsKnowOrders'
  <2> SUFFICES ASSUME NEW q \in Approvers, Holds(q)'
               PROVE  /\ call'[q].order \in DOMAIN status'
                      /\ origin'[call'[q].order] = call'[q].brief
                      /\ status'[call'[q].order] = StatusAt(call'[q].pc)
                      /\ \A r \in Approvers :
                           Holds(r)' /\ call'[r].order = call'[q].order => r = q
    BY DEF CallsKnowOrders
  <2>1. \A r \in Approvers : r # p /\ Holds(r)' =>
          Holds(r) /\ call'[r].order \in DOMAIN status
    BY <1>7 DEF OrdersInv, CallsKnowOrders, Holds
  <2>2. call'[p].order = Len(status) + 1
    BY <1>6, <1>7
  <2>3. CASE q = p
    <3>1. StatusAt(call'[q].pc) = "NEW"
      BY <1>6, <1>7, <2>3 DEF StatusAt
    <3>2. QED
      BY <1>3, <1>5, <1>6, <1>7, <2>1, <2>2, <2>3, <3>1
  <2>4. CASE q # p
    BY <1>3, <1>5, <1>7, <2>1, <2>2, <2>4 DEF OrdersInv, CallsKnowOrders
  <2>5. QED
    BY <2>3, <2>4
<1>10. TradesAreHeld'
  BY <1>2, <1>6, <1>7 DEF OrdersInv, TradesAreHeld
<1>11. CompletedIsFilled'
  BY <1>1, <1>2, <1>3, <1>5 DEF OrdersInv, CompletedIsFilled
<1>12. QED
  BY <1>8, <1>9, <1>10, <1>11 DEF OrdersInv

\* What a step of the engine does to the tables.
BriefMove(p, s) ==
  /\ s.order = call[p].order /\ s.brief = call[p].brief
  /\ Holds(p) /\ call' = [call EXCEPT ![p] = s]
  /\ UNCHANGED <<links, raced, origin>>
  /\ \/ /\ status[s.order] # "FILLED"
        /\ status' = [status EXCEPT ![s.order] = StatusAt(s.pc)]
        /\ UNCHANGED <<traded, completed>>
        /\ \/ s.pc \in {"VALIDATED", "PENDING"} /\ call[p].pc \in {"NEW", "VALIDATED"}
           \/ s.pc = "FILLED" /\ call[p].pc = "traded" /\ s.order \in traded
     \/ /\ call[p].pc = "PENDING" /\ s.pc = "traded" /\ traded' = traded \cup {s.order}
        /\ UNCHANGED <<status, completed>>
     \/ /\ call[p].pc = "FILLED" /\ s.pc = "link"
        /\ ~KeyUsed(s.brief) /\ completed' = completed \cup {<<s.brief, s.order>>}
        /\ UNCHANGED <<status, traded>>

LEMMA BriefEngineMoves ==
  ASSUME OrdersInv, NEW p \in Approvers, EngineStep(p)
  PROVE  \E s \in CallRecord : BriefMove(p, s)
<1>1. call \in [Approvers -> CallRecord] /\ call[p] \in CallRecord
  BY DEF OrdersInv, TypeOK, CallRecord
<1>2. \A label \in Labels :
        /\ [call[p] EXCEPT !.pc = label] \in CallRecord
        /\ [call[p] EXCEPT !.pc = label].pc = label
        /\ [call[p] EXCEPT !.pc = label].brief = call[p].brief
        /\ [call[p] EXCEPT !.pc = label].order = call[p].order
  BY <1>1 DEF CallRecord
<1>3. \A label : Goto(p, label) => call' = [call EXCEPT ![p] = [call[p] EXCEPT !.pc = label]]
  BY <1>1 DEF Goto
<1>4. UNCHANGED <<links, raced, origin>>
  BY DEF EngineStep, history
<1>5. CASE At(p, "NEW") /\ Engine!Advance(call[p].order, "NEW", "VALIDATED")
             /\ Goto(p, "VALIDATED")
  <2> DEFINE s == [call[p] EXCEPT !.pc = "VALIDATED"]
  <2>1. s \in CallRecord /\ s.pc = "VALIDATED" /\ s.brief = call[p].brief
          /\ s.order = call[p].order /\ StatusAt(s.pc) = "VALIDATED"
    BY <1>2 DEF Labels, StatusAt
  <2>2. BriefMove(p, s)
    BY <1>3, <1>4, <1>5, <2>1 DEF BriefMove, Holds, At, Engine!Advance
  <2>3. QED
    BY <2>1, <2>2
<1>6. CASE At(p, "VALIDATED") /\ Engine!Advance(call[p].order, "VALIDATED", "PENDING")
             /\ Goto(p, "PENDING")
  <2> DEFINE s == [call[p] EXCEPT !.pc = "PENDING"]
  <2>1. s \in CallRecord /\ s.pc = "PENDING" /\ s.brief = call[p].brief
          /\ s.order = call[p].order /\ StatusAt(s.pc) = "PENDING"
    BY <1>2 DEF Labels, StatusAt
  <2>2. BriefMove(p, s)
    BY <1>3, <1>4, <1>6, <2>1 DEF BriefMove, Holds, At, Engine!Advance
  <2>3. QED
    BY <2>1, <2>2
<1>7. CASE At(p, "PENDING") /\ Engine!Trade(call[p].order) /\ Goto(p, "traded")
  <2> DEFINE s == [call[p] EXCEPT !.pc = "traded"]
  <2>1. s \in CallRecord /\ s.pc = "traded" /\ s.brief = call[p].brief
          /\ s.order = call[p].order
    BY <1>2 DEF Labels
  <2>2. BriefMove(p, s)
    BY <1>3, <1>4, <1>7, <2>1 DEF BriefMove, Holds, At, Engine!Trade
  <2>3. QED
    BY <2>1, <2>2
<1>8. CASE At(p, "traded") /\ Engine!Fill(call[p].order) /\ Goto(p, "FILLED")
  <2> DEFINE s == [call[p] EXCEPT !.pc = "FILLED"]
  <2>1. s \in CallRecord /\ s.pc = "FILLED" /\ s.brief = call[p].brief
          /\ s.order = call[p].order /\ StatusAt(s.pc) = "FILLED"
    BY <1>2 DEF Labels, StatusAt
  <2>2. BriefMove(p, s)
    BY <1>3, <1>4, <1>8, <2>1 DEF BriefMove, Holds, At, Engine!Fill, Engine!Advance
  <2>3. QED
    BY <2>1, <2>2
<1>9. CASE At(p, "FILLED") /\ Engine!Complete(call[p].brief, call[p].order)
             /\ Goto(p, "link")
  <2> DEFINE s == [call[p] EXCEPT !.pc = "link"]
  <2>1. s \in CallRecord /\ s.pc = "link" /\ s.brief = call[p].brief
          /\ s.order = call[p].order
    BY <1>2 DEF Labels
  <2>2. ~KeyUsed(s.brief)
    BY <1>9, <2>1 DEF KeyUsed, Engine!Complete
  <2>3. BriefMove(p, s)
    BY <1>3, <1>4, <1>9, <2>1, <2>2 DEF BriefMove, Holds, At, Engine!Complete
  <2>4. QED
    BY <2>1, <2>3
<1>10. QED
  BY <1>5, <1>6, <1>7, <1>8, <1>9 DEF EngineStep

LEMMA BriefMoveStep ==
  ASSUME OrdersInv, NEW p \in Approvers, NEW s \in CallRecord, BriefMove(p, s)
  PROVE  OrdersInv'
<1>1. /\ status \in Seq({"NEW", "VALIDATED", "PENDING", "FILLED"})
      /\ origin \in [DOMAIN status -> Briefs]
      /\ call \in [Approvers -> CallRecord]
      /\ traded \subseteq DOMAIN status
      /\ completed \subseteq Briefs \X DOMAIN status
      /\ links \subseteq Briefs \X DOMAIN status /\ raced \subseteq Briefs
  BY DEF OrdersInv, TypeOK, CallRecord
<1>2. /\ Holds(p) /\ s.order = call[p].order /\ s.brief = call[p].brief
      /\ call' = [call EXCEPT ![p] = s]
      /\ UNCHANGED <<links, raced, origin>>
  BY DEF BriefMove
<1>3. /\ s.order \in DOMAIN status /\ origin[s.order] = s.brief
      /\ s.brief \in Briefs
  BY <1>1, <1>2 DEF OrdersInv, CallsKnowOrders, CallRecord
<1>4. s.pc \in {"VALIDATED", "PENDING", "FILLED", "traded", "link"}
  BY DEF BriefMove
<1>5. /\ status' \in Seq({"NEW", "VALIDATED", "PENDING", "FILLED"})
      /\ DOMAIN status' = DOMAIN status
      /\ \A o \in DOMAIN status : o # s.order => status'[o] = status[o]
      /\ status'[s.order] = StatusAt(s.pc)
      /\ status[s.order] = "FILLED" => status'[s.order] = "FILLED"
  <2>1. CASE status' = [status EXCEPT ![s.order] = StatusAt(s.pc)]
               /\ s.pc \in {"VALIDATED", "PENDING", "FILLED"}
               /\ status[s.order] # "FILLED"
    <3>1. StatusAt(s.pc) \in {"VALIDATED", "PENDING", "FILLED"}
      BY <2>1 DEF StatusAt
    <3>2. QED
      BY <1>1, <1>3, <2>1, <3>1
  <2>2. CASE status' = status /\ call[p].pc = "PENDING" /\ s.pc = "traded"
    BY <1>1, <1>2, <1>3, <2>2 DEF OrdersInv, CallsKnowOrders, StatusAt
  <2>3. CASE status' = status /\ call[p].pc = "FILLED" /\ s.pc = "link"
    BY <1>1, <1>2, <1>3, <2>3 DEF OrdersInv, CallsKnowOrders, StatusAt
  <2>4. QED
    BY <2>1, <2>2, <2>3 DEF BriefMove
<1>6. /\ traded' \subseteq DOMAIN status /\ traded \subseteq traded'
      /\ s.pc \in {"traded", "FILLED", "link"} => s.order \in traded'
  <2>1. call[p].pc = "FILLED" => s.order \in traded
    BY <1>2 DEF OrdersInv, TradesAreHeld
  <2>2. QED
    BY <1>1, <1>3, <2>1 DEF BriefMove
<1>7. /\ completed' \subseteq Briefs \X DOMAIN status
      /\ completed \subseteq completed'
      /\ completed' \subseteq completed \cup {<<s.brief, s.order>>}
      /\ s.pc = "link" => <<s.brief, s.order>> \in completed'
      /\ s.pc # "link" => completed' = completed
      /\ completed' # completed => ~KeyUsed(s.brief) /\ s.pc = "link"
  BY <1>1, <1>3 DEF BriefMove
<1>8. /\ \A q \in Approvers : q # p => call'[q] = call[q]
      /\ call'[p] = s
  BY <1>1, <1>2
<1>9. TypeOK'
  <2>1. CallRecord' = CallRecord
    BY <1>5 DEF CallRecord
  <2>2. call' \in [Approvers -> CallRecord']
    BY <1>1, <1>2, <2>1
  <2>3. QED
    BY <1>1, <1>2, <1>5, <1>6, <1>7, <2>2 DEF TypeOK, CallRecord
<1>10. CallsKnowOrders'
  <2> SUFFICES ASSUME NEW q \in Approvers, Holds(q)'
               PROVE  /\ call'[q].order \in DOMAIN status'
                      /\ origin'[call'[q].order] = call'[q].brief
                      /\ status'[call'[q].order] = StatusAt(call'[q].pc)
                      /\ \A r \in Approvers :
                           Holds(r)' /\ call'[r].order = call'[q].order => r = q
    BY DEF CallsKnowOrders
  <2>1. \A r \in Approvers : Holds(r)' => Holds(r) /\ call'[r].order = call[r].order
    BY <1>2, <1>8 DEF Holds
  <2>2. \A r \in Approvers :
          Holds(r)' /\ call'[r].order = call'[q].order => r = q
    BY <2>1 DEF OrdersInv, CallsKnowOrders
  <2>3. CASE q = p
    BY <1>2, <1>3, <1>5, <1>8, <2>2, <2>3
  <2>4. CASE q # p
    <3>1. call[q].order # s.order
      BY <1>2, <2>1, <2>4 DEF OrdersInv, CallsKnowOrders
    <3>2. QED
      BY <1>2, <1>5, <1>8, <2>1, <2>2, <2>4, <3>1 DEF OrdersInv, CallsKnowOrders
  <2>5. QED
    BY <2>3, <2>4
<1>11. TradesAreHeld'
  BY <1>6, <1>7, <1>8 DEF OrdersInv, TradesAreHeld
<1>12. CompletedIsFilled'
  <2>1. <<s.brief, s.order>>[1] = s.brief /\ <<s.brief, s.order>>[2] = s.order
    OBVIOUS
  <2>2. ASSUME NEW c \in completed'
        PROVE  c[2] \in traded' /\ status'[c[2]] = "FILLED" /\ origin'[c[2]] = c[1]
    <3>1. CASE c \in completed
      BY <1>1, <1>2, <1>5, <1>6, <3>1 DEF OrdersInv, CompletedIsFilled
    <3>2. CASE c \notin completed
      <4>1. c = <<s.brief, s.order>> /\ s.pc = "link"
        BY <1>7, <2>2, <3>2
      <4>2. StatusAt(s.pc) = "FILLED"
        BY <4>1 DEF StatusAt
      <4>3. QED
        BY <1>2, <1>3, <1>5, <1>6, <2>1, <4>1, <4>2
    <3>3. QED
      BY <3>1, <3>2
  <2>3. ASSUME NEW c \in completed', NEW d \in completed', c[1] = d[1]
        PROVE  c = d
    <3>1. CASE completed' = completed
      BY <2>3, <3>1 DEF OrdersInv, CompletedIsFilled
    <3>2. CASE completed' # completed
      <4>1. \A e \in completed : e[1] # s.brief
        BY <1>7, <3>2 DEF KeyUsed
      <4>2. QED
        BY <1>7, <2>1, <2>3, <4>1 DEF OrdersInv, CompletedIsFilled
    <3>3. QED
      BY <3>1, <3>2
  <2>4. links' \subseteq completed'
    BY <1>2, <1>7 DEF OrdersInv, CompletedIsFilled
  <2>5. QED
    BY <2>2, <2>3, <2>4 DEF CompletedIsFilled
<1>13. QED
  BY <1>9, <1>10, <1>11, <1>12 DEF OrdersInv

\* The steps that only move the call: s is what becomes of its record.
BriefRest(p, s) ==
  /\ call' = [call EXCEPT ![p] = s]
  /\ UNCHANGED <<lifecycle, origin>>
  /\ s.pc \in {"idle", "check", "gates", "insert"}
  /\ links' \subseteq completed /\ raced' \subseteq Briefs

LEMMA BriefNext ==
  ASSUME OrdersInv, Next
  PROVE  \E p \in Approvers :
           \/ InsertOrder(p)
           \/ EngineStep(p)
           \/ \E s \in CallRecord : BriefRest(p, s)
<1>1. PICK p \in Approvers :
        \/ \E b \in Briefs : Call(p, b)
        \/ Check(p)
        \/ PassGates(p) \/ RefusedByGate(p)
        \/ InsertOrder(p) \/ EngineStep(p)
        \/ RefuseKey(p) \/ Raise(p)
        \/ CreateLink(p) \/ LinkFails(p)
  BY DEF Next
<1>2. /\ call \in [Approvers -> CallRecord] /\ call[p] \in CallRecord
      /\ links \subseteq completed /\ raced \subseteq Briefs
  BY DEF OrdersInv, TypeOK, CompletedIsFilled, CallRecord
<1>3. \A label : Goto(p, label) => call' = [call EXCEPT ![p] = [call[p] EXCEPT !.pc = label]]
  BY <1>2 DEF Goto
<1>4. ASSUME Return(p), UNCHANGED <<lifecycle, origin, raced>>, links' \subseteq completed
      PROVE  \E s \in CallRecord : BriefRest(p, s)
  <2>1. BriefRest(p, Idle)
    BY <1>2, <1>4, BriefIdle DEF Return, BriefRest
  <2>2. QED
    BY <2>1, BriefIdle
<1>5. ASSUME NEW label \in {"gates", "insert"}, Goto(p, label),
             UNCHANGED <<lifecycle, links, origin, raced>>
      PROVE  \E s \in CallRecord : BriefRest(p, s)
  <2> DEFINE s == [call[p] EXCEPT !.pc = label]
  <2>1. s \in CallRecord /\ s.pc = label
    BY <1>2, <1>5 DEF CallRecord, Labels
  <2>2. BriefRest(p, s)
    BY <1>2, <1>3, <1>5, <2>1 DEF BriefRest
  <2>3. QED
    BY <2>1, <2>2
<1>6. ASSUME NEW b \in Briefs, Call(p, b)
      PROVE  \E s \in CallRecord : BriefRest(p, s)
  <2> DEFINE s == [call[p] EXCEPT !.pc = "check", !.brief = b]
  <2>1. call' = [call EXCEPT ![p] = s]
    BY <1>2, <1>6 DEF Call
  <2>2. s \in CallRecord /\ s.pc = "check"
    BY <1>2 DEF CallRecord, Labels
  <2>3. UNCHANGED <<lifecycle, links, origin>> /\ raced' \subseteq Briefs
    BY <1>2, <1>6 DEF Call
  <2>4. BriefRest(p, s)
    BY <1>2, <2>1, <2>2, <2>3 DEF BriefRest
  <2>5. QED
    BY <2>2, <2>4
<1>7. ASSUME CreateLink(p)
      PROVE  \E s \in CallRecord : BriefRest(p, s)
  <2>1. NewLink(p) \in completed
    BY <1>7 DEF CreateLink, At, NewLink, OrdersInv, TradesAreHeld
  <2>2. links' \subseteq completed
    BY <1>2, <1>7, <2>1 DEF CreateLink
  <2>3. QED
    BY <1>4, <1>7, <2>2 DEF CreateLink, history
<1>8. QED
  BY <1>1, <1>2, <1>4, <1>5, <1>6, <1>7
  DEF Check, PassGates, RefusedByGate, RefuseKey, RaiseTheError, Raise, LinkFails, history

LEMMA BriefStep == OrdersInv /\ [Next]_vars => OrdersInv'
<1> SUFFICES ASSUME OrdersInv, [Next]_vars PROVE OrdersInv'
  OBVIOUS
<1>1. CASE UNCHANGED vars
  BY <1>1 DEF vars, lifecycle, history, OrdersInv, TypeOK, CallsKnowOrders, Holds,
              TradesAreHeld, CompletedIsFilled
<1>2. CASE Next
  <2>1. PICK p \in Approvers :
           \/ InsertOrder(p)
           \/ EngineStep(p)
           \/ \E s \in CallRecord : BriefRest(p, s)
    BY <1>2, BriefNext
  <2>2. CASE \E s \in CallRecord : BriefRest(p, s)
    BY <2>2, BriefCallStep DEF BriefRest
  <2>3. CASE EngineStep(p)
    BY <2>3, BriefEngineMoves, BriefMoveStep
  <2>4. QED
    BY <2>1, <2>2, <2>3, BriefInsertStep
<1>3. QED
  BY <1>1, <1>2

-----------------------------------------------------------------------------
\* Between the gates and the key.
Past(p) ==
  call[p].pc \in {"insert", "NEW", "VALIDATED", "PENDING", "traded", "FILLED"}

\* Without an overlap a brief has one call, and no key while that is at work.
OneCallOfABrief ==
  \A b \in Briefs \ raced : \A p \in Approvers :
    call[p].brief = b =>
      /\ Past(p) => ~KeyUsed(b)
      /\ ~At(p, "idle") => \A q \in Approvers :
           ~At(q, "idle") /\ call[q].brief = b => q = p

\* A traded order is in the hands of its call, or has completed its request.
Kept(o, b) ==
  \/ <<b, o>> \in completed
  \/ \E p \in Approvers : /\ call[p].pc \in {"traded", "FILLED", "link"}
                          /\ call[p].brief = b /\ call[p].order = o

\* All others were lost by a call that raised.
LossesAreRaises ==
  \A b \in Briefs \ raced : \E lost \in SUBSET DOMAIN status :
    /\ IsFiniteSet(lost) /\ Cardinality(lost) <= raises
    /\ \A o \in TradedFor(b) \ lost : Kept(o, b)

RaceInv == raises \in Nat /\ OneCallOfABrief /\ LossesAreRaises

\* How the call of p may move, as far as other calls of its brief are concerned.
RaceMove(p, s) ==
  /\ call' = [call EXCEPT ![p] = s]
  /\ raced \subseteq raced' /\ DOMAIN status \subseteq DOMAIN status'
  /\ \A o \in traded : origin'[o] = origin[o]
  /\ raises' \in {raises, raises + 1}
  /\ \/ s.pc = "idle"
     \/ call[p].pc # "idle" /\ s.brief = call[p].brief
     \/ /\ s.pc = "check"
        /\ \/ s.brief \in raced'
           \/ \A q \in Approvers : ~At(q, "idle") => call[q].brief # s.brief
  /\ s.pc \in {"insert", "NEW", "VALIDATED", "PENDING", "traded", "FILLED"} =>
       Past(p) \/ ~KeyUsed(s.brief)
  /\ \/ completed' = completed
     \/ s.pc = "link" /\ completed' = completed \cup {<<s.brief, s.order>>}
  /\ \/ traded' = traded
     \/ s.pc = "traded" /\ traded' = traded \cup {s.order}
          /\ origin'[s.order] = s.brief
  /\ call[p].pc \in {"traded", "FILLED", "link"} =>
       \/ /\ s.pc \in {"traded", "FILLED", "link"}
          /\ s.brief = call[p].brief /\ s.order = call[p].order
       \/ call[p].brief \in raced'
       \/ <<call[p].brief, call[p].order>> \in completed'
       \/ raises' = raises + 1

LEMMA BriefRaceInit == Init => RaceInv
<1> SUFFICES ASSUME Init PROVE RaceInv
  OBVIOUS
<1>1. /\ status = << >> /\ traded = {} /\ completed = {} /\ raises = 0
      /\ call = [p \in Approvers |-> Idle]
  BY DEF Init, Engine!Init
<1>2. OneCallOfABrief
  BY <1>1, BriefIdle DEF OneCallOfABrief, Past, At
<1>3. LossesAreRaises
  BY <1>1, FS_EmptySet DEF LossesAreRaises, TradedFor
<1>4. QED
  BY <1>1, <1>2, <1>3 DEF RaceInv

LEMMA BriefRaceStep ==
  ASSUME OrdersInv, RaceInv, NEW p \in Approvers, NEW s,
         RaceMove(p, s), call[p].order \in DOMAIN status \/ ~Holds(p)
  PROVE  RaceInv'
<1>1. call \in [Approvers -> CallRecord] /\ raises \in Nat
  BY DEF OrdersInv, TypeOK, RaceInv, CallRecord
<1>2. /\ \A q \in Approvers : q # p => call'[q] = call[q]
      /\ call'[p] = s
  BY <1>1 DEF RaceMove
<1>3. raises' \in Nat /\ raises <= raises'
  BY <1>1 DEF RaceMove
<1>4. \A b \in Briefs \ raced' : b \in Briefs \ raced
  BY DEF RaceMove
<1>5. \A b \in Briefs \ raced', q \in Approvers :
        q # p /\ ~At(q, "idle") /\ call[q].brief = b /\ s.pc # "idle" => s.brief # b
  <2> SUFFICES ASSUME NEW b \in Briefs \ raced', NEW q \in Approvers, q # p,
                      ~At(q, "idle"), call[q].brief = b, s.pc # "idle", s.brief = b
               PROVE  FALSE
    OBVIOUS
  <2>1. CASE call[p].pc # "idle" /\ s.brief = call[p].brief
    BY <1>4, <2>1 DEF RaceInv, OneCallOfABrief, At
  <2>2. CASE call[p].pc = "idle" \/ s.brief # call[p].brief
    BY <2>2 DEF RaceMove
  <2>3. QED
    BY <2>1, <2>2
<1>6. OneCallOfABrief'
  <2> SUFFICES ASSUME NEW b \in Briefs \ raced', NEW q \in Approvers, call'[q].brief = b
               PROVE  /\ Past(q)' => ~KeyUsed(b)'
                      /\ call'[q].pc # "idle" => \A r \in Approvers :
                           call'[r].pc # "idle" /\ call'[r].brief = b => r = q
    BY DEF OneCallOfABrief, At
  <2>1. ASSUME call'[q].pc # "idle", NEW r \in Approvers, call'[r].pc # "idle",
               call'[r].brief = b
        PROVE  r = q
    <3>1. CASE q # p /\ r # p
      BY <1>2, <1>4, <2>1, <3>1 DEF RaceInv, OneCallOfABrief, At
    <3>2. CASE q = p \/ r = p
      BY <1>2, <1>5, <2>1, <3>2 DEF At
    <3>3. QED
      BY <3>1, <3>2
  <2>2. ASSUME Past(q)'
        PROVE  ~KeyUsed(b)'
    <3>1. CASE q = p
      <4>1. s.pc \in {"insert", "NEW", "VALIDATED", "PENDING", "traded", "FILLED"}
              /\ s.brief = b
        BY <1>2, <2>2, <3>1 DEF Past
      <4>2. completed' = completed
        BY <4>1 DEF RaceMove
      <4>3. ~KeyUsed(b)
        <5>1. CASE Past(p) /\ s.brief = call[p].brief
          BY <1>4, <4>1, <5>1 DEF RaceInv, OneCallOfABrief
        <5>2. CASE ~(Past(p) /\ s.brief = call[p].brief)
          BY <4>1, <5>2 DEF RaceMove
        <5>3. QED
          BY <5>1, <5>2
      <4>4. QED
        BY <4>2, <4>3 DEF KeyUsed
    <3>2. CASE q # p
      <4>1. ~At(q, "idle") /\ call[q].brief = b /\ Past(q)
        BY <1>2, <2>2, <3>2 DEF Past, At
      <4>2. ~KeyUsed(b)
        BY <1>4, <4>1 DEF RaceInv, OneCallOfABrief
      <4>3. s.pc = "link" => s.brief # b
        BY <1>5, <3>2, <4>1
      <4>4. \A c \in completed' : c \in completed \/ c[1] # b
        BY <4>3 DEF RaceMove
      <4>5. QED
        BY <4>2, <4>4 DEF KeyUsed
    <3>3. QED
      BY <3>1, <3>2
  <2>3. QED
    BY <2>1, <2>2
<1>7. LossesAreRaises'
  <2> SUFFICES ASSUME NEW b \in Briefs \ raced'
               PROVE  \E lost \in SUBSET DOMAIN status' :
                        /\ IsFiniteSet(lost) /\ Cardinality(lost) <= raises'
                        /\ \A o \in TradedFor(b)' \ lost : Kept(o, b)'
    BY DEF LossesAreRaises
  <2>1. PICK lost \in SUBSET DOMAIN status :
          /\ IsFiniteSet(lost) /\ Cardinality(lost) <= raises
          /\ \A o \in TradedFor(b) \ lost : Kept(o, b)
    BY <1>4 DEF RaceInv, LossesAreRaises
  <2>2. \A o \in TradedFor(b)' : o \in TradedFor(b) \/ Kept(o, b)'
    <3> SUFFICES ASSUME NEW o \in traded', origin'[o] = b, ~(o \in traded /\ origin[o] = b)
                 PROVE  Kept(o, b)'
      BY DEF TradedFor
    <3>1. o = s.order /\ s.brief = b /\ s.pc = "traded"
      BY DEF RaceMove
    <3>2. QED
      BY <1>2, <3>1 DEF Kept
  <2>3. \A o : Kept(o, b) =>
          Kept(o, b)' \/ (raises' = raises + 1 /\ Holds(p) /\ o = call[p].order)
    <3> SUFFICES ASSUME NEW o, Kept(o, b),
                        ~(raises' = raises + 1 /\ Holds(p) /\ o = call[p].order)
                 PROVE  Kept(o, b)'
      OBVIOUS
    <3>1. completed \subseteq completed'
      BY DEF RaceMove
    <3>2. CASE <<b, o>> \in completed
      BY <3>1, <3>2 DEF Kept
    <3>3. CASE \E q \in Approvers : /\ call[q].pc \in {"traded", "FILLED", "link"}
                                    /\ call[q].brief = b /\ call[q].order = o
      <4>1. PICK q \in Approvers : /\ call[q].pc \in {"traded", "FILLED", "link"}
                                   /\ call[q].brief = b /\ call[q].order = o
        BY <3>3
      <4>2. CASE q # p
        BY <1>2, <4>1, <4>2 DEF Kept
      <4>3. CASE q = p
        <5>1. Holds(p) /\ raises' # raises + 1
          BY <4>1, <4>3 DEF Holds
        <5>2. \/ /\ s.pc \in {"traded", "FILLED", "link"}
                 /\ s.brief = b /\ s.order = o
              \/ <<b, o>> \in completed'
          BY <4>1, <4>3, <5>1 DEF RaceMove
        <5>3. QED
          BY <1>2, <5>2 DEF Kept
      <4>4. QED
        BY <4>2, <4>3
    <3>4. QED
      BY <3>2, <3>3 DEF Kept
  <2>4. CASE raises' = raises + 1 /\ Holds(p)
    <3> DEFINE more == lost \cup {call[p].order}
    <3>0. Cardinality(lost) \in Nat
      BY <2>1, FS_CardinalityType
    <3>1. IsFiniteSet(more) /\ Cardinality(more) <= Cardinality(lost) + 1
      <4>1. /\ IsFiniteSet(more)
            /\ Cardinality(more) = IF call[p].order \in lost THEN Cardinality(lost)
                                   ELSE Cardinality(lost) + 1
        BY <2>1, FS_AddElement
      <4>2. QED
        BY <3>0, <4>1
    <3>2. more \in SUBSET DOMAIN status' /\ Cardinality(more) <= raises'
      <4>1. Cardinality(lost) \in Nat /\ Cardinality(more) \in Nat
        BY <2>1, <3>1, FS_CardinalityType
      <4>2. Cardinality(more) <= raises'
        BY <1>1, <2>1, <2>4, <3>1, <4>1
      <4>3. QED
        BY <2>1, <2>4, <4>2 DEF RaceMove
    <3>3. \A o \in TradedFor(b)' \ more : Kept(o, b)'
      BY <2>1, <2>2, <2>3
    <3>4. QED
      BY <3>1, <3>2, <3>3
  <2>5. CASE ~(raises' = raises + 1 /\ Holds(p))
    <3>1. lost \in SUBSET DOMAIN status' /\ Cardinality(lost) <= raises'
      <4>1. Cardinality(lost) \in Nat
        BY <2>1, FS_CardinalityType
      <4>2. QED
        BY <1>1, <1>3, <2>1, <4>1 DEF RaceMove
    <3>2. \A o \in TradedFor(b)' \ lost : Kept(o, b)'
      BY <2>1, <2>2, <2>3, <2>5
    <3>3. QED
      BY <2>1, <3>1, <3>2
  <2>6. QED
    BY <2>4, <2>5
<1>8. QED
  BY <1>3, <1>6, <1>7 DEF RaceInv

LEMMA BriefRaceNext ==
  ASSUME OrdersInv, RaceInv, [Next]_vars
  PROVE  RaceInv'
<1>1. CASE UNCHANGED vars
  BY <1>1 DEF vars, lifecycle, counts, history, RaceInv, OneCallOfABrief, Past, KeyUsed,
              At, LossesAreRaises, Kept, TradedFor
<1>2. CASE Next
  <2>1. PICK p \in Approvers :
          \/ \E b \in Briefs : Call(p, b)
          \/ Check(p)
          \/ PassGates(p) \/ RefusedByGate(p)
          \/ InsertOrder(p) \/ EngineStep(p)
          \/ RefuseKey(p) \/ Raise(p)
          \/ CreateLink(p) \/ LinkFails(p)
    BY <1>2 DEF Next
  <2>2. /\ call \in [Approvers -> CallRecord] /\ call[p] \in CallRecord
        /\ status \in Seq({"NEW", "VALIDATED", "PENDING", "FILLED"})
        /\ traded \subseteq DOMAIN status /\ raises \in Nat
        /\ origin \in [DOMAIN status -> Briefs]
        /\ Holds(p) => call[p].order \in DOMAIN status
    BY DEF OrdersInv, TypeOK, CallRecord, CallsKnowOrders, RaceInv
  <2>3. \A label : Goto(p, label) =>
          call' = [call EXCEPT ![p] = [call[p] EXCEPT !.pc = label]]
    BY <2>2 DEF Goto
  <2>4. ASSUME Return(p), UNCHANGED <<lifecycle, origin, raced>>,
               raises' \in {raises, raises + 1},
               \/ call[p].pc \notin {"traded", "FILLED", "link"}
               \/ call[p].brief \in raced
               \/ <<call[p].brief, call[p].order>> \in completed
               \/ raises' = raises + 1
        PROVE  RaceInv'
    <3>1. RaceMove(p, Idle)
      BY <2>4, BriefIdle DEF RaceMove, Return, lifecycle
    <3>2. QED
      BY <2>2, <3>1, BriefIdle, BriefRaceStep
  <2>5. ASSUME NEW label \in {"gates", "insert"}, Goto(p, label), ~At(p, "idle"),
               call[p].pc \notin {"traded", "FILLED", "link"},
               UNCHANGED <<lifecycle, origin, raced, raises>>,
               label = "insert" => ~KeyUsed(call[p].brief)
        PROVE  RaceInv'
    <3> DEFINE s == [call[p] EXCEPT !.pc = label]
    <3>1. s \in CallRecord /\ s.pc = label /\ s.brief = call[p].brief
      BY <2>2, <2>5 DEF CallRecord, Labels
    <3>2. call' = [call EXCEPT ![p] = s]
      BY <2>3, <2>5
    <3> HIDE DEF s
    <3>3. RaceMove(p, s)
      BY <2>5, <3>1, <3>2 DEF RaceMove, At, lifecycle
    <3>4. QED
      BY <2>2, <3>1, <3>3, BriefRaceStep
  <2>6. ASSUME NEW b \in Briefs, Call(p, b)
        PROVE  RaceInv'
    <3> DEFINE s == [call[p] EXCEPT !.pc = "check", !.brief = b]
    <3>1. s \in CallRecord /\ s.pc = "check" /\ s.brief = b
      BY <2>2 DEF CallRecord, Labels
    <3>2. call' = [call EXCEPT ![p] = s]
      BY <2>2, <2>6 DEF Call
    <3>3. call[p].pc = "idle" /\ UNCHANGED <<lifecycle, origin, raises>>
            /\ raced' = IF \E q \in Approvers : ~At(q, "idle") /\ call[q].brief = b
                        THEN raced \cup {b} ELSE raced
      BY <2>6 DEF Call, At
    <3> HIDE DEF s
    <3>4. RaceMove(p, s)
      BY <3>1, <3>2, <3>3 DEF RaceMove, At, lifecycle
    <3>5. QED
      BY <2>2, <3>1, <3>4, BriefRaceStep
  <2>7. ASSUME InsertOrder(p)
        PROVE  RaceInv'
    <3> DEFINE s == [call[p] EXCEPT !.pc = "NEW", !.order = Len(status) + 1]
    <3>1. /\ At(p, "insert") /\ status' = Append(status, "NEW")
          /\ UNCHANGED <<traded, completed, raced, raises>>
          /\ origin' = Append(origin, call[p].brief)
          /\ call' = [call EXCEPT ![p] = s]
      BY <2>2, <2>7 DEF InsertOrder, Engine!Insert, counts
    <3>2. s.pc = "NEW" /\ s.brief = call[p].brief
      BY <2>2 DEF CallRecord
    <3> HIDE DEF s
    <3>3. DOMAIN status \subseteq DOMAIN status'
      BY <2>2, <3>1
    <3>4. \A o \in traded : origin'[o] = origin[o]
      <4>1. origin \in Seq(Briefs) /\ DOMAIN status = 1 .. Len(origin)
        BY <2>2
      <4>2. QED
        BY <2>2, <3>1, <4>1
    <3>5. RaceMove(p, s)
      BY <3>1, <3>2, <3>3, <3>4 DEF RaceMove, Past, At
    <3>6. QED
      BY <2>2, <3>5, BriefRaceStep
  <2>8. ASSUME EngineStep(p)
        PROVE  RaceInv'
    <3>1. PICK s \in CallRecord : BriefMove(p, s)
      BY <2>8, BriefEngineMoves
    <3>2. UNCHANGED <<raises, origin>> /\ DOMAIN status' = DOMAIN status
            /\ origin[call[p].order] = call[p].brief
      BY <2>2, <2>8, <3>1 DEF EngineStep, counts, history, BriefMove, OrdersInv, CallsKnowOrders
    <3>3. call[p].pc \in {"traded", "FILLED", "link"} =>
            s.pc \in {"traded", "FILLED", "link"}
      BY <3>1 DEF BriefMove
    <3>4. RaceMove(p, s)
      BY <2>2, <3>1, <3>2, <3>3 DEF RaceMove, BriefMove, Past, Holds
    <3>5. QED
      BY <2>2, <3>1, <3>4, BriefRaceStep
  <2>9. ASSUME RefuseKey(p)
        PROVE  RaceInv'
    <3>1. call[p].brief \in raced
      BY <2>2, <2>9 DEF RefuseKey, At, RaceInv, OneCallOfABrief, Past, CallRecord
    <3>2. QED
      BY <2>4, <2>9, <3>1 DEF RefuseKey, RaiseTheError, history, counts
  <2>10. CASE Check(p)
    <3>1. call[p].pc = "check" /\ UNCHANGED <<lifecycle, origin, raced, raises>>
      BY <2>10 DEF Check, At, history, counts
    <3>2. Goto(p, "gates") \/ Return(p)
      BY <2>10 DEF Check
    <3>3. QED
      BY <2>4, <2>5, <3>1, <3>2 DEF At
  <2>11. CASE PassGates(p)
    BY <2>5, <2>11 DEF PassGates, At, history, counts
  <2>12. CASE RefusedByGate(p)
    BY <2>4, <2>12 DEF RefusedByGate, At, history, counts
  <2>13. CASE Raise(p)
    BY <2>4, <2>13 DEF Raise, history
  <2>14. CASE CreateLink(p) \/ LinkFails(p)
    <3>1. <<call[p].brief, call[p].order>> \in completed
      BY <2>14 DEF CreateLink, LinkFails, At, OrdersInv, TradesAreHeld
    <3>2. QED
      BY <2>4, <2>14, <3>1 DEF CreateLink, LinkFails, history, counts
  <2>15. QED
    BY <2>1, <2>6, <2>7, <2>8, <2>9, <2>10, <2>11, <2>12, <2>13, <2>14
<1>3. QED
  BY <1>1, <1>2

\* Unraced, a brief has one order that is kept.
LEMMA BriefOrdersAdd ==
  ASSUME OrdersInv, RaceInv
  PROVE  SecondOrderNeedsRaise
<1> SUFFICES ASSUME NEW b \in Briefs \ raced
             PROVE  Cardinality(TradedFor(b)) <= 1 + raises
  BY DEF SecondOrderNeedsRaise
<1>1. PICK lost \in SUBSET DOMAIN status :
        /\ IsFiniteSet(lost) /\ Cardinality(lost) <= raises
        /\ \A o \in TradedFor(b) \ lost : Kept(o, b)
  BY DEF RaceInv, LossesAreRaises
<1>2. ASSUME NEW o, NEW k, Kept(o, b), Kept(k, b)
      PROVE  o = k
  <2>1. \A c \in completed : \A d \in completed : c[1] = d[1] => c = d
    BY DEF OrdersInv, CompletedIsFilled
  <2>2. \A p \in Approvers :
          /\ call[p].pc = "link" => <<call[p].brief, call[p].order>> \in completed
          /\ call[p].brief = b /\ call[p].pc \in {"traded", "FILLED"} =>
               \A c \in completed : c[1] # b
    BY DEF OrdersInv, TradesAreHeld, RaceInv, OneCallOfABrief, Past, KeyUsed
  <2>3. <<b, o>>[1] = b /\ <<b, k>>[1] = b /\ <<b, o>>[2] = o /\ <<b, k>>[2] = k
    OBVIOUS
  <2>4. CASE <<b, o>> \in completed \/ <<b, k>> \in completed
    <3>1. <<b, o>> \in completed /\ <<b, k>> \in completed
      BY <1>2, <2>2, <2>3, <2>4 DEF Kept
    <3>2. QED
      BY <2>1, <2>3, <3>1
  <2>5. CASE <<b, o>> \notin completed /\ <<b, k>> \notin completed
    <3>1. PICK p \in Approvers : /\ call[p].pc \in {"traded", "FILLED", "link"}
                                 /\ call[p].brief = b /\ call[p].order = o
      BY <1>2, <2>5 DEF Kept
    <3>2. PICK q \in Approvers : /\ call[q].pc \in {"traded", "FILLED", "link"}
                                 /\ call[q].brief = b /\ call[q].order = k
      BY <1>2, <2>5 DEF Kept
    <3>3. p = q
      BY <3>1, <3>2 DEF RaceInv, OneCallOfABrief, At
    <3>4. QED
      BY <3>1, <3>2, <3>3
  <2>6. QED
    BY <2>4, <2>5
<1>3. Cardinality(lost) \in Nat /\ raises \in Nat
  BY <1>1, FS_CardinalityType DEF RaceInv
<1>4. CASE TradedFor(b) \subseteq lost
  BY <1>1, <1>3, <1>4, FS_Subset, FS_CardinalityType
<1>5. CASE ~(TradedFor(b) \subseteq lost)
  <2>1. PICK o \in TradedFor(b) : o \notin lost
    BY <1>5
  <2>2. TradedFor(b) \subseteq lost \cup {o}
    BY <1>1, <1>2, <2>1
  <2>3. IsFiniteSet(lost \cup {o}) /\ Cardinality(lost \cup {o}) = Cardinality(lost) + 1
    BY <1>1, <2>1, FS_AddElement
  <2>4. /\ IsFiniteSet(TradedFor(b))
        /\ Cardinality(TradedFor(b)) <= Cardinality(lost \cup {o})
    BY <2>2, <2>3, FS_Subset
  <2>5. Cardinality(TradedFor(b)) \in Nat
    BY <2>4, FS_CardinalityType
  <2>6. QED
    BY <1>1, <1>3, <2>3, <2>4, <2>5
<1>6. QED
  BY <1>4, <1>5

LEMMA BriefLinks == OrdersInv => LinkNamesTheOrder
  BY DEF OrdersInv, CompletedIsFilled, TypeOK, LinkNamesTheOrder, TradedFor

\* What a brief is linked to is its order, and second orders are explained, for
\* any processes, briefs, raises and failures.
THEOREM BriefsHaveTheirOrders == Spec => []BriefOrdersSound
<1>1. Init => OrdersInv /\ RaceInv
  BY BriefInit, BriefRaceInit
<1>2. OrdersInv /\ RaceInv /\ [Next]_vars => (OrdersInv /\ RaceInv)'
  BY BriefStep, BriefRaceNext
<1>3. OrdersInv /\ RaceInv => BriefOrdersSound
  BY BriefLinks, BriefOrdersAdd DEF BriefOrdersSound
<1>4. QED
  BY <1>1, <1>2, <1>3, PTL DEF Spec

-----------------------------------------------------------------------------
(***************************************************************************)
(* The journal: RiskLedger                                                 *)
(***************************************************************************)
ClerkStates == AtDesk \cup Judging \cup Deciding \cup Closing \cup Saving

\* The states by their labels.
LEMMA LedgerStates ==
  ASSUME NEW s \in ClerkStates
  PROVE  /\ s.pc = "idle" => s \in AtDesk
         /\ s.pc \in {"limits", "stats"} => s \in Judging
         /\ s.pc = "record" => s \in Deciding
         /\ s.pc = "close" => s \in Closing
         /\ s.pc \in {"save", "insert", "update"} => s \in Saving
  BY DEF ClerkStates, AtDesk, Judging, Deciding, Closing, Saving

\* A call goes on, in any way, without writing its row.
LEMMA LedgerClerkStep ==
  ASSUME LedgerTypeOK, NEW c \in Clerks, NEW s \in ClerkStates,
         clerk' = [clerk EXCEPT ![c] = s],
         s.pc = "close" => s.entry \in DOMAIN journal,
         journal' \in Seq(JournalEntry), DOMAIN journal \subseteq DOMAIN journal'
  PROVE  /\ clerk' \in [Clerks -> ClerkStates]
         /\ \A d \in Clerks : clerk'[d].pc = "close" => clerk'[d].entry \in DOMAIN journal'
         /\ clerk'[c] = s
         /\ \A d \in Clerks : d # c => clerk'[d] = clerk[d]
<1>1. clerk \in [Clerks -> ClerkStates]
  BY DEF LedgerTypeOK, ClerkStates
<1>2. \A d \in Clerks : clerk[d].pc = "close" => clerk[d].entry \in DOMAIN journal
  BY DEF LedgerTypeOK
<1>3. QED
  BY <1>1, <1>2

LEMMA LedgerTypeInit == LedgerInit => LedgerTypeOK
<1> SUFFICES ASSUME LedgerInit PROVE LedgerTypeOK
  OBVIOUS
<1>1. {MaxEntries, MaxOutcomes, MaxSaves, LastDay} \subseteq Nat
  BY LedgerAssumption
<1>2. [pc |-> "idle"] \in AtDesk
  BY DEF AtDesk
<1>3. limits = {} /\ Cardinality(limits) = 0
  BY FS_EmptySet DEF LedgerInit
<1>4. journal \in Seq(JournalEntry)
  BY DEF LedgerInit
<1>5. clerk \in [Clerks -> AtDesk \cup Judging \cup Deciding \cup Closing \cup Saving]
        /\ \A c \in Clerks : clerk[c].pc = "idle"
  BY <1>2 DEF LedgerInit
<1>6. /\ day = 0 /\ limits = {} /\ closings = 0 /\ entries = 0 /\ saves = 0
      /\ highest = 0 /\ crowded = FALSE
  BY DEF LedgerInit
<1>7. /\ day \in 0 .. LastDay /\ closings \in 0 .. MaxOutcomes
      /\ entries \in 0 .. MaxEntries /\ saves \in 0 .. MaxSaves /\ highest \in Nat
  BY <1>1, <1>6
<1>8. limits \in SUBSET AnyLimits /\ Cardinality(limits) <= 1
  BY <1>3
<1>9. crowded \in BOOLEAN
  BY <1>6
<1>10. QED
  BY <1>4, <1>5, <1>7, <1>8, <1>9 DEF LedgerTypeOK

LEMMA LedgerTypeStep == LedgerTypeOK /\ [LedgerNext]_ledgerVars => LedgerTypeOK'
<1> SUFFICES ASSUME LedgerTypeOK, [LedgerNext]_ledgerVars PROVE LedgerTypeOK'
  OBVIOUS
<1>0. /\ {MaxEntries, MaxOutcomes, MaxSaves, MaxJournalCalls, LastDay} \subseteq Nat
      /\ RiskAmount \in [Plans -> Nat] /\ AnyLimits \subseteq LimitsType
  BY LedgerAssumption
<1>t. /\ day \in 0 .. LastDay
      /\ limits \in SUBSET AnyLimits /\ Cardinality(limits) <= 1
      /\ journal \in Seq(JournalEntry)
      /\ clerk \in [Clerks -> ClerkStates]
      /\ closings \in 0 .. MaxOutcomes /\ entries \in 0 .. MaxEntries
      /\ saves \in 0 .. MaxSaves
      /\ highest \in Nat /\ crowded \in BOOLEAN
  BY DEF LedgerTypeOK, ClerkStates
<1>g. ASSUME NEW c \in Clerks, NEW s \in ClerkStates,
             clerk' = [clerk EXCEPT ![c] = s],
             s.pc = "close" => s.entry \in DOMAIN journal,
             journal' \in Seq(JournalEntry), DOMAIN journal \subseteq DOMAIN journal',
             closings' \in 0 .. MaxOutcomes, entries' \in 0 .. MaxEntries,
             saves' \in 0 .. MaxSaves, crowded' \in BOOLEAN,
             UNCHANGED day,
             \/ UNCHANGED <<limits, highest>>
             \/ /\ limits' \in SUBSET AnyLimits /\ Cardinality(limits') <= 1
                /\ highest' \in Nat
      PROVE  LedgerTypeOK'
  <2>1. /\ clerk' \in [Clerks -> ClerkStates]
        /\ \A d \in Clerks : clerk'[d].pc = "close" => clerk'[d].entry \in DOMAIN journal'
    BY <1>g, LedgerClerkStep
  <2>2. /\ limits' \in SUBSET AnyLimits /\ Cardinality(limits') <= 1 /\ highest' \in Nat
    BY <1>t, <1>g
  <2>3. QED
    BY <1>t, <1>g, <2>1, <2>2 DEF LedgerTypeOK, ClerkStates
<1>i. [pc |-> "idle"] \in ClerkStates /\ [pc |-> "idle"].pc # "close"
  BY DEF ClerkStates, AtDesk
<1>1. CASE UNCHANGED ledgerVars
  BY <1>1 DEF ledgerVars, LedgerTypeOK
<1>2. CASE NextDay
  <2>1. day' \in 0 .. LastDay
    BY <1>0, <1>t, <1>2 DEF NextDay
  <2>2. QED
    BY <1>t, <1>2, <2>1 DEF NextDay, LedgerTypeOK
<1>3. ASSUME NEW c \in Clerks, NEW b \in Plans, NEW d \in Decisions, BeginDecision(c, b, d)
      PROVE  LedgerTypeOK'
  <2> DEFINE s == [pc |-> "limits", brief |-> b, decision |-> d, limits |-> {}]
  <2>1. s \in ClerkStates /\ s.pc = "limits"
    BY DEF ClerkStates, Judging
  <2>2. entries' \in 0 .. MaxEntries /\ crowded' \in BOOLEAN
    BY <1>0, <1>t, <1>3 DEF BeginDecision, Begin
  <2>3. clerk' = [clerk EXCEPT ![c] = s]
    BY <1>3 DEF BeginDecision, Begin
  <2>4. UNCHANGED <<day, limits, journal, closings, saves, highest>>
    BY <1>3 DEF BeginDecision
  <2> HIDE DEF s
  <2>5. QED
    BY <1>t, <1>g, <2>1, <2>2, <2>3, <2>4
<1>4. ASSUME NEW c \in Clerks, ReadLimits(c)
      PROVE  LedgerTypeOK'
  <2> DEFINE s == [clerk[c] EXCEPT !.pc = "stats", !.limits = limits]
  <2>1. s \in ClerkStates /\ s.pc = "stats"
    <3>1. clerk[c] \in Judging
      BY <1>t, <1>4, LedgerStates DEF ReadLimits, Does
    <3>2. QED
      BY <1>t, <3>1 DEF ClerkStates, Judging
  <2>2. clerk' = [clerk EXCEPT ![c] = s] /\ UNCHANGED crowded
    BY <1>4 DEF ReadLimits, GoOn
  <2>3. UNCHANGED <<day, limits, journal, closings, entries, saves, highest>>
    BY <1>4 DEF ReadLimits
  <2> HIDE DEF s
  <2>4. QED
    BY <1>t, <1>g, <2>1, <2>2, <2>3
<1>5. ASSUME NEW c \in Clerks, Judge(c)
      PROVE  LedgerTypeOK'
  <2> DEFINE s == [pc |-> "record", brief |-> clerk[c].brief,
                   decision |-> clerk[c].decision,
                   gate |-> evaluate(clerk[c].decision, clerk[c].brief, clerk[c].limits)]
  <2>1. s \in ClerkStates /\ s.pc = "record"
    <3>1. clerk[c] \in Judging
      BY <1>t, <1>5, LedgerStates DEF Judge, Does
    <3>2. evaluate(clerk[c].decision, clerk[c].brief, clerk[c].limits) \in Gates
      BY DEF evaluate, Gates
    <3>3. QED
      BY <3>1, <3>2 DEF ClerkStates, Judging, Deciding
  <2>2. clerk' = [clerk EXCEPT ![c] = s] /\ UNCHANGED crowded
    BY <1>5 DEF Judge, GoOn
  <2>3. UNCHANGED <<day, limits, journal, closings, entries, saves, highest>>
    BY <1>5 DEF Judge
  <2> HIDE DEF s
  <2>4. QED
    BY <1>t, <1>g, <2>1, <2>2, <2>3
<1>6. ASSUME NEW c \in Clerks, RecordDecision(c)
      PROVE  LedgerTypeOK'
  <2> DEFINE e == [brief |-> clerk[c].brief, decision |-> clerk[c].decision,
                   gate |-> clerk[c].gate, decided |-> day, outcome |-> "",
                   realized |-> 0, closed |-> 0, closed_on |-> 0]
  <2>1. e \in JournalEntry
    <3>1. clerk[c] \in Deciding
      BY <1>t, <1>6, LedgerStates DEF RecordDecision, Does
    <3>2. /\ clerk[c].brief \in Plans /\ clerk[c].decision \in Decisions
          /\ clerk[c].gate \in Gates
      BY <3>1 DEF Deciding
    <3>3. 0 \in 0 .. LastDay /\ "" \in {""} \cup Outcomes
      BY <1>0
    <3>4. QED
      BY <1>t, <3>2, <3>3 DEF JournalEntry
  <2>2. journal' = Append(journal, e)
    BY <1>6 DEF RecordDecision
  <2> HIDE DEF e
  <2>3. journal' \in Seq(JournalEntry) /\ DOMAIN journal \subseteq DOMAIN journal'
    BY <1>t, <2>1, <2>2
  <2>4. clerk' = [clerk EXCEPT ![c] = [pc |-> "idle"]]
          /\ UNCHANGED <<day, limits, closings, entries, saves, highest, crowded>>
    BY <1>6 DEF RecordDecision, Leave, GoOn
  <2>5. QED
    BY <1>t, <1>g, <1>i, <2>3, <2>4
<1>7. ASSUME NEW c \in Clerks, NEW i \in 1 .. MaxEntries, NEW o \in Outcomes,
             NEW priced \in BOOLEAN, BeginOutcome(c, i, o, priced)
      PROVE  LedgerTypeOK'
  <2> DEFINE r == IF o = "CLOSED_LOSS" /\ priced THEN RiskAmount[journal[i].brief] ELSE 0
             s == [pc |-> "close", entry |-> i, outcome |-> o, realized |-> r,
                   closed |-> closings + 1, closed_on |-> day]
  <2>1. /\ i \in DOMAIN journal /\ clerk' = [clerk EXCEPT ![c] = s]
        /\ crowded' \in BOOLEAN /\ closings < MaxOutcomes /\ closings' = closings + 1
        /\ UNCHANGED <<day, limits, journal, entries, saves, highest>>
    BY <1>7 DEF BeginOutcome, Begin
  <2>2. r \in Nat
    <3>1. journal[i] \in JournalEntry
      BY <1>t, <2>1
    <3>2. QED
      BY <1>0, <3>1 DEF JournalEntry
  <2> HIDE DEF r
  <2>3. s \in ClerkStates /\ s.entry = i
    BY <1>0, <1>t, <2>2 DEF ClerkStates, Closing
  <2> HIDE DEF s
  <2>4. closings' \in 0 .. MaxOutcomes
    BY <1>0, <1>t, <2>1
  <2>5. QED
    BY <1>t, <1>g, <2>1, <2>3, <2>4
<1>8. ASSUME NEW c \in Clerks, RecordOutcome(c)
      PROVE  LedgerTypeOK'
  <2>1. clerk[c] \in Closing /\ clerk[c].entry \in DOMAIN journal
    BY <1>t, <1>8, LedgerStates DEF RecordOutcome, Does, LedgerTypeOK
  <2>2. PICK me : me = clerk[c]
    OBVIOUS
  <2>3. PICK k, j : k = me.entry /\ j = journal[k]
    OBVIOUS
  <2>4. j \in JournalEntry /\ me \in Closing /\ k \in DOMAIN journal
    BY <1>t, <2>1, <2>2, <2>3
  <2>5. journal' = [journal EXCEPT ![k] =
          [j EXCEPT !.outcome = me.outcome, !.realized = me.realized,
                    !.closed = me.closed, !.closed_on = me.closed_on]]
    BY <1>t, <1>8, <2>2, <2>3, <2>4 DEF RecordOutcome
  <2>6. [j EXCEPT !.outcome = me.outcome, !.realized = me.realized,
                  !.closed = me.closed, !.closed_on = me.closed_on] \in JournalEntry
    BY <2>4 DEF JournalEntry, Closing
  <2>7. journal' \in Seq(JournalEntry) /\ DOMAIN journal \subseteq DOMAIN journal'
    BY <1>t, <2>4, <2>5, <2>6
  <2>8. clerk' = [clerk EXCEPT ![c] = [pc |-> "idle"]]
          /\ UNCHANGED <<day, limits, closings, entries, saves, highest, crowded>>
    BY <1>8 DEF RecordOutcome, Leave, GoOn
  <2>9. QED
    BY <1>t, <1>g, <1>i, <2>7, <2>8
<1>9. ASSUME NEW c \in Clerks, NEW l \in AnyLimits, BeginSave(c, l)
      PROVE  LedgerTypeOK'
  <2> DEFINE s == [pc |-> "save", limits |-> l]
  <2>1. s \in ClerkStates /\ s.pc = "save"
    BY DEF ClerkStates, Saving
  <2>2. saves' \in 0 .. MaxSaves /\ crowded' \in BOOLEAN
    BY <1>0, <1>t, <1>9 DEF BeginSave, Begin
  <2>3. clerk' = [clerk EXCEPT ![c] = s]
          /\ UNCHANGED <<day, limits, journal, closings, entries, highest>>
    BY <1>9 DEF BeginSave, Begin
  <2> HIDE DEF s
  <2>4. QED
    BY <1>t, <1>g, <2>1, <2>2, <2>3
<1>10. ASSUME NEW c \in Clerks, ReadRow(c)
       PROVE  LedgerTypeOK'
  <2> DEFINE s == [clerk[c] EXCEPT !.pc = IF limits = {} THEN "insert" ELSE "update"]
  <2>1. s \in ClerkStates /\ s.pc # "close"
    <3>1. clerk[c] \in Saving
      BY <1>t, <1>10, LedgerStates DEF ReadRow, Does
    <3>2. QED
      BY <3>1 DEF ClerkStates, Saving
  <2>2. clerk' = [clerk EXCEPT ![c] = s] /\ UNCHANGED crowded
          /\ UNCHANGED <<day, limits, journal, closings, entries, saves, highest>>
    BY <1>10 DEF ReadRow, GoOn
  <2> HIDE DEF s
  <2>3. QED
    BY <1>t, <1>g, <2>1, <2>2
<1>11. ASSUME NEW c \in Clerks, SaveRow(c)
       PROVE  LedgerTypeOK'
  <2>1. clerk[c] \in Saving
    BY <1>t, <1>11, LedgerStates DEF SaveRow, Does
  <2>2. PICK l : l = clerk[c].limits
    OBVIOUS
  <2>3. l \in AnyLimits /\ l.max_trades_per_day \in Nat
    BY <1>0, <2>1, <2>2 DEF Saving, LimitsType
  <2>4. \/ UNCHANGED <<limits, highest>>
        \/ /\ limits' = {l}
           /\ highest' = IF l.max_trades_per_day > highest THEN l.max_trades_per_day
                         ELSE highest
    BY <1>11, <2>2 DEF SaveRow
  <2>5. \/ UNCHANGED <<limits, highest>>
        \/ /\ limits' \in SUBSET AnyLimits /\ Cardinality(limits') <= 1
           /\ highest' \in Nat
    <3>1. CASE UNCHANGED <<limits, highest>>
      BY <3>1
    <3>2. CASE ~UNCHANGED <<limits, highest>>
      <4>1. PICK row : row = {l}
        OBVIOUS
      <4>2. limits' = row /\ Cardinality(row) = 1
        BY <2>4, <3>2, <4>1, FS_Singleton
      <4>3. highest' \in Nat
        BY <1>t, <2>3, <2>4, <3>2
      <4>4. limits' \in SUBSET AnyLimits
        BY <2>3, <4>1, <4>2
      <4>5. QED
        BY <4>2, <4>3, <4>4
    <3>3. QED
      BY <3>1, <3>2
  <2>6. clerk' = [clerk EXCEPT ![c] = [pc |-> "idle"]]
          /\ UNCHANGED <<day, journal, closings, entries, saves, crowded>>
    BY <1>11 DEF SaveRow, Leave, GoOn
  <2>7. QED
    BY <1>t, <1>g, <1>i, <2>5, <2>6
<1>12. QED
  BY <1>1, <1>2, <1>3, <1>4, <1>5, <1>6, <1>7, <1>8, <1>9, <1>10, <1>11 DEF LedgerNext

-----------------------------------------------------------------------------
\* The calls that have been told to take, and have not written it yet.
Pending ==
  {c \in Clerks : /\ Does(c, "record")
                  /\ clerk[c].decision = "TAKE" /\ clerk[c].gate = "ACCEPTED"}

Slack == IF crowded THEN Cardinality(Clerks) - 1 ELSE 0

Within(ls, bound) == \A l \in ls : l.max_trades_per_day <= bound

LimitsKnown ==
  /\ Within(limits, highest)
  /\ \A c \in Clerks : clerk[c].pc \in {"limits", "stats"} =>
       Within(clerk[c].limits, highest)

AloneUnlessCrowded ==
  /\ crowded => Clerks # {}
  /\ ~crowded => \A c, d \in Clerks : ~Does(c, "idle") /\ ~Does(d, "idle") => c = d

NothingFromTheFuture == \A i \in DOMAIN journal : journal[i].decided <= day

\* What is pending has room left, whatever day it will be written on.
RoomForPending ==
  Pending # {} =>
    /\ highest >= 1
    /\ Cardinality(TradesOf(day)) + Cardinality(Pending) <= highest + Slack

TradesInv ==
  /\ LimitsKnown /\ AloneUnlessCrowded /\ NothingFromTheFuture
  /\ RoomForPending /\ TradesPerDay

LEMMA SizeOfPending ==
  ASSUME NEW P \in SUBSET Clerks, NEW full \in BOOLEAN,
         full \/ \A c, d \in P : c = d
  PROVE  /\ IsFiniteSet(P) /\ Cardinality(P) \in Nat /\ Cardinality(Clerks) \in Nat
         /\ Cardinality(P) <= 1 + (IF full THEN Cardinality(Clerks) - 1 ELSE 0)
<1>1. IsFiniteSet(Clerks)
  BY LedgerAssumption
<1>2. /\ IsFiniteSet(P) /\ Cardinality(P) \in Nat /\ Cardinality(Clerks) \in Nat
      /\ Cardinality(P) <= Cardinality(Clerks)
  BY <1>1, FS_Subset, FS_CardinalityType
<1>3. CASE full
  BY <1>2, <1>3
<1>4. CASE ~full
  <2>1. CASE P = {}
    BY <1>2, <1>4, <2>1, FS_EmptySet
  <2>2. CASE P # {}
    <3>1. PICK c : P = {c}
      BY <1>4, <2>2
    <3>2. Cardinality({c}) = 1
      BY FS_Singleton
    <3>3. QED
      BY <1>2, <1>4, <3>1, <3>2
  <2>3. QED
    BY <2>1, <2>2
<1>5. QED
  BY <1>3, <1>4, <1>2

LEMMA TradesAreFinite ==
  ASSUME LedgerTypeOK, NEW d
  PROVE  IsFiniteSet(TradesOf(d)) /\ Cardinality(TradesOf(d)) \in Nat
<1>1. DOMAIN journal = 1 .. Len(journal) /\ Len(journal) \in Nat
  BY DEF LedgerTypeOK
<1>2. IsFiniteSet(1 .. Len(journal))
  BY <1>1, FS_Interval
<1>3. TradesOf(d) \subseteq 1 .. Len(journal)
  BY <1>1 DEF TradesOf
<1>4. QED
  BY <1>2, <1>3, FS_Subset, FS_CardinalityType

\* How a call of c may leave the others: it begins while they rest, or is
\* crowded, or has begun before.
Crowds(c, s) ==
  \/ crowded' = (crowded \/ \E d \in Clerks \ {c} : ~Does(d, "idle"))
  \/ UNCHANGED crowded /\ (clerk[c].pc # "idle" \/ s.pc = "idle")

LEMMA LedgerAlone ==
  ASSUME LedgerTypeOK, AloneUnlessCrowded, NEW c \in Clerks, NEW s,
         clerk' = [clerk EXCEPT ![c] = s], Crowds(c, s)
  PROVE  AloneUnlessCrowded' /\ (crowded => crowded')
<1>1. clerk \in [Clerks -> ClerkStates] /\ crowded \in BOOLEAN
  BY DEF LedgerTypeOK, ClerkStates
<1>2. clerk'[c] = s /\ \A d \in Clerks : d # c => clerk'[d] = clerk[d]
  BY <1>1
<1>3. crowded' \in BOOLEAN /\ (crowded => crowded')
  BY <1>1 DEF Crowds
<1>4. ASSUME ~crowded', NEW d \in Clerks, NEW e \in Clerks,
             clerk'[d].pc # "idle", clerk'[e].pc # "idle"
      PROVE  d = e
  <2>1. ~crowded
    BY <1>3, <1>4
  <2>2. CASE UNCHANGED crowded /\ (clerk[c].pc # "idle" \/ s.pc = "idle")
    BY <1>2, <1>4, <2>1, <2>2 DEF AloneUnlessCrowded, Does
  <2>3. CASE crowded' = (crowded \/ \E f \in Clerks \ {c} : ~Does(f, "idle"))
    <3>1. \A f \in Clerks \ {c} : Does(f, "idle")
      BY <1>4, <2>3, Zenon
    <3>2. QED
      BY <1>2, <1>4, <3>1 DEF Does
  <2>4. QED
    BY <2>2, <2>3 DEF Crowds
<1>5. QED
  BY <1>3, <1>4 DEF AloneUnlessCrowded, Does

LEMMA SlackGrows ==
  ASSUME LedgerTypeOK, LedgerTypeOK', crowded => crowded', NEW c \in Clerks
  PROVE  Slack \in Nat /\ Slack' \in Nat /\ Slack <= Slack'
<1>1. IsFiniteSet(Clerks)
  BY LedgerAssumption
<1>2. Cardinality(Clerks) \in Nat /\ Cardinality(Clerks) # 0
  BY <1>1, FS_CardinalityType, FS_EmptySet
<1>3. QED
  BY <1>2 DEF Slack

\* A step that adds no trade and no pending one.
LEMMA LedgerQuiet ==
  ASSUME LedgerTypeOK, LedgerTypeOK', TradesInv, NEW c \in Clerks, NEW s,
         clerk' = [clerk EXCEPT ![c] = s], Crowds(c, s), UNCHANGED day,
         highest <= highest', Within(limits', highest'),
         s.pc \in {"limits", "stats"} => Within(s.limits, highest'),
         ~(s.pc = "record" /\ s.decision = "TAKE" /\ s.gate = "ACCEPTED"),
         \A d : TradesOf(d)' = TradesOf(d),
         NothingFromTheFuture'
  PROVE  TradesInv'
<1>1. /\ clerk \in [Clerks -> ClerkStates] /\ highest \in Nat /\ highest' \in Nat
      /\ day \in 0 .. LastDay
  BY DEF LedgerTypeOK, ClerkStates
<1>2. clerk'[c] = s /\ \A d \in Clerks : d # c => clerk'[d] = clerk[d]
  BY <1>1
<1>3. AloneUnlessCrowded' /\ (crowded => crowded')
  BY LedgerAlone DEF TradesInv
<1>4. Slack \in Nat /\ Slack' \in Nat /\ Slack <= Slack'
  BY <1>3, SlackGrows
<1>5. LimitsKnown'
  <2>1. ASSUME NEW d \in Clerks, clerk'[d].pc \in {"limits", "stats"}
        PROVE  Within(clerk'[d].limits, highest')
    <3>1. CASE d = c
      BY <1>2, <2>1, <3>1
    <3>2. CASE d # c
      <4>1. Within(clerk[d].limits, highest) /\ clerk[d].pc \in {"limits", "stats"}
        BY <1>2, <2>1, <3>2 DEF TradesInv, LimitsKnown
      <4>2. \A l \in clerk[d].limits : l.max_trades_per_day \in Nat
        BY <1>1, <4>1, LedgerStates, LedgerAssumption DEF Judging, LimitsType
      <4>3. QED
        BY <1>1, <1>2, <3>2, <4>1, <4>2 DEF Within
    <3>3. QED
      BY <3>1, <3>2
  <2>2. QED
    BY <2>1 DEF LimitsKnown
<1>6. Pending' \subseteq Pending
  BY <1>2 DEF Pending, Does
<1>7. /\ IsFiniteSet(Pending) /\ Cardinality(Pending) \in Nat
      /\ Cardinality(Pending') \in Nat /\ Cardinality(Pending') <= Cardinality(Pending)
  <2>1. Pending \subseteq Clerks /\ IsFiniteSet(Clerks)
    BY LedgerAssumption DEF Pending
  <2>2. QED
    BY <1>6, <2>1, FS_Subset, FS_CardinalityType
<1>8. RoomForPending'
  <2>1. Cardinality(TradesOf(day)) \in Nat
    BY TradesAreFinite
  <2>2. TradesOf(day)' = TradesOf(day)
    OBVIOUS
  <2>3. QED
    BY <1>1, <1>4, <1>6, <1>7, <2>1, <2>2 DEF TradesInv, RoomForPending
<1>9. TradesPerDay'
  <2> SUFFICES ASSUME NEW d \in 0 .. LastDay
               PROVE  Cardinality(TradesOf(d)') <= highest' + Slack'
    BY DEF TradesPerDay, Slack
  <2>1. Cardinality(TradesOf(d)) <= highest + Slack
    BY DEF TradesInv, TradesPerDay, Slack
  <2>2. Cardinality(TradesOf(d)) \in Nat
    BY TradesAreFinite
  <2>3. TradesOf(d)' = TradesOf(d)
    OBVIOUS
  <2>4. QED
    BY <1>1, <1>4, <2>1, <2>2, <2>3
<1>10. QED
  BY <1>3, <1>5, <1>8, <1>9 DEF TradesInv

LEMMA TradesInit == LedgerInit => TradesInv
<1> SUFFICES ASSUME LedgerInit PROVE TradesInv
  OBVIOUS
<1>1. /\ limits = {} /\ journal = << >> /\ clerk = [c \in Clerks |-> [pc |-> "idle"]]
      /\ highest = 0 /\ crowded = FALSE
  BY DEF LedgerInit
<1>2. Pending = {} /\ \A d : TradesOf(d) = {}
  BY <1>1 DEF Pending, Does, TradesOf
<1>3. TradesPerDay
  BY <1>1, <1>2, FS_EmptySet DEF TradesPerDay
<1>4. QED
  BY <1>1, <1>2, <1>3 DEF TradesInv, LimitsKnown, Within, AloneUnlessCrowded, Does,
                          NothingFromTheFuture, RoomForPending

\* An accepted TAKE was within the limits of its time.
LEMMA JudgeStep ==
  ASSUME LedgerTypeOK, LedgerTypeOK', TradesInv, NEW c \in Clerks, Judge(c)
  PROVE  TradesInv'
<1> DEFINE s == [pc |-> "record", brief |-> clerk[c].brief,
                 decision |-> clerk[c].decision,
                 gate |-> evaluate(clerk[c].decision, clerk[c].brief, clerk[c].limits)]
<1>1. /\ clerk \in [Clerks -> ClerkStates] /\ highest \in Nat /\ day \in 0 .. LastDay
      /\ crowded \in BOOLEAN
  BY DEF LedgerTypeOK, ClerkStates
<1>2. /\ clerk' = [clerk EXCEPT ![c] = s] /\ clerk[c].pc = "stats"
      /\ UNCHANGED <<day, limits, journal, highest, crowded>>
  BY DEF Judge, GoOn, Does
<1>3. /\ s.pc = "record" /\ s.decision = clerk[c].decision
      /\ s.gate = evaluate(clerk[c].decision, clerk[c].brief, clerk[c].limits)
  OBVIOUS
<1> HIDE DEF s
<1>4. /\ \A d : TradesOf(d)' = TradesOf(d)
      /\ NothingFromTheFuture' /\ Within(limits', highest') /\ Slack' = Slack
  BY <1>2 DEF TradesOf, TradesInv, NothingFromTheFuture, LimitsKnown, Within, Slack
<1>5. Crowds(c, s)
  BY <1>2 DEF Crowds
<1>6. CASE ~(s.decision = "TAKE" /\ s.gate = "ACCEPTED")
  <2>1. highest <= highest'
    BY <1>1, <1>2
  <2>2. UNCHANGED day
    BY <1>2
  <2>3. QED
    BY <1>2, <1>3, <1>4, <1>5, <1>6, <2>1, <2>2, LedgerQuiet
<1>7. CASE s.decision = "TAKE" /\ s.gate = "ACCEPTED"
  <2>1. PICK l \in clerk[c].limits : WithinTrades(l)
    BY <1>3, <1>7 DEF evaluate
  <2>2. l.max_trades_per_day \in Nat /\ l.max_trades_per_day <= highest
    <3>1. l \in AnyLimits
      BY <1>1, <1>2, <2>1, LedgerStates DEF Judging
    <3>2. Within(clerk[c].limits, highest)
      BY <1>2 DEF TradesInv, LimitsKnown
    <3>3. QED
      BY <2>1, <3>1, <3>2, LedgerAssumption DEF LimitsType, Within
  <2>3. Cardinality(TradesOf(day)) \in Nat /\ Cardinality(TradesOf(day)) + 1 <= highest
    <3>1. Cardinality(TradesOf(day)) \in Nat
      BY TradesAreFinite
    <3>2. Cardinality(TradesOf(day)) < l.max_trades_per_day
      BY <2>1 DEF WithinTrades, TradesTakenToday
    <3>3. QED
      BY <1>1, <2>2, <3>1, <3>2
  <2>4. AloneUnlessCrowded'
    BY <1>2, <1>5, LedgerAlone DEF TradesInv
  <2>5. /\ Cardinality(Pending') \in Nat /\ Slack' \in Int
        /\ Cardinality(Pending') <= 1 + Slack'
    <3>1. Pending' \subseteq Clerks
      BY DEF Pending
    <3>2. crowded' \in BOOLEAN /\ (crowded' \/ \A d, e \in Pending' : d = e)
      BY <1>1, <1>2, <2>4 DEF AloneUnlessCrowded, Pending, Does
    <3>3. QED
      BY <3>1, <3>2, SizeOfPending DEF Slack
  <2>6. RoomForPending'
    <3>1. Cardinality(TradesOf(day))' = Cardinality(TradesOf(day))
      BY <1>2 DEF TradesOf
    <3>2. QED
      BY <1>1, <1>2, <2>3, <2>5, <3>1 DEF RoomForPending
  <2>7. LimitsKnown'
    <3>1. \A d \in Clerks : clerk'[d].pc \in {"limits", "stats"} => clerk'[d] = clerk[d]
      BY <1>1, <1>2, <1>3
    <3>2. QED
      BY <1>2, <1>4, <3>1 DEF LimitsKnown, TradesInv, Within
  <2>8. TradesPerDay'
    BY <1>2 DEF TradesInv, TradesPerDay, TradesOf
  <2>9. QED
    BY <1>4, <2>4, <2>6, <2>7, <2>8 DEF TradesInv
<1>8. QED
  BY <1>6, <1>7

\* A trade that is written was pending.
LEMMA RecordStep ==
  ASSUME LedgerTypeOK, LedgerTypeOK', TradesInv, NEW c \in Clerks, RecordDecision(c)
  PROVE  TradesInv'
<1> DEFINE e == [brief |-> clerk[c].brief, decision |-> clerk[c].decision,
                 gate |-> clerk[c].gate, decided |-> day, outcome |-> "",
                 realized |-> 0, closed |-> 0, closed_on |-> 0]
<1>1. /\ clerk \in [Clerks -> ClerkStates] /\ highest \in Nat /\ day \in 0 .. LastDay
      /\ crowded \in BOOLEAN /\ journal \in Seq(JournalEntry)
  BY DEF LedgerTypeOK, ClerkStates
<1>2. /\ clerk' = [clerk EXCEPT ![c] = [pc |-> "idle"]] /\ clerk[c].pc = "record"
      /\ journal' = Append(journal, e)
      /\ UNCHANGED <<day, limits, highest, crowded>>
  BY DEF RecordDecision, Leave, GoOn, Does
<1>3. /\ e.decided = day /\ e.decision = clerk[c].decision /\ e.gate = clerk[c].gate
  OBVIOUS
<1> HIDE DEF e
<1>4. /\ DOMAIN journal' = DOMAIN journal \cup {Len(journal) + 1}
      /\ Len(journal) + 1 \notin DOMAIN journal
      /\ \A i \in DOMAIN journal : journal'[i] = journal[i]
      /\ journal'[Len(journal) + 1] = e
  BY <1>1, <1>2
<1>5. NothingFromTheFuture' /\ Within(limits', highest') /\ Slack' = Slack
      /\ Crowds(c, [pc |-> "idle"])
  <2>1. NothingFromTheFuture'
    BY <1>1, <1>2, <1>3, <1>4 DEF TradesInv, NothingFromTheFuture
  <2>2. QED
    BY <1>2, <2>1 DEF TradesInv, LimitsKnown, Within, Slack, Crowds
<1>6. CASE ~Taken(e)
  <2>1. \A d : TradesOf(d)' = TradesOf(d)
    BY <1>4, <1>6 DEF TradesOf
  <2>2. highest <= highest' /\ UNCHANGED day
    BY <1>1, <1>2
  <2>3. QED
    BY <1>2, <1>5, <2>1, <2>2, LedgerQuiet
<1>7. CASE Taken(e)
  <2>1. c \in Pending
    BY <1>2, <1>3, <1>7 DEF Pending, Does, Taken
  <2>2. Pending' = Pending \ {c}
    BY <1>1, <1>2, <2>1 DEF Pending, Does
  <2>3. /\ IsFiniteSet(Pending) /\ Cardinality(Pending) \in Nat
        /\ Cardinality(Pending') = Cardinality(Pending) - 1
        /\ Cardinality(Pending') \in Nat
    <3>1. Pending \subseteq Clerks /\ IsFiniteSet(Clerks)
      BY LedgerAssumption DEF Pending
    <3>2. QED
      BY <2>1, <2>2, <3>1, FS_Subset, FS_RemoveElement, FS_CardinalityType
  <2>4. /\ \A d : d # day => TradesOf(d)' = TradesOf(d)
        /\ TradesOf(day)' = TradesOf(day) \cup {Len(journal) + 1}
        /\ Len(journal) + 1 \notin TradesOf(day)
    <3>1. ASSUME NEW d
          PROVE  TradesOf(d)' = TradesOf(d) \cup {i \in {Len(journal) + 1} : e.decided = d}
      BY <1>4, <1>7 DEF TradesOf
    <3>2. \A d : d # day => TradesOf(d)' = TradesOf(d)
      BY <1>3, <3>1
    <3>3. TradesOf(day)' = TradesOf(day) \cup {Len(journal) + 1}
      <4>1. day' = day
        BY <1>2
      <4>2. QED
        BY SMTT(20), <1>3, <1>4, <1>7, <4>1 DEF TradesOf
    <3>4. QED
      BY <1>4, <3>2, <3>3 DEF TradesOf
  <2>5. /\ Cardinality(TradesOf(day)) \in Nat
        /\ Cardinality(TradesOf(day)') = Cardinality(TradesOf(day)) + 1
    BY <2>4, TradesAreFinite, FS_AddElement
  <2>6. Slack \in Nat
    BY SlackGrows, <1>2
  <2>7. highest >= 1
          /\ Cardinality(TradesOf(day)) + Cardinality(Pending) <= highest + Slack
    BY <2>1 DEF TradesInv, RoomForPending
  <2>8. Cardinality(Pending) >= 1
    BY <2>3
  <2>9. RoomForPending'
    <3>1. Cardinality(TradesOf(day))' = Cardinality(TradesOf(day)) + 1
      BY <1>2, <2>5
    <3>2. QED
      BY <1>1, <1>2, <1>5, <2>3, <2>5, <2>6, <2>7, <3>1 DEF RoomForPending
  <2>10. TradesPerDay'
    <3> SUFFICES ASSUME NEW d \in 0 .. LastDay
                 PROVE  Cardinality(TradesOf(d)') <= highest' + Slack'
      BY DEF TradesPerDay, Slack
    <3>1. CASE d = day
      BY <1>1, <1>2, <1>5, <2>3, <2>5, <2>6, <2>7, <2>8, <3>1
    <3>2. CASE d # day
      BY <1>2, <1>5, <2>4, <3>2 DEF TradesInv, TradesPerDay, Slack
    <3>3. QED
      BY <3>1, <3>2
  <2>11. LimitsKnown'
    <3>1. \A d \in Clerks : clerk'[d].pc \in {"limits", "stats"} => clerk'[d] = clerk[d]
      BY <1>1, <1>2
    <3>2. QED
      BY <1>2, <1>5, <3>1 DEF LimitsKnown, TradesInv, Within
  <2>12. AloneUnlessCrowded'
    BY <1>2, <1>5, LedgerAlone DEF TradesInv
  <2>13. QED
    BY <1>5, <2>9, <2>10, <2>11, <2>12 DEF TradesInv
<1>8. QED
  BY <1>6, <1>7

\* What is pending may be written on the next day, which has no trade yet.
LEMMA NextDayStep ==
  ASSUME LedgerTypeOK, LedgerTypeOK', TradesInv, NextDay
  PROVE  TradesInv'
<1>1. /\ day \in 0 .. LastDay /\ day' = day + 1 /\ highest \in Nat /\ crowded \in BOOLEAN
      /\ UNCHANGED <<limits, journal, clerk, highest, crowded>>
      /\ journal \in Seq(JournalEntry)
  BY DEF LedgerTypeOK, NextDay
<1>2. /\ LimitsKnown' /\ AloneUnlessCrowded' /\ TradesPerDay'
      /\ Pending' = Pending /\ Slack' = Slack
  BY <1>1 DEF TradesInv, LimitsKnown, Within, AloneUnlessCrowded, Does, TradesPerDay,
              TradesOf, Pending, Slack
<1>3. \A i \in DOMAIN journal : journal[i].decided <= day /\ journal[i].decided \in Int
  <2>1. \A i \in DOMAIN journal : journal[i] \in JournalEntry
    BY <1>1
  <2>2. \A i \in DOMAIN journal : journal[i].decided \in 0 .. LastDay
    BY <2>1 DEF JournalEntry
  <2>3. \A n \in 0 .. LastDay : n \in Int
    OBVIOUS
  <2>4. QED
    BY <2>2, <2>3 DEF TradesInv, NothingFromTheFuture
<1>4. NothingFromTheFuture'
  BY <1>1, <1>3 DEF NothingFromTheFuture
<1>5. Cardinality(TradesOf(day)') = 0
  <2>1. TradesOf(day)' = {}
    BY <1>1, <1>3 DEF TradesOf
  <2>2. QED
    BY <2>1, FS_EmptySet
<1>6. /\ Cardinality(Pending) \in Nat /\ Slack \in Int
      /\ Cardinality(Pending) <= 1 + Slack
  <2>1. Pending \subseteq Clerks
    BY DEF Pending
  <2>2. crowded \/ \A d, e \in Pending : d = e
    BY DEF TradesInv, AloneUnlessCrowded, Pending, Does
  <2>3. QED
    BY <1>1, <2>1, <2>2, SizeOfPending DEF Slack
<1>7. RoomForPending'
  <2>1. Cardinality(TradesOf(day))' = 0
    BY <1>5
  <2>2. QED
    BY <1>1, <1>2, <1>6, <2>1 DEF TradesInv, RoomForPending
<1>8. QED
  BY <1>2, <1>4, <1>7 DEF TradesInv

LEMMA TradesStep ==
  LedgerTypeOK /\ LedgerTypeOK' /\ TradesInv /\ [LedgerNext]_ledgerVars => TradesInv'
<1> SUFFICES ASSUME LedgerTypeOK, LedgerTypeOK', TradesInv, [LedgerNext]_ledgerVars
             PROVE  TradesInv'
  OBVIOUS
<1>t. /\ day \in 0 .. LastDay /\ limits \in SUBSET AnyLimits
      /\ journal \in Seq(JournalEntry) /\ clerk \in [Clerks -> ClerkStates]
      /\ highest \in Nat /\ AnyLimits \subseteq LimitsType
  BY LedgerAssumption DEF LedgerTypeOK, ClerkStates
<1>g. ASSUME NEW c \in Clerks, NEW s, clerk' = [clerk EXCEPT ![c] = s],
             Crowds(c, s), UNCHANGED <<day, journal>>,
             highest <= highest', Within(limits', highest'),
             s.pc \in {"limits", "stats"} => Within(s.limits, highest'),
             s.pc # "record"
      PROVE  TradesInv'
  <2>1. (\A d : TradesOf(d)' = TradesOf(d)) /\ NothingFromTheFuture'
    BY <1>g DEF TradesOf, TradesInv, NothingFromTheFuture
  <2>2. UNCHANGED day
    BY <1>g
  <2>3. QED
    BY <1>g, <2>1, <2>2, LedgerQuiet
<1>h. ASSUME UNCHANGED <<limits, highest>>
      PROVE  highest <= highest' /\ Within(limits', highest')
  BY <1>t, <1>h DEF TradesInv, LimitsKnown, Within
<1>1. CASE UNCHANGED ledgerVars
  BY <1>1 DEF ledgerVars, TradesInv, LimitsKnown, Within, AloneUnlessCrowded, Does,
              NothingFromTheFuture, RoomForPending, Pending, TradesPerDay, TradesOf, Slack
<1>2. CASE NextDay
  BY <1>2, NextDayStep
<1>3. ASSUME NEW c \in Clerks, NEW b \in Plans, NEW d \in Decisions, BeginDecision(c, b, d)
      PROVE  TradesInv'
  <2> DEFINE s == [pc |-> "limits", brief |-> b, decision |-> d, limits |-> {}]
  <2>1. /\ clerk' = [clerk EXCEPT ![c] = s] /\ Crowds(c, s)
        /\ UNCHANGED <<day, limits, journal, highest>>
    BY <1>3 DEF BeginDecision, Begin, Crowds
  <2>2. s.pc = "limits" /\ s.limits = {}
    OBVIOUS
  <2> HIDE DEF s
  <2>3. Within(s.limits, highest')
    BY <2>2 DEF Within
  <2>4. QED
    BY <1>g, <1>h, <2>1, <2>2, <2>3
<1>4. ASSUME NEW c \in Clerks, ReadLimits(c)
      PROVE  TradesInv'
  <2> DEFINE s == [clerk[c] EXCEPT !.pc = "stats", !.limits = limits]
  <2>1. /\ clerk' = [clerk EXCEPT ![c] = s] /\ UNCHANGED crowded
        /\ clerk[c].pc = "limits" /\ UNCHANGED <<day, limits, journal, highest>>
    BY <1>4 DEF ReadLimits, GoOn, Does
  <2>2. s.pc = "stats" /\ s.limits = limits
    <3>1. clerk[c] \in Judging
      BY <1>t, <2>1, LedgerStates
    <3>2. QED
      BY <3>1 DEF Judging
  <2> HIDE DEF s
  <2>3. Within(s.limits, highest')
    BY <2>1, <2>2 DEF TradesInv, LimitsKnown
  <2>4. Crowds(c, s)
    BY <2>1 DEF Crowds
  <2>5. QED
    BY <1>g, <1>h, <2>1, <2>2, <2>3, <2>4
<1>5. ASSUME NEW c \in Clerks, NEW i \in 1 .. MaxEntries, NEW o \in Outcomes,
             NEW priced \in BOOLEAN, BeginOutcome(c, i, o, priced)
      PROVE  TradesInv'
  <2>1. PICK s : /\ s.pc = "close" /\ clerk' = [clerk EXCEPT ![c] = s] /\ Crowds(c, s)
                 /\ UNCHANGED <<day, limits, journal, highest>>
    <3> DEFINE s == [pc |-> "close", entry |-> i, outcome |-> o,
                     realized |-> IF o = "CLOSED_LOSS" /\ priced
                                  THEN RiskAmount[journal[i].brief] ELSE 0,
                     closed |-> closings + 1, closed_on |-> day]
    <3>1. s.pc = "close"
      OBVIOUS
    <3>2. /\ clerk' = [clerk EXCEPT ![c] = s] /\ Crowds(c, s)
          /\ UNCHANGED <<day, limits, journal, highest>>
      BY <1>5 DEF BeginOutcome, Begin, Crowds
    <3> HIDE DEF s
    <3>3. QED
      BY <3>1, <3>2
  <2>2. QED
    BY <1>g, <1>h, <2>1
<1>6. ASSUME NEW c \in Clerks, RecordOutcome(c)
      PROVE  TradesInv'
  <2>1. clerk[c] \in Closing /\ clerk[c].entry \in DOMAIN journal
    BY <1>t, <1>6, LedgerStates DEF RecordOutcome, Does, LedgerTypeOK
  <2>2. PICK me, k, j : me = clerk[c] /\ k = me.entry /\ j = journal[k]
    OBVIOUS
  <2>3. j \in JournalEntry /\ k \in DOMAIN journal
    BY <1>t, <2>1, <2>2
  <2>4. journal' = [journal EXCEPT ![k] =
          [j EXCEPT !.outcome = me.outcome, !.realized = me.realized,
                    !.closed = me.closed, !.closed_on = me.closed_on]]
    BY <1>t, <1>6, <2>2, <2>3 DEF RecordOutcome
  <2>5. \A i \in DOMAIN journal :
          /\ Taken(journal'[i]) = Taken(journal[i])
          /\ journal'[i].decided = journal[i].decided
    BY <1>t, <2>2, <2>3, <2>4 DEF Taken, JournalEntry
  <2>6. DOMAIN journal' = DOMAIN journal
    BY <1>t, <2>4
  <2>7. /\ clerk' = [clerk EXCEPT ![c] = [pc |-> "idle"]] /\ Crowds(c, [pc |-> "idle"])
        /\ UNCHANGED day /\ UNCHANGED <<limits, highest>>
    BY <1>6 DEF RecordOutcome, Leave, GoOn, Crowds
  <2>8. (\A d : TradesOf(d)' = TradesOf(d)) /\ NothingFromTheFuture'
    BY <2>5, <2>6, <2>7 DEF TradesOf, TradesInv, NothingFromTheFuture
  <2>9. QED
    BY <1>h, <2>7, <2>8, LedgerQuiet
<1>7. ASSUME NEW c \in Clerks, NEW l \in AnyLimits, BeginSave(c, l)
      PROVE  TradesInv'
  <2> DEFINE s == [pc |-> "save", limits |-> l]
  <2>1. /\ clerk' = [clerk EXCEPT ![c] = s] /\ Crowds(c, s)
        /\ UNCHANGED <<day, limits, journal, highest>>
    BY <1>7 DEF BeginSave, Begin, Crowds
  <2>2. s.pc = "save"
    OBVIOUS
  <2> HIDE DEF s
  <2>3. QED
    BY <1>g, <1>h, <2>1, <2>2
<1>8. ASSUME NEW c \in Clerks, ReadRow(c)
      PROVE  TradesInv'
  <2> DEFINE s == [clerk[c] EXCEPT !.pc = IF limits = {} THEN "insert" ELSE "update"]
  <2>1. /\ clerk' = [clerk EXCEPT ![c] = s] /\ UNCHANGED crowded
        /\ clerk[c].pc = "save" /\ UNCHANGED <<day, limits, journal, highest>>
    BY <1>8 DEF ReadRow, GoOn, Does
  <2>2. s.pc \in {"insert", "update"}
    <3>1. clerk[c] \in Saving
      BY <1>t, <2>1, LedgerStates
    <3>2. QED
      BY <3>1 DEF Saving
  <2> HIDE DEF s
  <2>3. Crowds(c, s)
    BY <2>1 DEF Crowds
  <2>4. QED
    BY <1>g, <1>h, <2>1, <2>2, <2>3
<1>9. ASSUME NEW c \in Clerks, SaveRow(c)
      PROVE  TradesInv'
  <2>1. clerk[c] \in Saving
    BY <1>t, <1>9, LedgerStates DEF SaveRow, Does
  <2>2. PICK l : l = clerk[c].limits
    OBVIOUS
  <2>3. l \in AnyLimits /\ l.max_trades_per_day \in Nat
    BY <1>t, <2>1, <2>2 DEF Saving, LimitsType
  <2>4. \/ UNCHANGED <<limits, highest>>
        \/ /\ limits' = {l}
           /\ highest' = IF l.max_trades_per_day > highest THEN l.max_trades_per_day
                         ELSE highest
    BY <1>9, <2>2 DEF SaveRow
  <2>5. highest <= highest' /\ Within(limits', highest')
    BY <1>h, <1>t, <2>3, <2>4 DEF Within
  <2>6. /\ clerk' = [clerk EXCEPT ![c] = [pc |-> "idle"]] /\ Crowds(c, [pc |-> "idle"])
        /\ UNCHANGED <<day, journal>>
    BY <1>9 DEF SaveRow, Leave, GoOn, Crowds
  <2>7. QED
    BY <1>g, <2>5, <2>6
<1>10. QED
  BY <1>1, <1>2, <1>3, <1>4, <1>5, <1>6, <1>7, <1>8, <1>9, JudgeStep, RecordStep
  DEF LedgerNext

\* However many processes decide at a time and however the limits change, a day
\* has no more accepted TAKEs than the limits ever allowed, and one for each
\* other process.
THEOREM TradesStayWithinLimits == LedgerSpec => []TradesPerDay
<1>1. LedgerInit => LedgerTypeOK /\ TradesInv
  BY LedgerTypeInit, TradesInit
<1>2. LedgerTypeOK /\ TradesInv /\ [LedgerNext]_ledgerVars => (LedgerTypeOK /\ TradesInv)'
  BY LedgerTypeStep, TradesStep
<1>3. LedgerTypeOK /\ TradesInv => TradesPerDay
  BY DEF TradesInv
<1>4. QED
  BY <1>1, <1>2, <1>3, PTL DEF LedgerSpec

-----------------------------------------------------------------------------
\* What an accepted TAKE needs of l besides room for one more trade.
Safe(l) == LossOn(day) < l.max_daily_loss /\ NoLossStreak(l)

ClosedByNow ==
  /\ \A i \in DOMAIN journal : journal[i].closed_on <= day
  /\ \A c \in Clerks : Does(c, "close") => clerk[c].closed_on <= day

\* With calls one at a time, what a decision was judged on still stands when it
\* is written, or the day has ended and no loss is of the new one.
JudgedOnWhatStands ==
  ~crowded =>
    \A c \in Clerks : /\ Does(c, "stats") => clerk[c].limits = limits
                      /\ c \in Pending => \A l \in limits : Safe(l)

OneRow == \A l, m \in limits : l = m

LossInv == AloneUnlessCrowded /\ OneRow /\ ClosedByNow /\ JudgedOnWhatStands

LEMMA LossesAreNats ==
  ASSUME LedgerTypeOK, NEW d
  PROVE  LossOn(d) \in Nat
<1>1. /\ journal \in Seq(JournalEntry)
      /\ DOMAIN journal = 1 .. Len(journal) /\ Len(journal) \in Nat
  BY DEF LedgerTypeOK
<1>2. \A i \in DOMAIN journal : journal[i].realized \in Nat
  <2>1. \A i \in DOMAIN journal : journal[i] \in JournalEntry
    BY <1>1
  <2>2. QED
    BY <2>1 DEF JournalEntry
<1>3. PICK f, S : /\ f = [i \in DOMAIN journal |-> journal[i].realized]
                  /\ S = {i \in Losses : journal[i].closed_on = d}
  OBVIOUS
<1>4. S \subseteq 1 .. Len(journal)
  BY <1>1, <1>3 DEF Losses
<1>5. IsFiniteSet(S)
  <2>1. IsFiniteSet(1 .. Len(journal))
    BY <1>1, FS_Interval
  <2>2. QED
    BY <1>4, <2>1, FS_Subset
<1>6. \A x \in S : f[x] \in Nat
  BY <1>1, <1>2, <1>3, <1>4
<1>7. SumOver(f, S) \in Nat
  BY <1>5, <1>6, SumOfNats
<1>8. QED
  BY <1>3, <1>7 DEF LossOn, Lost

\* The losses after the last outcome of another kind are a streak of the newest.
LEMMA CooldownIsNoStreak ==
  ASSUME LedgerTypeOK, NEW l \in LimitsType, OutOfCooldown(l)
  PROVE  NoLossStreak(l)
<1> DEFINE Ended  == {i \in DOMAIN journal : journal[i].outcome \in Closed}
           Newer(i) == {j \in Ended : journal[j].closed > journal[i].closed}
           Newest == {i \in Ended : Cardinality(Newer(i)) < l.loss_streak_cooldown}
           Streak == {i \in DOMAIN journal :
                        /\ journal[i].outcome = "CLOSED_LOSS"
                        /\ \A j \in DOMAIN journal :
                             journal[j].outcome \in Closed \ {"CLOSED_LOSS"} =>
                               journal[j].closed < journal[i].closed}
<1>1. /\ journal \in Seq(JournalEntry)
      /\ DOMAIN journal = 1 .. Len(journal) /\ Len(journal) \in Nat
  BY DEF LedgerTypeOK
<1>2. \A i \in DOMAIN journal : journal[i].closed \in Nat
  <2>1. \A i \in DOMAIN journal : journal[i] \in JournalEntry
    BY <1>1
  <2>2. QED
    BY <2>1 DEF JournalEntry
<1>3. l.loss_streak_cooldown \in Nat
  BY DEF LimitsType
<1>4. IsFiniteSet(DOMAIN journal)
  BY <1>1, FS_Interval
<1>5. SUFFICES ASSUME l.loss_streak_cooldown > 0,
                      Cardinality(Newest) = l.loss_streak_cooldown,
                      \A i \in Newest : journal[i].outcome = "CLOSED_LOSS"
               PROVE  FALSE
  BY DEF NoLossStreak
<1>6. ASSUME NEW i \in Newest PROVE i \in Streak
  <2>1. SUFFICES ASSUME NEW j \in Ended, journal[j].outcome # "CLOSED_LOSS",
                        ~(journal[j].closed < journal[i].closed)
                 PROVE  FALSE
    BY <1>5 DEF Closed
  <2>2. journal[j].closed \in Nat /\ journal[i].closed \in Nat
    BY <1>2
  <2>3. Newer(j) \subseteq Newer(i)
    <3>1. ASSUME NEW k \in Newer(j) PROVE k \in Newer(i)
      <4>1. k \in Ended /\ journal[k].closed > journal[j].closed /\ journal[k].closed \in Nat
        BY <1>2
      <4>2. journal[k].closed > journal[i].closed
        BY <2>1, <2>2, <4>1
      <4>3. QED
        BY <4>1, <4>2
    <3>2. QED
      BY <3>1
  <2>4. IsFiniteSet(Newer(i)) /\ IsFiniteSet(Newer(j))
    BY <1>4, FS_Subset
  <2>5. Cardinality(Newer(j)) <= Cardinality(Newer(i))
    BY <2>3, <2>4, FS_Subset
  <2>6. Cardinality(Newer(j)) \in Nat /\ Cardinality(Newer(i)) \in Nat
    BY <2>4, FS_CardinalityType
  <2>7. Cardinality(Newer(i)) < l.loss_streak_cooldown
    BY <1>6
  <2> HIDE DEF Newer
  <2>8. Cardinality(Newer(j)) < l.loss_streak_cooldown
    BY <1>3, <2>5, <2>6, <2>7
  <2>9. j \in Newest
    BY <2>1, <2>8
  <2>10. QED
    BY <1>5, <2>1, <2>9
<1>7. IsFiniteSet(Streak) /\ Newest \subseteq Streak
  BY <1>4, <1>6, FS_Subset
<1>8. Cardinality(Streak) < l.loss_streak_cooldown
  BY <1>5 DEF OutOfCooldown, CurrentLossStreak
<1> HIDE DEF Newest, Streak
<1>9. /\ Cardinality(Newest) <= Cardinality(Streak)
      /\ Cardinality(Newest) \in Nat /\ Cardinality(Streak) \in Nat
  BY <1>7, FS_Subset, FS_CardinalityType
<1>10. QED
  BY <1>3, <1>5, <1>8, <1>9

LEMMA LossInit == LedgerInit => LossInv
<1> SUFFICES ASSUME LedgerInit PROVE LossInv
  OBVIOUS
<1>1. /\ limits = {} /\ journal = << >> /\ clerk = [c \in Clerks |-> [pc |-> "idle"]]
      /\ crowded = FALSE
  BY DEF LedgerInit
<1>2. \A c \in Clerks : clerk[c].pc = "idle"
  BY <1>1
<1>3. QED
  BY <1>1, <1>2 DEF LossInv, AloneUnlessCrowded, OneRow, ClosedByNow, JudgedOnWhatStands,
                    Does, Pending

\* A call that goes on, or ends: as it is alone, nothing else waits.
LEMMA LossStep ==
  ASSUME LedgerTypeOK, LossInv, NEW c \in Clerks, NEW s,
         clerk' = [clerk EXCEPT ![c] = s], Crowds(c, s), UNCHANGED day, OneRow',
         clerk[c].pc # "idle" \/ s.pc # "idle",
         \A i \in DOMAIN journal' : journal'[i].closed_on <= day,
         s.pc = "close" => s.closed_on <= day,
         \/ s.pc = "idle"
         \/ /\ UNCHANGED <<journal, limits>>
            /\ s.pc = "stats" => s.limits = limits
            /\ s.pc = "record" /\ s.decision = "TAKE" /\ s.gate = "ACCEPTED" =>
                 \A l \in limits : Safe(l)
  PROVE  LossInv'
<1>1. clerk \in [Clerks -> ClerkStates] /\ crowded \in BOOLEAN
  BY DEF LedgerTypeOK, ClerkStates
<1>2. clerk'[c] = s /\ \A d \in Clerks : d # c => clerk'[d] = clerk[d]
  BY <1>1
<1>3. AloneUnlessCrowded' /\ (crowded => crowded')
  BY LedgerAlone DEF LossInv
<1>4. ClosedByNow'
  BY <1>2 DEF LossInv, ClosedByNow, Does
<1>5. JudgedOnWhatStands'
  <2> SUFFICES ASSUME ~crowded', NEW d \in Clerks
               PROVE  /\ clerk'[d].pc = "stats" => clerk'[d].limits = limits'
                      /\ d \in Pending' => \A l \in limits' : Safe(l)'
    BY DEF JudgedOnWhatStands, Does
  <2>1. CASE clerk'[d].pc = "idle"
    BY <2>1 DEF Pending, Does
  <2>2. CASE clerk'[d].pc # "idle" /\ d = c
    <3>1. \A l : Safe(l)' <=> Safe(l)
      BY <1>2, <2>2 DEF Safe, LossOn, Lost, Losses, NoLossStreak
    <3>2. QED
      BY <1>2, <2>2, <3>1 DEF Pending, Does
  <2>3. CASE clerk'[d].pc # "idle" /\ d # c
    <3>1. s.pc = "idle"
      BY <1>2, <1>3, <2>3 DEF AloneUnlessCrowded, Does
    <3>2. clerk[c].pc # "idle" /\ clerk[d].pc # "idle"
      BY <1>2, <2>3, <3>1
    <3>3. ~crowded
      BY <1>3
    <3>4. QED
      BY <2>3, <3>2, <3>3 DEF LossInv, AloneUnlessCrowded, Does
  <2>4. QED
    BY <2>1, <2>2, <2>3
<1>6. QED
  BY <1>3, <1>4, <1>5 DEF LossInv

\* A TAKE that is accepted is within the limits as they stand.
LEMMA LossJudged ==
  ASSUME LedgerTypeOK, LossInv, ~crowded, NEW c \in Clerks, clerk[c].pc = "stats",
         clerk[c].decision = "TAKE",
         evaluate(clerk[c].decision, clerk[c].brief, clerk[c].limits) = "ACCEPTED"
  PROVE  \A l \in limits : Safe(l)
<1>1. limits \in SUBSET AnyLimits /\ AnyLimits \subseteq LimitsType
  BY LedgerAssumption DEF LedgerTypeOK
<1>2. clerk[c].limits = limits
  BY DEF LossInv, JudgedOnWhatStands, Does
<1>3. PICK x \in limits : WithinLoss(x) /\ OutOfCooldown(x)
  BY <1>2 DEF evaluate
<1>4. Safe(x)
  <2>1. NoLossStreak(x)
    BY <1>1, <1>3, CooldownIsNoStreak
  <2>2. QED
    BY <1>3, <2>1 DEF Safe, WithinLoss, RealizedLossToday
<1>5. \A l \in limits : l = x
  BY <1>3 DEF LossInv, OneRow
<1>6. QED
  BY <1>4, <1>5

\* No loss is of a day that has just begun.
LEMMA LossNextDay ==
  ASSUME LedgerTypeOK, LossInv, NextDay
  PROVE  LossInv'
<1>1. /\ day \in 0 .. LastDay /\ day' = day + 1
      /\ UNCHANGED <<limits, journal, clerk, crowded>>
      /\ journal \in Seq(JournalEntry) /\ clerk \in [Clerks -> ClerkStates]
      /\ limits \in SUBSET AnyLimits /\ AnyLimits \subseteq LimitsType
  BY LedgerAssumption DEF LedgerTypeOK, NextDay, ClerkStates
<1>2. \A i \in DOMAIN journal : journal[i].closed_on \in Nat /\ journal[i].closed_on <= day
  <2>1. \A i \in DOMAIN journal : journal[i] \in JournalEntry
    BY <1>1
  <2>2. \A i \in DOMAIN journal : journal[i].closed_on \in 0 .. LastDay
    BY <2>1 DEF JournalEntry
  <2>3. QED
    BY <2>2, LedgerAssumption DEF LossInv, ClosedByNow
<1>3. ClosedByNow'
  <2>1. ASSUME NEW c \in Clerks, clerk[c].pc = "close" PROVE clerk[c].closed_on <= day + 1
    <3>1. clerk[c] \in Closing
      BY <1>1, <2>1, LedgerStates
    <3>2. clerk[c].closed_on \in 0 .. LastDay /\ clerk[c].closed_on <= day
      BY <2>1, <3>1 DEF Closing, LossInv, ClosedByNow, Does
    <3>3. QED
      BY <1>1, <3>2, LedgerAssumption
  <2>2. \A i \in DOMAIN journal : journal[i].closed_on <= day + 1
    BY <1>1, <1>2
  <2>3. QED
    BY <1>1, <2>1, <2>2 DEF ClosedByNow, Does
<1>4. LossOn(day)' = 0
  <2>1. {i \in Losses' : journal'[i].closed_on = day'} = {}
    BY <1>1, <1>2 DEF Losses
  <2>2. QED
    BY <2>1, SumOfNone DEF LossOn, Lost
<1>5. \A l \in limits : Safe(l) => Safe(l)'
  <2> SUFFICES ASSUME NEW l \in limits, Safe(l) PROVE Safe(l)'
    OBVIOUS
  <2>1. NoLossStreak(l)'
    BY <1>1 DEF Safe, NoLossStreak
  <2>2. l.max_daily_loss \in Nat /\ LossOn(day) \in Nat /\ LossOn(day) < l.max_daily_loss
    BY <1>1, LossesAreNats DEF LimitsType, Safe
  <2>3. 0 < l.max_daily_loss
    BY <2>2
  <2>4. QED
    BY <1>4, <2>1, <2>3 DEF Safe
<1>6. Pending' = Pending
  BY <1>1 DEF Pending, Does
<1>7. QED
  BY <1>1, <1>3, <1>5, <1>6 DEF LossInv, AloneUnlessCrowded, OneRow, JudgedOnWhatStands, Does

LEMMA LossesStep ==
  LedgerTypeOK /\ LossInv /\ [LedgerNext]_ledgerVars => LossInv'
<1> SUFFICES ASSUME LedgerTypeOK, LossInv, [LedgerNext]_ledgerVars
             PROVE  LossInv'
  OBVIOUS
<1>t. /\ day \in 0 .. LastDay /\ limits \in SUBSET AnyLimits
      /\ journal \in Seq(JournalEntry) /\ clerk \in [Clerks -> ClerkStates]
      /\ crowded \in BOOLEAN
  BY DEF LedgerTypeOK, ClerkStates
<1>g. ASSUME NEW c \in Clerks, NEW s, clerk' = [clerk EXCEPT ![c] = s], Crowds(c, s),
             UNCHANGED <<day, journal, limits>>,
             s.pc \in {"limits", "save", "insert", "update", "stats", "close", "record"},
             s.pc = "stats" => s.limits = limits,
             s.pc = "close" => s.closed_on <= day,
             s.pc = "record" /\ s.decision = "TAKE" /\ s.gate = "ACCEPTED" =>
               \A l \in limits : Safe(l)
      PROVE  LossInv'
  <2>1. OneRow' /\ \A i \in DOMAIN journal' : journal'[i].closed_on <= day
    BY <1>g DEF LossInv, OneRow, ClosedByNow
  <2>2. s.pc # "idle"
    BY <1>g
  <2>3. QED
    BY <1>g, <2>1, <2>2, LossStep
<1>i. ASSUME NEW c \in Clerks, clerk[c].pc # "idle",
             clerk' = [clerk EXCEPT ![c] = [pc |-> "idle"]], UNCHANGED <<day, crowded>>,
             OneRow', \A i \in DOMAIN journal' : journal'[i].closed_on <= day
      PROVE  LossInv'
  <2>1. Crowds(c, [pc |-> "idle"])
    BY <1>i DEF Crowds
  <2>2. QED
    BY <1>i, <2>1, LossStep
<1>1. CASE UNCHANGED ledgerVars
  <2>1. UNCHANGED <<day, limits, journal, clerk, crowded>>
    BY <1>1 DEF ledgerVars
  <2>2. \A l : Safe(l)' <=> Safe(l)
    BY <2>1 DEF Safe, LossOn, Lost, Losses, NoLossStreak
  <2>3. Pending' = Pending
    BY <2>1 DEF Pending, Does
  <2>4. QED
    BY <2>1, <2>2, <2>3 DEF LossInv, AloneUnlessCrowded, OneRow, ClosedByNow,
                            JudgedOnWhatStands, Does
<1>2. CASE NextDay
  BY <1>2, LossNextDay
<1>3. ASSUME NEW c \in Clerks, NEW b \in Plans, NEW d \in Decisions, BeginDecision(c, b, d)
      PROVE  LossInv'
  <2> DEFINE s == [pc |-> "limits", brief |-> b, decision |-> d, limits |-> {}]
  <2>1. /\ clerk' = [clerk EXCEPT ![c] = s] /\ Crowds(c, s)
        /\ UNCHANGED <<day, journal, limits>>
    BY <1>3 DEF BeginDecision, Begin, Crowds
  <2>2. s.pc = "limits"
    OBVIOUS
  <2> HIDE DEF s
  <2>3. QED
    BY <1>g, <2>1, <2>2
<1>4. ASSUME NEW c \in Clerks, ReadLimits(c)
      PROVE  LossInv'
  <2> DEFINE s == [clerk[c] EXCEPT !.pc = "stats", !.limits = limits]
  <2>1. /\ clerk' = [clerk EXCEPT ![c] = s] /\ UNCHANGED crowded
        /\ clerk[c].pc = "limits" /\ UNCHANGED <<day, journal, limits>>
    BY <1>4 DEF ReadLimits, GoOn, Does
  <2>2. s.pc = "stats" /\ s.limits = limits
    <3>1. clerk[c] \in Judging
      BY <1>t, <2>1, LedgerStates
    <3>2. QED
      BY <3>1 DEF Judging
  <2> HIDE DEF s
  <2>3. Crowds(c, s)
    BY <2>1 DEF Crowds
  <2>4. QED
    BY <1>g, <2>1, <2>2, <2>3
<1>5. ASSUME NEW c \in Clerks, Judge(c)
      PROVE  LossInv'
  <2> DEFINE s == [pc |-> "record", brief |-> clerk[c].brief,
                   decision |-> clerk[c].decision,
                   gate |-> evaluate(clerk[c].decision, clerk[c].brief, clerk[c].limits)]
  <2>1. /\ clerk' = [clerk EXCEPT ![c] = s] /\ clerk[c].pc = "stats"
        /\ UNCHANGED <<day, limits, journal, crowded>>
    BY <1>5 DEF Judge, GoOn, Does
  <2>2. /\ s.pc = "record" /\ s.decision = clerk[c].decision
        /\ s.gate = evaluate(clerk[c].decision, clerk[c].brief, clerk[c].limits)
    OBVIOUS
  <2> HIDE DEF s
  <2>3. Crowds(c, s)
    BY <2>1 DEF Crowds
  <2>4. CASE ~crowded
    <3>1. s.decision = "TAKE" /\ s.gate = "ACCEPTED" => \A l \in limits : Safe(l)
      BY <2>1, <2>2, <2>4, LossJudged
    <3>2. QED
      BY <1>g, <2>1, <2>2, <2>3, <3>1
  <2>5. CASE crowded
    <3>1. \A d \in Clerks : clerk'[d].pc = "close" => clerk'[d] = clerk[d]
      BY <1>t, <2>1, <2>2
    <3>2. AloneUnlessCrowded'
      BY <2>1, <2>3, LedgerAlone DEF LossInv
    <3>3. QED
      BY <2>1, <2>5, <3>1, <3>2 DEF LossInv, OneRow, ClosedByNow, JudgedOnWhatStands, Does
  <2>6. QED
    BY <1>t, <2>4, <2>5
<1>6. ASSUME NEW c \in Clerks, RecordDecision(c)
      PROVE  LossInv'
  <2> DEFINE e == [brief |-> clerk[c].brief, decision |-> clerk[c].decision,
                   gate |-> clerk[c].gate, decided |-> day, outcome |-> "",
                   realized |-> 0, closed |-> 0, closed_on |-> 0]
  <2>1. /\ clerk' = [clerk EXCEPT ![c] = [pc |-> "idle"]] /\ clerk[c].pc # "idle"
        /\ journal' = Append(journal, e) /\ UNCHANGED <<day, limits, crowded>>
    BY <1>6 DEF RecordDecision, Leave, GoOn, Does
  <2>2. e.closed_on = 0
    OBVIOUS
  <2> HIDE DEF e
  <2>3. \A i \in DOMAIN journal' : journal'[i].closed_on <= day
    BY <1>t, <2>1, <2>2 DEF LossInv, ClosedByNow
  <2>4. OneRow'
    BY <2>1 DEF LossInv, OneRow
  <2>5. QED
    BY <1>i, <2>1, <2>3, <2>4
<1>7. ASSUME NEW c \in Clerks, NEW i \in 1 .. MaxEntries, NEW o \in Outcomes,
             NEW priced \in BOOLEAN, BeginOutcome(c, i, o, priced)
      PROVE  LossInv'
  <2> DEFINE s == [pc |-> "close", entry |-> i, outcome |-> o,
                   realized |-> IF o = "CLOSED_LOSS" /\ priced
                                THEN RiskAmount[journal[i].brief] ELSE 0,
                   closed |-> closings + 1, closed_on |-> day]
  <2>1. /\ clerk' = [clerk EXCEPT ![c] = s] /\ Crowds(c, s)
        /\ UNCHANGED <<day, journal, limits>>
    BY <1>7 DEF BeginOutcome, Begin, Crowds
  <2>2. s.pc = "close" /\ s.closed_on = day
    OBVIOUS
  <2> HIDE DEF s
  <2>3. s.closed_on <= day
    BY <1>t, <2>2, LedgerAssumption
  <2>4. QED
    BY <1>g, <2>1, <2>2, <2>3
<1>8. ASSUME NEW c \in Clerks, RecordOutcome(c)
      PROVE  LossInv'
  <2>1. clerk[c] \in Closing /\ clerk[c].entry \in DOMAIN journal
    BY <1>t, <1>8, LedgerStates DEF RecordOutcome, Does, LedgerTypeOK
  <2>2. PICK me, k, j : me = clerk[c] /\ k = me.entry /\ j = journal[k]
    OBVIOUS
  <2>3. j \in JournalEntry /\ k \in DOMAIN journal
    BY <1>t, <2>1, <2>2
  <2>4. journal' = [journal EXCEPT ![k] =
          [j EXCEPT !.outcome = me.outcome, !.realized = me.realized,
                    !.closed = me.closed, !.closed_on = me.closed_on]]
    BY <1>t, <1>8, <2>2, <2>3 DEF RecordOutcome
  <2>5. me.closed_on <= day
    BY <1>8, <2>2 DEF RecordOutcome, LossInv, ClosedByNow
  <2>6. \A i \in DOMAIN journal' : journal'[i].closed_on <= day
    <3>1. DOMAIN journal' = DOMAIN journal
      BY <1>t, <2>4
    <3>2. \A i \in DOMAIN journal : i # k => journal'[i] = journal[i]
      BY <1>t, <2>4
    <3>3. journal'[k].closed_on = me.closed_on
      BY <1>t, <2>3, <2>4 DEF JournalEntry
    <3>4. QED
      BY <2>5, <3>1, <3>2, <3>3 DEF LossInv, ClosedByNow
  <2>7. /\ clerk' = [clerk EXCEPT ![c] = [pc |-> "idle"]] /\ clerk[c].pc # "idle"
        /\ UNCHANGED <<day, crowded, limits>>
    BY <1>8 DEF RecordOutcome, Leave, GoOn, Does
  <2>8. OneRow'
    BY <2>7 DEF LossInv, OneRow
  <2>9. QED
    BY <1>i, <2>6, <2>7, <2>8
<1>9. ASSUME NEW c \in Clerks, NEW l \in AnyLimits, BeginSave(c, l)
      PROVE  LossInv'
  <2> DEFINE s == [pc |-> "save", limits |-> l]
  <2>1. /\ clerk' = [clerk EXCEPT ![c] = s] /\ Crowds(c, s)
        /\ UNCHANGED <<day, journal, limits>>
    BY <1>9 DEF BeginSave, Begin, Crowds
  <2>2. s.pc = "save"
    OBVIOUS
  <2> HIDE DEF s
  <2>3. QED
    BY <1>g, <2>1, <2>2
<1>10. ASSUME NEW c \in Clerks, ReadRow(c)
       PROVE  LossInv'
  <2> DEFINE s == [clerk[c] EXCEPT !.pc = IF limits = {} THEN "insert" ELSE "update"]
  <2>1. /\ clerk' = [clerk EXCEPT ![c] = s] /\ UNCHANGED crowded
        /\ clerk[c].pc = "save" /\ UNCHANGED <<day, journal, limits>>
    BY <1>10 DEF ReadRow, GoOn, Does
  <2>2. s.pc \in {"insert", "update"}
    <3>1. clerk[c] \in Saving
      BY <1>t, <2>1, LedgerStates
    <3>2. QED
      BY <3>1 DEF Saving
  <2> HIDE DEF s
  <2>3. Crowds(c, s)
    BY <2>1 DEF Crowds
  <2>4. QED
    BY <1>g, <2>1, <2>2, <2>3
<1>11. ASSUME NEW c \in Clerks, SaveRow(c)
       PROVE  LossInv'
  <2>1. \/ UNCHANGED limits
        \/ limits' = {clerk[c].limits}
    BY <1>11 DEF SaveRow
  <2>2. OneRow'
    BY <2>1 DEF LossInv, OneRow
  <2>3. /\ clerk' = [clerk EXCEPT ![c] = [pc |-> "idle"]] /\ clerk[c].pc # "idle"
        /\ UNCHANGED <<day, crowded, journal>>
    BY <1>11 DEF SaveRow, Leave, GoOn, Does
  <2>4. \A i \in DOMAIN journal' : journal'[i].closed_on <= day
    BY <2>3 DEF LossInv, ClosedByNow
  <2>5. QED
    BY <1>i, <2>2, <2>3, <2>4
<1>12. QED
  BY <1>1, <1>2, <1>3, <1>4, <1>5, <1>6, <1>7, <1>8, <1>9, <1>10, <1>11 DEF LedgerNext

\* The only row that a step adds is that of a decision, dated today.
LEMMA RowAdded ==
  ASSUME LedgerTypeOK, LedgerNext, Len(journal') > Len(journal), Taken(Last(journal'))
  PROVE  /\ UNCHANGED crowded /\ Last(journal').decided = day
         /\ \E c \in Clerks : c \in Pending
<1>t. journal \in Seq(JournalEntry) /\ Len(journal) \in Nat
  BY DEF LedgerTypeOK
<1>1. journal' # journal
  BY <1>t
<1>2. ASSUME NEW c \in Clerks, RecordOutcome(c) PROVE FALSE
  <2>1. \E x : journal' = [journal EXCEPT ![clerk[c].entry] = x]
    BY <1>2 DEF RecordOutcome
  <2>2. Len(journal') = Len(journal)
    BY <1>t, <2>1
  <2>3. QED
    BY <1>t, <2>2
<1>3. PICK c \in Clerks : RecordDecision(c)
  BY <1>1, <1>2 DEF LedgerNext, NextDay, BeginDecision, BeginOutcome, BeginSave, ReadLimits,
                    Judge, ReadRow, SaveRow
<1> DEFINE e == [brief |-> clerk[c].brief, decision |-> clerk[c].decision,
                 gate |-> clerk[c].gate, decided |-> day, outcome |-> "",
                 realized |-> 0, closed |-> 0, closed_on |-> 0]
<1>4. /\ journal' = Append(journal, e) /\ clerk[c].pc = "record" /\ UNCHANGED crowded
  BY <1>3 DEF RecordDecision, Leave, GoOn, Does
<1>5. e.decided = day /\ e.decision = clerk[c].decision /\ e.gate = clerk[c].gate
  OBVIOUS
<1> HIDE DEF e
<1>6. Last(journal') = e
  BY <1>t, <1>4 DEF Last
<1>7. QED
  BY <1>4, <1>5, <1>6 DEF Taken, Pending, Does

\* As long as calls do not overlap, no TAKE is recorded as accepted on a day whose
\* losses have reached the limit, or against a streak of losses: for any number of
\* processes, decisions, outcomes and changes of the limits, and days that end at
\* any point of a call.
THEOREM AcceptedStaysWithinLimits == LedgerSpec => AcceptedWithinLimits
<1> DEFINE Step == Len(journal') > Len(journal) /\ Taken(Last(journal')) /\ ~crowded' =>
                     \A l \in limits : WithinDailyLoss(l) /\ NoLossStreak(l)
<1>1. LedgerInit => LedgerTypeOK /\ LossInv
  BY LedgerTypeInit, LossInit
<1>2. LedgerTypeOK /\ LossInv /\ [LedgerNext]_ledgerVars => (LedgerTypeOK /\ LossInv)'
  BY LedgerTypeStep, LossesStep
<1>3. LedgerTypeOK /\ LossInv /\ [LedgerNext]_ledgerVars => [Step]_ledgerVars
  <2> SUFFICES ASSUME LedgerTypeOK, LossInv, LedgerNext, Len(journal') > Len(journal),
                      Taken(Last(journal')), ~crowded', NEW l \in limits
               PROVE  WithinDailyLoss(l) /\ NoLossStreak(l)
    OBVIOUS
  <2>1. ~crowded /\ Last(journal').decided = day /\ \E c \in Clerks : c \in Pending
    BY RowAdded
  <2>2. Safe(l)
    BY <2>1 DEF LossInv, JudgedOnWhatStands
  <2>3. QED
    BY <2>1, <2>2 DEF Safe, WithinDailyLoss
<1> HIDE DEF Step
<1>4. QED
  BY <1>1, <1>2, <1>3, PTL DEF LedgerSpec, AcceptedWithinLimits, Step

-----------------------------------------------------------------------------
(***************************************************************************)
(* The observation windows and their final review: FinalReview             *)
(***************************************************************************)
USE ReviewAssumption

-----------------------------------------------------------------------------
(***************************************************************************)
(* Types                                                                   *)
(***************************************************************************)
LEMMA TypeInit == ReviewInit => ReviewTypeOK
<1> SUFFICES ASSUME ReviewInit PROVE ReviewTypeOK
  OBVIOUS
<1>0. MaxRows \in Nat /\ MaxFeedback \in Nat /\ MaxFailures \in Nat
  BY DEF ReviewAssumption
<1>1. TablesOK
  <2>1. windows = << >> /\ feedback = << >> /\ operated = {} /\ failures = 0
          /\ overlapped = FALSE /\ rivalled = FALSE
    BY DEF ReviewInit
  <2>2. windows \in Seq({"ACTIVE", "CLOSED"}) /\ Len(windows) = 0
    BY <2>1
  <2>3. feedback \in Seq(DOMAIN windows) /\ Len(feedback) = 0
    BY <2>1
  <2>4. {overlapped, rivalled} \subseteq BOOLEAN
    BY <2>1, Zenon
  <2>5. QED
    BY <1>0, <2>1, <2>2, <2>3, <2>4 DEF TablesOK
<1>2. RecordsOK
  BY DEF ReviewInit, RecordsOK, None
<1>3. CallsOK
  BY DEF ReviewInit, CallsOK, Calls, AtRest
<1>4. QED
  BY <1>1, <1>2, <1>3 DEF ReviewTypeOK

\* What a call that goes on has to be, when the tables stay.
LEMMA CallStep ==
  ASSUME ReviewTypeOK, NEW p \in Reviewers, NEW s \in Calls,
         reviewer' = [reviewer EXCEPT ![p] = s],
         s.pc \notin {"rest", "open"} => s.window \in DOMAIN windows,
         s.pc \in {"update", "decide"} => record[s.window].made,
         s.pc = "decide" => s.decision \in ALLOWED_DECISIONS,
         s.pc \notin {"rest", "open", "close"} => ListFor(s.ids, s.window),
         UNCHANGED <<windows, operated, feedback, record>>,
         failures' \in 0 .. MaxFailures, overlapped' \in BOOLEAN,
         rivalled' \in BOOLEAN
  PROVE  ReviewTypeOK'
<1>1. TablesOK'
  BY DEF ReviewTypeOK, TablesOK
<1>2. RecordsOK'
  BY DEF ReviewTypeOK, RecordsOK, ListFor
<1>3. CallsOK'
  BY DEF ReviewTypeOK, CallsOK, ListFor
<1>4. QED
  BY <1>1, <1>2, <1>3 DEF ReviewTypeOK

LEMMA TypeStep == ReviewTypeOK /\ [ReviewNext]_reviewVars => ReviewTypeOK'
<1> SUFFICES ASSUME ReviewTypeOK, [ReviewNext]_reviewVars PROVE ReviewTypeOK'
  OBVIOUS
<1> USE DEF ReviewTypeOK
<1>t. failures \in 0 .. MaxFailures /\ {overlapped, rivalled} \subseteq BOOLEAN
  BY DEF TablesOK
<1>rest. [pc |-> "rest"] \in Calls
  BY DEF Calls, AtRest
<1>1. ASSUME NEW w \in WindowId, Operate(w) PROVE ReviewTypeOK'
  BY <1>1 DEF Operate, TablesOK, RecordsOK, CallsOK, ListFor
<1>2. ASSUME NEW p \in Reviewers, BeginOpen(p) PROVE ReviewTypeOK'
  <2>1. [pc |-> "open"] \in Calls
    BY DEF Calls, Opening
  <2>2. QED
    BY <1>2, <1>t, <2>1, CallStep DEF BeginOpen, Start
<1>3. ASSUME NEW p \in Reviewers, OpenWindow(p) PROVE ReviewTypeOK'
  <2>1. TablesOK'
    BY <1>3 DEF OpenWindow, Finish, Proceed, TablesOK
  <2>2. RecordsOK'
    BY <1>3 DEF OpenWindow, RecordsOK, ListFor
  <2>3. DOMAIN windows \subseteq DOMAIN windows'
    BY <1>3 DEF OpenWindow, TablesOK
  <2>4. CallsOK'
    BY <1>3, <1>rest, <2>3 DEF OpenWindow, Finish, Proceed, CallsOK, ListFor
  <2>5. QED
    BY <2>1, <2>2, <2>4
<1>4. ASSUME NEW p \in Reviewers, NEW w \in WindowId, BeginClose(p, w)
      PROVE  ReviewTypeOK'
  <2>1. [pc |-> "close", window |-> w] \in Calls
    BY DEF Calls, ClosingOf
  <2>2. w \in DOMAIN windows
    BY <1>4 DEF BeginClose, Active
  <2>3. QED
    BY <1>4, <1>t, <2>1, <2>2, CallStep DEF BeginClose, Start
<1>5. ASSUME NEW p \in Reviewers, CloseWindow(p) PROVE ReviewTypeOK'
  <2>0. reviewer[p].window \in DOMAIN windows
    BY <1>5 DEF CloseWindow, IsAt, CallsOK
  <2>1. windows' \in Seq({"ACTIVE", "CLOSED"}) /\ DOMAIN windows' = DOMAIN windows
          /\ Len(windows') = Len(windows)
    BY <1>5, <2>0 DEF CloseWindow, TablesOK
  <2>2. TablesOK'
    BY <1>5, <2>1 DEF CloseWindow, Finish, Proceed, TablesOK
  <2>3. RecordsOK'
    BY <1>5 DEF CloseWindow, RecordsOK, ListFor
  <2>4. CallsOK'
    BY <1>5, <1>rest, <2>1 DEF CloseWindow, Finish, Proceed, CallsOK, ListFor
  <2>5. QED
    BY <2>2, <2>3, <2>4
<1>6. ASSUME NEW p \in Reviewers, NEW w \in WindowId, NEW label \in {"feedback", "review"},
             NEW d \in {"none"} \cup ALLOWED_DECISIONS, BeginReview(p, label, w, d)
      PROVE  ReviewTypeOK'
  <2> DEFINE s == [pc |-> label, window |-> w, decision |-> d, ids |-> {}]
  <2>1. s \in Calls
    BY DEF Calls, Reviewing
  <2>2. s.window \in DOMAIN windows /\ ListFor(s.ids, s.window) /\ s.pc = label
    BY <1>6 DEF BeginReview, ListFor
  <2>3. QED
    BY <1>6, <1>t, <2>1, <2>2, CallStep DEF BeginReview, Start
\* A call of the review that is under way.
<1>r. ASSUME NEW p \in Reviewers,
             reviewer[p].pc \notin {"rest", "open", "close"}
      PROVE  /\ reviewer[p] \in Reviewing
             /\ reviewer[p].window \in DOMAIN windows
             /\ ListFor(reviewer[p].ids, reviewer[p].window)
  BY <1>r DEF CallsOK, Calls, AtRest, Opening, ClosingOf
<1>7. ASSUME NEW p \in Reviewers, CreateFeedback(p) PROVE ReviewTypeOK'
  <2> DEFINE s == [reviewer[p] EXCEPT !.pc = "review"]
  <2>1. /\ reviewer[p] \in Reviewing /\ reviewer[p].window \in DOMAIN windows
        /\ ListFor(reviewer[p].ids, reviewer[p].window)
    BY <1>7, <1>r DEF CreateFeedback, IsAt
  <2>2. s \in Calls /\ s.pc = "review" /\ s.window = reviewer[p].window
          /\ s.ids = reviewer[p].ids
    BY <2>1 DEF Calls, Reviewing
  <2>3. /\ feedback' \in Seq(DOMAIN windows) /\ Len(feedback') <= MaxFeedback
        /\ \A i \in DOMAIN feedback : i \in DOMAIN feedback' /\ feedback'[i] = feedback[i]
    BY <1>7, <2>1 DEF CreateFeedback, TablesOK
  <2>4. TablesOK'
    BY <1>7, <2>3 DEF CreateFeedback, Proceed, TablesOK
  <2>5. RecordsOK'
    BY <1>7, <2>3 DEF CreateFeedback, RecordsOK, ListFor
  <2>6. CallsOK'
    BY <1>7, <2>1, <2>2, <2>3 DEF CreateFeedback, Proceed, CallsOK, ListFor
  <2>7. QED
    BY <2>4, <2>5, <2>6
<1>8. ASSUME NEW p \in Reviewers, Review(p) PROVE ReviewTypeOK'
  <2> DEFINE s == [reviewer[p] EXCEPT !.pc = "list"]
  <2>1. /\ reviewer[p] \in Reviewing /\ reviewer[p].window \in DOMAIN windows
        /\ ListFor(reviewer[p].ids, reviewer[p].window)
    BY <1>8, <1>r DEF Review, IsAt
  <2>2. s \in Calls /\ s.pc = "list" /\ s.window = reviewer[p].window
          /\ s.ids = reviewer[p].ids
    BY <2>1 DEF Calls, Reviewing
  <2>3. CASE Insufficient(reviewer[p].window, reviewer[p].decision)
    BY <1>8, <1>t, <1>rest, <2>3, CallStep DEF Review, Finish, Proceed
  <2>4. CASE ~Insufficient(reviewer[p].window, reviewer[p].decision)
    BY <1>8, <1>t, <2>1, <2>2, <2>4, CallStep DEF Review, Proceed
  <2>5. QED
    BY <2>3, <2>4
<1>9. ASSUME NEW p \in Reviewers, ListFeedback(p) PROVE ReviewTypeOK'
  <2> DEFINE w == reviewer[p].window
             s == [reviewer[p] EXCEPT !.pc = "find", !.ids = list_by_window(w)]
  <2>1. reviewer[p] \in Reviewing /\ w \in DOMAIN windows
    BY <1>9, <1>r DEF ListFeedback, IsAt
  <2>2. list_by_window(w) \subseteq FeedbackId /\ ListFor(list_by_window(w), w)
    BY DEF list_by_window, FeedbackId, ListFor, TablesOK
  <2>3. s \in Calls /\ s.pc = "find" /\ s.window = w /\ s.ids = list_by_window(w)
    BY <2>1, <2>2 DEF Calls, Reviewing
  <2>4. QED
    BY <1>9, <1>t, <2>1, <2>2, <2>3, CallStep DEF ListFeedback, Proceed
<1>10. ASSUME NEW p \in Reviewers, FindRecord(p) PROVE ReviewTypeOK'
  <2> DEFINE w == reviewer[p].window
             s == [reviewer[p] EXCEPT
                     !.pc = IF record[w].made THEN "update" ELSE "create"]
  <2>1. reviewer[p] \in Reviewing /\ w \in DOMAIN windows
          /\ ListFor(reviewer[p].ids, w)
    BY <1>10, <1>r DEF FindRecord, IsAt
  <2>2. /\ s \in Calls /\ s.window = w /\ s.ids = reviewer[p].ids
        /\ s.pc = IF record[w].made THEN "update" ELSE "create"
    BY <2>1 DEF Calls, Reviewing
  <2>3. s.pc \in {"update", "create"} /\ (s.pc = "update" => record[w].made)
    BY <2>2
  <2>4. QED
    BY <1>10, <1>t, <2>1, <2>2, <2>3, CallStep DEF FindRecord, Proceed
\* What the writes to the record leave as it was.
<1>w. ASSUME NEW p \in Reviewers, NEW s \in Calls,
             reviewer[p].pc \notin {"rest", "open", "close"},
             NEW r \in FinalReviewRecord, ListFor(r.ids, reviewer[p].window),
             record' = [record EXCEPT ![reviewer[p].window] = r],
             reviewer' = [reviewer EXCEPT ![p] = s],
             \/ s = [pc |-> "rest"]
             \/ /\ s = [reviewer[p] EXCEPT !.pc = "decide"]
                /\ reviewer[p].decision \in ALLOWED_DECISIONS,
             UNCHANGED <<windows, operated, feedback, failures, overlapped, rivalled>>
      PROVE  ReviewTypeOK'
  <2>1. reviewer[p] \in Reviewing /\ reviewer[p].window \in WindowId
          /\ reviewer[p].window \in DOMAIN windows
          /\ ListFor(reviewer[p].ids, reviewer[p].window)
    BY <1>w, <1>r DEF Reviewing
  <2>2. TablesOK'
    BY <1>w DEF TablesOK
  <2>3. r.made /\ r \in None \cup FinalReviewRecord
    BY DEF FinalReviewRecord
  <2>4. RecordsOK'
    BY <1>w, <2>1, <2>3 DEF RecordsOK, ListFor
  <2>5. \A w \in WindowId : record[w].made => record'[w].made
    BY <1>w, <2>1, <2>3 DEF RecordsOK
  <2>6. record'[reviewer[p].window].made
    BY <1>w, <2>1, <2>3 DEF RecordsOK
  <2>7. s.pc = "rest" \/ /\ s.pc = "decide"
                         /\ s.window = reviewer[p].window
                         /\ s.ids = reviewer[p].ids
                         /\ s.decision \in ALLOWED_DECISIONS
    <3>1. CASE s = [pc |-> "rest"]
      BY <3>1
    <3>2. CASE /\ s = [reviewer[p] EXCEPT !.pc = "decide"]
               /\ reviewer[p].decision \in ALLOWED_DECISIONS
      BY <2>1, <3>2 DEF Reviewing
    <3>3. QED
      BY <1>w, <3>1, <3>2
  <2>8. ASSUME NEW q \in Reviewers, reviewer[q].pc \in {"update", "decide"}
        PROVE  reviewer[q].window \in WindowId
    BY <1>r, <2>8 DEF Reviewing
  <2>9. CallsOK'
    BY <1>w, <2>1, <2>5, <2>6, <2>7, <2>8 DEF CallsOK, ListFor
  <2>10. QED
    BY <2>2, <2>4, <2>9
<1>d. ASSUME NEW p \in Reviewers, reviewer[p].pc \notin {"rest", "open", "close"}
      PROVE  [reviewer[p] EXCEPT !.pc = "decide"] \in Calls
  BY <1>d, <1>r DEF Calls, Reviewing
\* A decision that is not "none" is an allowed one.
<1>a. ASSUME NEW p \in Reviewers, reviewer[p].pc \notin {"rest", "open", "close"},
             reviewer[p].decision # "none"
      PROVE  reviewer[p].decision \in ALLOWED_DECISIONS
  BY <1>a, <1>r DEF Reviewing
<1>11. ASSUME NEW p \in Reviewers, CreateRecord(p) PROVE ReviewTypeOK'
  <2> DEFINE w == reviewer[p].window
             r == [made |-> TRUE, ids |-> reviewer[p].ids, decision |-> "PENDING"]
  <2>0. IsAt(p, "create") /\ reviewer[p].pc \notin {"rest", "open", "close"}
    BY <1>11 DEF CreateRecord, IsAt
  <2>1. reviewer[p] \in Reviewing /\ ListFor(reviewer[p].ids, w)
    BY <2>0, <1>r
  <2>2. r \in FinalReviewRecord /\ ListFor(r.ids, w)
    BY <2>1 DEF Reviewing, FinalReviewRecord, ALLOWED_DECISIONS
  <2>3. CASE record[w].made
    BY <1>11, <1>t, <1>rest, <2>3, CallStep DEF CreateRecord, Finish, Proceed
  <2>4. CASE ~record[w].made
    BY <1>11, <1>rest, <1>a, <1>d, <1>w, <2>0, <2>2, <2>4
       DEF CreateRecord, Refreshed, Finish, Proceed
  <2>5. QED
    BY <2>3, <2>4
\* A record that is there.
<1>m. ASSUME NEW p \in Reviewers, reviewer[p].pc \in {"update", "decide"}
      PROVE  /\ reviewer[p].window \in WindowId
             /\ record[reviewer[p].window] \in FinalReviewRecord
             /\ ListFor(record[reviewer[p].window].ids, reviewer[p].window)
  <2>1. reviewer[p].window \in WindowId /\ record[reviewer[p].window].made
    BY <1>m, <1>r DEF CallsOK, Reviewing
  <2>2. QED
    BY <2>1 DEF RecordsOK, None
<1>12. ASSUME NEW p \in Reviewers, update_evidence(p) PROVE ReviewTypeOK'
  <2> DEFINE w == reviewer[p].window
             r == [record[w] EXCEPT !.ids = reviewer[p].ids]
  <2>0. reviewer[p].pc = "update"
    BY <1>12 DEF update_evidence, IsAt
  <2>1. reviewer[p] \in Reviewing /\ ListFor(reviewer[p].ids, w)
    BY <2>0, <1>r
  <2>2. w \in WindowId /\ record[w] \in FinalReviewRecord
    BY <2>0, <1>m
  <2>3. r \in FinalReviewRecord /\ r.ids = reviewer[p].ids
    BY <2>1, <2>2 DEF Reviewing, FinalReviewRecord
  <2>4. record' = [record EXCEPT ![w] = r]
    BY <1>12, <2>2 DEF update_evidence, RecordsOK
  <2>5. QED
    BY <1>12, <1>rest, <1>a, <1>d, <1>w, <2>0, <2>1, <2>3, <2>4
       DEF update_evidence, Refreshed, Finish, Proceed
<1>13. ASSUME NEW p \in Reviewers, WriteDecision(p) PROVE ReviewTypeOK'
  <2> DEFINE w == reviewer[p].window
             r == [record[w] EXCEPT !.decision = reviewer[p].decision]
  <2>0. reviewer[p].pc = "decide"
    BY <1>13 DEF WriteDecision, IsAt
  <2>2. w \in WindowId /\ record[w] \in FinalReviewRecord /\ ListFor(record[w].ids, w)
    BY <2>0, <1>m
  <2>1. reviewer[p].decision \in ALLOWED_DECISIONS
    BY <2>0 DEF CallsOK
  <2>3. r \in FinalReviewRecord /\ r.ids = record[w].ids
    BY <2>1, <2>2 DEF FinalReviewRecord
  <2>4. record' = [record EXCEPT ![w] = r]
    BY <1>13, <2>2 DEF WriteDecision, RecordsOK
  <2>5. QED
    BY <1>13, <1>rest, <1>w, <2>0, <2>2, <2>3, <2>4
       DEF WriteDecision, Finish, Proceed
<1>14. ASSUME NEW p \in Reviewers, Die(p) PROVE ReviewTypeOK'
  <2>1. failures' \in 0 .. MaxFailures
    BY <1>14, <1>t DEF Die
  <2>2. QED
    BY <1>14, <1>t, <1>rest, <2>1, CallStep DEF Die
<1>15. CASE UNCHANGED reviewVars
  BY <1>15 DEF reviewVars, TablesOK, RecordsOK, CallsOK, ListFor
<1>16. QED
  BY <1>1, <1>2, <1>3, <1>4, <1>5, <1>6, <1>7, <1>8, <1>9, <1>10, <1>11, <1>12,
     <1>13, <1>14, <1>15
     DEF ReviewNext, refresh_review, record_feedback, record_decision

\* The tables, the records and the local variables of the calls stay what they
\* are declared to be.
THEOREM ReviewTypeCorrect == ReviewSpec => []ReviewTypeOK
BY TypeInit, TypeStep, PTL DEF ReviewSpec

-----------------------------------------------------------------------------
(***************************************************************************)
(* Final decisions rest on evidence: the judgement of Review is carried    *)
(* by the call until it writes, and evidence does not go away.             *)
(***************************************************************************)
CallsAreJudged ==
  \A p \in Reviewers :
    /\ reviewer[p].pc \in {"list", "find", "create", "update", "decide"}
    /\ reviewer[p].decision \in Verdicts
    => reviewer[p].window \in operated

EvidenceInv == FinalNeedsEvidence /\ CallsAreJudged

LEMMA EvidenceStep ==
  ReviewTypeOK /\ EvidenceInv /\ [ReviewNext]_reviewVars => EvidenceInv'
<1> SUFFICES ASSUME ReviewTypeOK, EvidenceInv, [ReviewNext]_reviewVars
             PROVE  EvidenceInv'
  OBVIOUS
<1> USE DEF EvidenceInv, FinalNeedsEvidence, CallsAreJudged
<1>t. reviewer \in [Reviewers -> Calls] /\ record \in [WindowId -> None \cup FinalReviewRecord]
  BY DEF ReviewTypeOK, CallsOK, RecordsOK
<1>r. ASSUME NEW p \in Reviewers,
             reviewer[p].pc \notin {"rest", "open", "close"}
      PROVE  reviewer[p] \in Reviewing
  BY <1>r, <1>t DEF Calls, AtRest, Opening, ClosingOf
<1>v. "PENDING" \notin Verdicts
  BY DEF ReviewAssumption
<1>1. ASSUME NEW w \in WindowId, Operate(w) PROVE EvidenceInv'
  BY <1>1 DEF Operate
<1>2. ASSUME NEW p \in Reviewers,
             BeginOpen(p) \/ OpenWindow(p) \/ CloseWindow(p) \/ Die(p)
      PROVE  EvidenceInv'
  <2>1. CASE BeginOpen(p)
    BY <2>1, <1>t DEF BeginOpen, Start
  <2>2. CASE OpenWindow(p) \/ CloseWindow(p) \/ Die(p)
    BY <2>2, <1>t DEF OpenWindow, CloseWindow, Die, Finish, Proceed
  <2>3. QED
    BY <1>2, <2>1, <2>2
<1>3. ASSUME NEW p \in Reviewers, NEW w \in WindowId, BeginClose(p, w)
      PROVE  EvidenceInv'
  BY <1>3, <1>t DEF BeginClose, Start
<1>4. ASSUME NEW p \in Reviewers, NEW w \in WindowId, NEW label \in {"feedback", "review"},
             NEW d \in {"none"} \cup ALLOWED_DECISIONS, BeginReview(p, label, w, d)
      PROVE  EvidenceInv'
  BY <1>4, <1>t DEF BeginReview, Start
\* A call goes on under another label.
<1>g. ASSUME NEW p \in Reviewers, NEW s,
             s = [pc |-> "rest"] \/ /\ s.decision = reviewer[p].decision
                                    /\ s.window = reviewer[p].window,
             \/ s.pc \in {"rest", "review"}
             \/ reviewer[p].decision \in Verdicts => reviewer[p].window \in operated,
             reviewer' = [reviewer EXCEPT ![p] = s], UNCHANGED operated
      PROVE  CallsAreJudged'
  BY <1>g, <1>t
<1>5. ASSUME NEW p \in Reviewers, CreateFeedback(p) PROVE EvidenceInv'
  <2>1. reviewer[p] \in Reviewing
    BY <1>5, <1>r DEF CreateFeedback, IsAt
  <2>2. QED
    BY <1>5, <1>g, <2>1 DEF CreateFeedback, Proceed, Reviewing
<1>6. ASSUME NEW p \in Reviewers, Review(p) PROVE EvidenceInv'
  <2>1. reviewer[p] \in Reviewing
    BY <1>6, <1>r DEF Review, IsAt
  <2>2. QED
    BY <1>6, <1>g, <2>1 DEF Review, Proceed, Finish, Reviewing, Insufficient
<1>7. ASSUME NEW p \in Reviewers, ListFeedback(p) \/ FindRecord(p)
      PROVE  EvidenceInv'
  <2>1. reviewer[p] \in Reviewing
    BY <1>7, <1>r DEF ListFeedback, FindRecord, IsAt
  <2>2. reviewer[p].decision \in Verdicts => reviewer[p].window \in operated
    BY <1>7 DEF ListFeedback, FindRecord, IsAt
  <2>3. QED
    BY <1>7, <1>g, <2>1, <2>2 DEF ListFeedback, FindRecord, Proceed, Reviewing
<1>8. ASSUME NEW p \in Reviewers, CreateRecord(p) \/ update_evidence(p)
      PROVE  EvidenceInv'
  <2>1. reviewer[p] \in Reviewing
    BY <1>8, <1>r DEF CreateRecord, update_evidence, IsAt
  <2>2. reviewer[p].decision \in Verdicts => reviewer[p].window \in operated
    BY <1>8 DEF CreateRecord, update_evidence, IsAt
  <2>3. CallsAreJudged'
    BY <1>8, <1>g, <2>1, <2>2
       DEF CreateRecord, update_evidence, Refreshed, Finish, Proceed, Reviewing
  <2>4. ASSUME NEW w \in WindowId, record'[w].made,
               record'[w].decision \in Verdicts
        PROVE  record[w].made /\ record[w].decision = record'[w].decision
    <3>1. CASE CreateRecord(p)
      BY <1>t, <1>v, <2>4, <3>1 DEF CreateRecord
    <3>2. CASE update_evidence(p)
      <4>1. record[reviewer[p].window].made /\ reviewer[p].window \in WindowId
        BY <2>1, <3>2 DEF update_evidence, IsAt, ReviewTypeOK, CallsOK, Reviewing
      <4>2. record[reviewer[p].window] \in FinalReviewRecord
        BY <1>t, <4>1 DEF None
      <4>3. QED
        BY <1>t, <2>4, <3>2, <4>2 DEF update_evidence, FinalReviewRecord
    <3>3. QED
      BY <1>8, <3>1, <3>2
  <2>5. FinalNeedsEvidence'
    BY <1>8, <2>4 DEF CreateRecord, update_evidence
  <2>6. QED
    BY <2>3, <2>5
<1>9. ASSUME NEW p \in Reviewers, WriteDecision(p) PROVE EvidenceInv'
  <2>1. reviewer[p] \in Reviewing /\ record[reviewer[p].window].made
    BY <1>9, <1>r DEF WriteDecision, IsAt, ReviewTypeOK, CallsOK
  <2>2. reviewer[p].decision \in Verdicts => reviewer[p].window \in operated
    BY <1>9 DEF WriteDecision, IsAt
  <2>3. CallsAreJudged'
    BY <1>9, <1>g DEF WriteDecision, Finish, Proceed
  <2>4. record[reviewer[p].window] \in FinalReviewRecord
    BY <1>t, <2>1 DEF None, Reviewing
  <2>5. FinalNeedsEvidence'
    BY <1>9, <1>t, <2>1, <2>2, <2>4 DEF WriteDecision, FinalReviewRecord, Reviewing
  <2>6. QED
    BY <2>3, <2>5
<1>10. CASE UNCHANGED reviewVars
  BY <1>10 DEF reviewVars
<1>11. QED
  BY <1>1, <1>2, <1>3, <1>4, <1>5, <1>6, <1>7, <1>8, <1>9, <1>10
     DEF ReviewNext, refresh_review, record_feedback, record_decision

\* No interleaving of calls, and no call that dies, leaves a final decision on
\* a window without evidence of its own.
THEOREM DecisionsRestOnEvidence == ReviewSpec => []FinalNeedsEvidence
<1>1. ReviewInit => EvidenceInv
  BY DEF ReviewInit, EvidenceInv, FinalNeedsEvidence, CallsAreJudged
<1>2. EvidenceInv => FinalNeedsEvidence
  BY DEF EvidenceInv
<1>3. QED
  BY <1>1, <1>2, ReviewTypeCorrect, EvidenceStep, PTL DEF ReviewSpec

-----------------------------------------------------------------------------
(***************************************************************************)
(* Open windows. A call that is about to open one found none open; from    *)
(* then on others can only have come from calls that were about to open    *)
(* one, too, and there are no more of these than processes.                *)
(***************************************************************************)
LEMMA FiniteSetsOfTheDesk ==
  ASSUME ReviewTypeOK
  PROVE  /\ IsFiniteSet(Active) /\ Cardinality(Active) \in Nat
         /\ IsFiniteSet(Openers) /\ Cardinality(Openers) \in Nat
         /\ Cardinality(Openers) <= Cardinality(Reviewers)
         /\ Cardinality(Reviewers) \in Nat
<1>1. IsFiniteSet(Reviewers)
  BY DEF ReviewAssumption
<1>2. Openers \subseteq Reviewers
  BY DEF Openers
<1>3. Active \subseteq 1 .. Len(windows) /\ Len(windows) \in Nat
  BY DEF Active, ReviewTypeOK, TablesOK
<1>4. IsFiniteSet(1 .. Len(windows))
  BY <1>3, FS_Interval
<1>5. QED
  BY <1>1, <1>2, <1>3, <1>4, FS_Subset, FS_CardinalityType

LEMMA ActiveStep ==
  ReviewTypeOK /\ ReviewTypeOK' /\ ExtraWindowsAreRaces /\ [ReviewNext]_reviewVars
    => ExtraWindowsAreRaces'
<1> SUFFICES ASSUME ReviewTypeOK, ReviewTypeOK', ExtraWindowsAreRaces,
                    [ReviewNext]_reviewVars
             PROVE  ExtraWindowsAreRaces'
  OBVIOUS
<1>t. reviewer \in [Reviewers -> Calls]
  BY DEF ReviewTypeOK, CallsOK
<1>f. /\ IsFiniteSet(Active) /\ IsFiniteSet(Openers)
      /\ IsFiniteSet(Active') /\ IsFiniteSet(Openers')
      /\ Cardinality(Active) \in Nat /\ Cardinality(Openers) \in Nat
      /\ Cardinality(Active') \in Nat /\ Cardinality(Openers') \in Nat
      /\ Cardinality(Reviewers) \in Nat
      /\ Cardinality(Openers') <= Cardinality(Reviewers)
  <2>1. (IsFiniteSet(Active) /\ Cardinality(Active) \in Nat
          /\ IsFiniteSet(Openers) /\ Cardinality(Openers) \in Nat
          /\ Cardinality(Openers) <= Cardinality(Reviewers)
          /\ Cardinality(Reviewers) \in Nat)'
    BY FiniteSetsOfTheDesk, PTL
  <2>2. QED
    BY <2>1, FiniteSetsOfTheDesk
\* A step that opens no window and lets no call come near it.
<1>s. ASSUME Active' \subseteq Active, Openers' \subseteq Openers, rivalled' = rivalled
      PROVE  ExtraWindowsAreRaces'
  <2>1. Cardinality(Active') <= Cardinality(Active)
          /\ Cardinality(Openers') <= Cardinality(Openers)
    BY <1>s, <1>f, FS_Subset
  <2>2. QED
    BY <1>s, <1>f, <2>1 DEF ExtraWindowsAreRaces
\* A call that is not one of open begins, goes on or ends.
<1>g. ASSUME NEW p \in Reviewers, NEW s, reviewer' = [reviewer EXCEPT ![p] = s],
             s.pc # "open", Active' \subseteq Active, rivalled' = rivalled
      PROVE  ExtraWindowsAreRaces'
  <2>1. Openers' \subseteq Openers
    BY <1>g, <1>t DEF Openers, IsAt
  <2>2. QED
    BY <1>g, <1>s, <2>1
<1>e. [pc |-> "rest"].pc # "open"
  OBVIOUS
<1>1. ASSUME NEW w \in WindowId, Operate(w) PROVE ExtraWindowsAreRaces'
  BY <1>1, <1>s DEF Operate, Active, Openers, IsAt
<1>2. ASSUME NEW p \in Reviewers, BeginOpen(p) PROVE ExtraWindowsAreRaces'
  <2>1. Active' = {}
    BY <1>2 DEF BeginOpen, Active
  <2>2. Cardinality(Active') = 0
    BY <2>1, FS_EmptySet
  <2>3. CASE rivalled'
    BY <1>f, <2>2, <2>3 DEF ExtraWindowsAreRaces
  <2>4. CASE ~rivalled'
    <3>1. Openers' \subseteq {p}
      BY <1>2, <1>t, <2>4 DEF BeginOpen, Start, Openers, IsAt
    <3>2. Cardinality(Openers') <= Cardinality({p}) /\ Cardinality({p}) = 1
      BY <3>1, FS_Singleton, FS_Subset
    <3>3. QED
      BY <1>f, <2>2, <2>4, <3>2 DEF ExtraWindowsAreRaces
  <2>5. QED
    BY <2>3, <2>4
<1>3. ASSUME NEW p \in Reviewers, OpenWindow(p) PROVE ExtraWindowsAreRaces'
  <2> DEFINE n == Len(windows) + 1
  <2>1. p \in Openers
    BY <1>3 DEF OpenWindow, Openers
  <2>2. Openers' = Openers \ {p} /\ rivalled' = rivalled
    BY <1>3, <1>t DEF OpenWindow, Finish, Proceed, Openers, IsAt
  <2>3. Cardinality(Openers') = Cardinality(Openers) - 1
    BY <1>f, <2>1, <2>2, FS_RemoveElement
  <2>4. Active' = Active \cup {n} /\ n \notin Active
    BY <1>3 DEF OpenWindow, Active, ReviewTypeOK, TablesOK
  <2>5. Cardinality(Active') = Cardinality(Active) + 1
    BY <1>f, <2>4, FS_AddElement
  <2>6. QED
    BY <1>f, <2>2, <2>3, <2>5 DEF ExtraWindowsAreRaces
<1>4. ASSUME NEW p \in Reviewers, NEW w \in WindowId, BeginClose(p, w)
      PROVE  ExtraWindowsAreRaces'
  <2> DEFINE s == [pc |-> "close", window |-> w]
  <2>1. /\ reviewer' = [reviewer EXCEPT ![p] = s] /\ s.pc # "open"
        /\ Active' = Active /\ rivalled' = rivalled
    BY <1>4 DEF BeginClose, Start, Active
  <2>2. QED
    BY <1>g, <2>1
<1>5. ASSUME NEW p \in Reviewers, CloseWindow(p) PROVE ExtraWindowsAreRaces'
  <2>1. Active' \subseteq Active
    BY <1>5 DEF CloseWindow, Active, ReviewTypeOK, TablesOK
  <2>2. /\ reviewer' = [reviewer EXCEPT ![p] = [pc |-> "rest"]]
        /\ rivalled' = rivalled
    BY <1>5 DEF CloseWindow, Finish, Proceed
  <2>3. QED
    BY <1>e, <1>g, <2>1, <2>2
<1>6. ASSUME NEW p \in Reviewers, NEW w \in WindowId, NEW label \in {"feedback", "review"},
             NEW d \in {"none"} \cup ALLOWED_DECISIONS, BeginReview(p, label, w, d)
      PROVE  ExtraWindowsAreRaces'
  <2> DEFINE s == [pc |-> label, window |-> w, decision |-> d, ids |-> {}]
  <2>1. /\ reviewer' = [reviewer EXCEPT ![p] = s] /\ s.pc # "open"
        /\ Active' = Active /\ rivalled' = rivalled
    BY <1>6 DEF BeginReview, Start, Active
  <2>2. QED
    BY <1>g, <2>1
<1>7. ASSUME NEW p \in Reviewers,
             \/ CreateFeedback(p) \/ Review(p) \/ ListFeedback(p) \/ FindRecord(p)
             \/ CreateRecord(p) \/ update_evidence(p) \/ WriteDecision(p)
      PROVE  ExtraWindowsAreRaces'
  <2>1. Active' = Active /\ ~IsAt(p, "rest") /\ ~IsAt(p, "open") /\ ~IsAt(p, "close")
    BY <1>7 DEF CreateFeedback, Review, ListFeedback, FindRecord, CreateRecord,
                update_evidence, WriteDecision, Active, IsAt
  <2>2. reviewer[p] \in Reviewing
    BY <1>t, <2>1 DEF IsAt, Calls, AtRest, Opening, ClosingOf
  <2>3. PICK s : /\ reviewer' = [reviewer EXCEPT ![p] = s] /\ rivalled' = rivalled
                 /\ s.pc # "open"
    <3> DEFINE LandsIn(s) ==
          /\ reviewer' = [reviewer EXCEPT ![p] = s] /\ rivalled' = rivalled
          /\ s.pc # "open"
    <3>0. SUFFICES \E s : LandsIn(s)
      OBVIOUS
    <3>1. ASSUME Finish(p) PROVE LandsIn([pc |-> "rest"])
      BY <3>1 DEF Finish, Proceed
    <3>2. ASSUME NEW label, label # "open",
                 Proceed(p, [reviewer[p] EXCEPT !.pc = label])
          PROVE  LandsIn([reviewer[p] EXCEPT !.pc = label])
      BY <2>2, <3>2 DEF Proceed, Reviewing
    <3>3. ASSUME NEW ids, Proceed(p, [reviewer[p] EXCEPT !.pc = "find", !.ids = ids])
          PROVE  LandsIn([reviewer[p] EXCEPT !.pc = "find", !.ids = ids])
      BY <2>2, <3>3 DEF Proceed, Reviewing
    <3>4. \/ Finish(p)
          \/ \E label \in {"review", "list", "create", "update", "decide"} :
               Proceed(p, [reviewer[p] EXCEPT !.pc = label])
          \/ \E ids : Proceed(p, [reviewer[p] EXCEPT !.pc = "find", !.ids = ids])
      <4>1. CASE FindRecord(p)
        BY <4>1 DEF FindRecord
      <4>2. CASE ListFeedback(p)
        BY <4>2 DEF ListFeedback
      <4>3. CASE CreateFeedback(p) \/ Review(p) \/ WriteDecision(p)
        BY <4>3 DEF CreateFeedback, Review, WriteDecision
      <4>4. CASE CreateRecord(p) \/ update_evidence(p)
        BY <4>4 DEF CreateRecord, update_evidence, Refreshed
      <4>5. QED
        BY <1>7, <4>1, <4>2, <4>3, <4>4
    <3>5. CASE Finish(p)
      BY <3>1, <3>5
    <3>6. CASE \E label \in {"review", "list", "create", "update", "decide"} :
                 Proceed(p, [reviewer[p] EXCEPT !.pc = label])
      BY <3>2, <3>6
    <3>7. CASE \E ids : Proceed(p, [reviewer[p] EXCEPT !.pc = "find", !.ids = ids])
      BY <3>3, <3>7
    <3>8. QED
      BY <3>4, <3>5, <3>6, <3>7
  <2>4. QED
    BY <1>g, <2>1, <2>3
<1>8. ASSUME NEW p \in Reviewers, Die(p) PROVE ExtraWindowsAreRaces'
  <2>1. /\ reviewer' = [reviewer EXCEPT ![p] = [pc |-> "rest"]]
        /\ rivalled' = rivalled
    BY <1>8 DEF Die
  <2>2. Active' \subseteq Active
    BY <1>8 DEF Die, Active
  <2>3. QED
    BY <1>e, <1>g, <2>1, <2>2
<1>9. CASE UNCHANGED reviewVars
  BY <1>9 DEF reviewVars, ExtraWindowsAreRaces, Active, Openers, IsAt
<1>10. QED
  BY <1>1, <1>2, <1>3, <1>4, <1>5, <1>6, <1>7, <1>8, <1>9
     DEF ReviewNext, refresh_review, record_feedback, record_decision

\* However calls of open, close and the review overlap or die, and however many
\* processes and windows there are: windows are open next to each other only
\* after a race of open, never more than there are processes, and no longer
\* than until all of them are closed.
THEOREM WindowsAreOpenedOneByOne == ReviewSpec => []ExtraWindowsAreRaces
<1>1. ReviewInit => ExtraWindowsAreRaces
  <2> SUFFICES ASSUME ReviewInit PROVE ExtraWindowsAreRaces
    OBVIOUS
  <2>1. Active = {} /\ Openers = {}
    BY DEF ReviewInit, Active, Openers, IsAt
  <2>2. Cardinality({}) = 0
    BY FS_EmptySet
  <2>3. QED
    BY <2>1, <2>2 DEF ReviewInit, ExtraWindowsAreRaces
<1>2. QED
  BY <1>1, ReviewTypeCorrect, ActiveStep, PTL DEF ReviewSpec

-----------------------------------------------------------------------------
(***************************************************************************)
(* The decision of a record                                                *)
(***************************************************************************)
\* A record stays, and its decision is changed only by the last statement of
\* record_decision.
THEOREM DecisionsAreMadeByPeople == ReviewSpec => OnlyPeopleDecide
<1> DEFINE ByPeopleOnly ==
      \A w \in WindowId :
        record[w].made =>
          /\ record'[w].made
          /\ record'[w].decision # record[w].decision =>
               \E p \in Reviewers :
                 /\ IsAt(p, "decide") /\ reviewer[p].window = w
                 /\ record'[w].decision = reviewer[p].decision
<1>1. ReviewTypeOK /\ [ReviewNext]_reviewVars => [ByPeopleOnly]_reviewVars
  <2> SUFFICES ASSUME ReviewTypeOK, ReviewNext, NEW w \in WindowId, record[w].made
               PROVE  /\ record'[w].made
                      /\ record'[w].decision # record[w].decision =>
                           \E p \in Reviewers :
                             /\ IsAt(p, "decide") /\ reviewer[p].window = w
                             /\ record'[w].decision = reviewer[p].decision
    OBVIOUS
  <2>1. record \in [WindowId -> None \cup FinalReviewRecord]
          /\ record[w] \in FinalReviewRecord
    BY DEF ReviewTypeOK, RecordsOK, None
  <2>2. CASE UNCHANGED record
    BY <2>2
  <2>3. ASSUME NEW p \in Reviewers, CreateRecord(p)
        PROVE  record'[w] = record[w]
    BY <2>1, <2>3 DEF CreateRecord
  <2>4. ASSUME NEW p \in Reviewers, update_evidence(p)
        PROVE  record'[w].made /\ record'[w].decision = record[w].decision
    BY <2>1, <2>4 DEF update_evidence, FinalReviewRecord
  <2>5. ASSUME NEW p \in Reviewers, WriteDecision(p)
        PROVE  /\ record'[w].made
               /\ record'[w].decision # record[w].decision =>
                    /\ IsAt(p, "decide") /\ reviewer[p].window = w
                    /\ record'[w].decision = reviewer[p].decision
    BY <2>1, <2>5 DEF WriteDecision, FinalReviewRecord
  <2>6. QED
    BY <2>2, <2>3, <2>4, <2>5
       DEF ReviewNext, Operate, BeginOpen, OpenWindow, BeginClose, CloseWindow,
           refresh_review, record_feedback, record_decision, BeginReview,
           CreateFeedback, Review, ListFeedback, FindRecord, Die
<1>2. QED
  BY <1>1, ReviewTypeCorrect, PTL DEF ReviewSpec, OnlyPeopleDecide

-----------------------------------------------------------------------------
(***************************************************************************)
(* Feedback is linked: a call leaves at most the feedback it has created   *)
(* itself unlinked, and what a refresh writes is all feedback of the       *)
(* window.                                                                 *)
(***************************************************************************)
\* The feedback that the call of p is about to link: it created a row of it.
ToLink(p) ==
  IF /\ reviewer[p].pc \in {"review", "list", "find", "create", "update"}
     /\ reviewer[p].decision = "none"
  THEN list_by_window(reviewer[p].window) ELSE {}

UpToDate(p) ==
  /\ reviewer[p].pc = "feedback" => reviewer[p].decision = "none"
  /\ reviewer[p].pc \in {"find", "create", "update"} =>
       reviewer[p].ids = list_by_window(reviewer[p].window)
  /\ reviewer[p].pc = "create" => ~record[reviewer[p].window].made

Resting == \A p \in Reviewers : IsAt(p, "rest")

LinksInv ==
  ~overlapped =>
    /\ \A p, q \in Reviewers : ~IsAt(p, "rest") /\ ~IsAt(q, "rest") => p = q
    /\ Resting => Cardinality(Unlinked) <= failures
    /\ \A p \in Reviewers :
         ~IsAt(p, "rest") =>
           /\ UpToDate(p)
           /\ Cardinality(Unlinked \ ToLink(p)) <= failures
           /\ Cardinality(Unlinked) <= failures + 1

LEMMA UnlinkedIsFinite ==
  ASSUME ReviewTypeOK
  PROVE  IsFiniteSet(Unlinked) /\ Cardinality(Unlinked) \in Nat /\ failures \in Nat
<1>1. Unlinked \subseteq 1 .. Len(feedback) /\ Len(feedback) \in Nat
  BY DEF Unlinked, ReviewTypeOK, TablesOK
<1>2. IsFiniteSet(1 .. Len(feedback))
  BY <1>1, FS_Interval
<1>3. failures \in Nat
  BY DEF ReviewTypeOK, TablesOK, ReviewAssumption
<1>4. QED
  BY <1>1, <1>2, <1>3, FS_Subset, FS_CardinalityType

\* A step of a call that is the only one: what its next state has to satisfy.
LEMMA LinksMove ==
  ASSUME NEW p \in Reviewers, NEW s,
         reviewer \in [Reviewers -> Calls],
         reviewer' = [reviewer EXCEPT ![p] = s],
         \A q \in Reviewers \ {p} : IsAt(q, "rest"),
         IF s.pc = "rest" THEN Cardinality(Unlinked') <= failures'
         ELSE /\ UpToDate(p)'
              /\ Cardinality(Unlinked' \ ToLink(p)') <= failures'
              /\ Cardinality(Unlinked') <= failures' + 1
  PROVE  LinksInv'
<1>1. reviewer'[p] = s /\ \A q \in Reviewers \ {p} : IsAt(q, "rest")'
  BY DEF IsAt
<1>2. IsAt(p, "rest")' <=> s.pc = "rest"
  BY <1>1 DEF IsAt
<1>3. \A q \in Reviewers : ~IsAt(q, "rest")' => q = p
  BY <1>1
<1>4. Resting' => s.pc = "rest"
  BY <1>2 DEF Resting
<1>5. ASSUME NEW q \in Reviewers, ~IsAt(q, "rest")'
      PROVE  /\ UpToDate(q)'
             /\ Cardinality(Unlinked' \ ToLink(q)') <= failures'
             /\ Cardinality(Unlinked') <= failures' + 1
  <2>1. q = p /\ s.pc # "rest"
    BY <1>2, <1>3, <1>5
  <2>2. /\ UpToDate(p)'
        /\ Cardinality(Unlinked' \ ToLink(p)') <= failures'
        /\ Cardinality(Unlinked') <= failures' + 1
    BY <2>1
  <2>3. QED
    BY <2>1, <2>2
<1>6. QED
  BY <1>3, <1>4, <1>5 DEF LinksInv

\* The same when it changes neither feedback nor records.
LEMMA LinksKeep ==
  ASSUME ReviewTypeOK, NEW p \in Reviewers, NEW s,
         reviewer' = [reviewer EXCEPT ![p] = s],
         \A q \in Reviewers \ {p} : IsAt(q, "rest"),
         UNCHANGED <<feedback, record, failures>>,
         Cardinality(Unlinked) <= failures,
         s.pc # "rest" => UpToDate(p)'
  PROVE  LinksInv'
<1>1. Unlinked' = Unlinked
  BY DEF Unlinked
<1>2. IsFiniteSet(Unlinked) /\ Cardinality(Unlinked) \in Nat /\ failures \in Nat
  BY UnlinkedIsFinite
<1>3. Cardinality(Unlinked \ ToLink(p)') <= Cardinality(Unlinked)
        /\ Cardinality(Unlinked \ ToLink(p)') \in Nat
  <2>1. \A T \in SUBSET Unlinked : Cardinality(T) <= Cardinality(Unlinked) /\ IsFiniteSet(T)
    BY <1>2, FS_Subset
  <2>2. Unlinked \ ToLink(p)' \in SUBSET Unlinked
    OBVIOUS
  <2>3. QED
    BY <2>1, <2>2, FS_CardinalityType
<1>4. reviewer \in [Reviewers -> Calls]
  BY DEF ReviewTypeOK, CallsOK
<1>5. Cardinality(Unlinked') <= failures'
  BY <1>1
<1>6. Cardinality(Unlinked' \ ToLink(p)') <= failures' /\ Cardinality(Unlinked') <= failures' + 1
  BY <1>1, <1>2, <1>3
<1>7. QED
  BY <1>4, <1>5, <1>6, LinksMove

LEMMA LinksStep ==
  ReviewTypeOK /\ ReviewTypeOK' /\ LinksInv /\ [ReviewNext]_reviewVars => LinksInv'
<1> SUFFICES ASSUME ReviewTypeOK, ReviewTypeOK', LinksInv, [ReviewNext]_reviewVars,
                    ~overlapped'
             PROVE  LinksInv'
  BY DEF LinksInv
<1>t. reviewer \in [Reviewers -> Calls] /\ record \in [WindowId -> None \cup FinalReviewRecord]
  BY DEF ReviewTypeOK, CallsOK, RecordsOK
<1>f. /\ IsFiniteSet(Unlinked) /\ Cardinality(Unlinked) \in Nat /\ failures \in Nat
      /\ \A T \in SUBSET Unlinked :
           Cardinality(T) \in Nat /\ Cardinality(T) <= Cardinality(Unlinked)
  BY UnlinkedIsFinite, FS_Subset, FS_CardinalityType
\* A call begins: no other is under way, and nothing is unlinked that should be.
<1>b. ASSUME NEW p \in Reviewers, NEW s, Start(p, s),
             UNCHANGED <<feedback, record>>,
             s.pc \in {"open", "close", "feedback", "review"},
             s.pc = "feedback" => s.decision = "none"
      PROVE  LinksInv'
  <2>1. ~overlapped /\ \A q \in Reviewers \ {p} : IsAt(q, "rest")
    BY <1>b DEF Start
  <2>2. Resting
    BY <1>b, <2>1 DEF Start, Resting
  <2>3. Cardinality(Unlinked) <= failures
    BY <2>1, <2>2 DEF LinksInv
  <2>4. reviewer'[p] = s
    BY <1>b, <1>t DEF Start
  <2>5. UpToDate(p)'
    BY <1>b, <2>4 DEF UpToDate
  <2>6. reviewer' = [reviewer EXCEPT ![p] = s] /\ UNCHANGED <<feedback, record, failures>>
    BY <1>b DEF Start
  <2>7. QED
    BY <2>1, <2>3, <2>5, <2>6, LinksKeep
\* A call that is under way.
<1>u. ASSUME NEW p \in Reviewers, ~IsAt(p, "rest"), UNCHANGED overlapped
      PROVE  /\ ~overlapped /\ \A q \in Reviewers \ {p} : IsAt(q, "rest")
             /\ UpToDate(p)
             /\ Cardinality(Unlinked \ ToLink(p)) <= failures
             /\ Cardinality(Unlinked) <= failures + 1
             /\ ToLink(p) = {} => Cardinality(Unlinked) <= failures
  <2>1. ~overlapped
    BY <1>u
  <2>2. /\ \A q \in Reviewers \ {p} : IsAt(q, "rest")
        /\ UpToDate(p)
        /\ Cardinality(Unlinked \ ToLink(p)) <= failures
        /\ Cardinality(Unlinked) <= failures + 1
    BY <1>u, <2>1 DEF LinksInv
  <2>3. ToLink(p) = {} => Unlinked \ ToLink(p) = Unlinked
    OBVIOUS
  <2>4. QED
    BY <2>1, <2>2, <2>3
\* It goes on without touching feedback or records, with as much to link.
<1>g. ASSUME NEW p \in Reviewers, NEW s, ~IsAt(p, "rest"), s.pc # "rest",
             reviewer' = [reviewer EXCEPT ![p] = s],
             UNCHANGED <<feedback, record, failures, overlapped>>,
             UpToDate(p)', ToLink(p)' = ToLink(p)
      PROVE  LinksInv'
  <2>1. Unlinked' = Unlinked
    BY <1>g DEF Unlinked
  <2>2. /\ Cardinality(Unlinked' \ ToLink(p)') <= failures'
        /\ Cardinality(Unlinked') <= failures' + 1
    BY <1>g, <1>u, <2>1
  <2>3. QED
    BY <1>g, <1>t, <1>u, <2>2, LinksMove
\* It ends with nothing left to link.
<1>e. ASSUME NEW p \in Reviewers, ~IsAt(p, "rest"), ToLink(p) = {},
             reviewer' = [reviewer EXCEPT ![p] = [pc |-> "rest"]],
             UNCHANGED <<overlapped, failures>>, Unlinked' = Unlinked
      PROVE  LinksInv'
  <2>1. Cardinality(Unlinked') <= failures'
    BY <1>e, <1>u
  <2>2. QED
    BY <1>e, <1>t, <1>u, <2>1, LinksMove
<1>r. ASSUME NEW p \in Reviewers,
             reviewer[p].pc \notin {"rest", "open", "close"}
      PROVE  /\ reviewer[p] \in Reviewing
             /\ reviewer[p].window \in DOMAIN windows /\ reviewer[p].window \in WindowId
  <2>1. reviewer[p] \in Reviewing
    BY <1>r, <1>t DEF Calls, AtRest, Opening, ClosingOf
  <2>2. QED
    BY <1>r, <2>1 DEF Reviewing, ReviewTypeOK, CallsOK
<1>1. ASSUME NEW w \in WindowId, Operate(w) PROVE LinksInv'
  <2>1. UNCHANGED <<feedback, record, reviewer, failures, overlapped>>
    BY <1>1 DEF Operate
  <2>2. QED
    BY <2>1 DEF LinksInv, Unlinked, ToLink, UpToDate, Resting, IsAt, list_by_window
<1>2. ASSUME NEW p \in Reviewers, BeginOpen(p) PROVE LinksInv'
  <2>1. Start(p, [pc |-> "open"]) /\ UNCHANGED <<feedback, record>>
    BY <1>2 DEF BeginOpen
  <2>2. [pc |-> "open"].pc = "open"
    OBVIOUS
  <2>3. QED
    BY <1>b, <2>1, <2>2
<1>3. ASSUME NEW p \in Reviewers, OpenWindow(p) \/ CloseWindow(p) PROVE LinksInv'
  <2>1. /\ ~IsAt(p, "rest") /\ ToLink(p) = {}
        /\ reviewer' = [reviewer EXCEPT ![p] = [pc |-> "rest"]]
        /\ UNCHANGED <<overlapped, failures, feedback, record>>
    BY <1>3 DEF OpenWindow, CloseWindow, Finish, Proceed, IsAt, ToLink
  <2>2. Unlinked' = Unlinked
    BY <2>1 DEF Unlinked
  <2>3. QED
    BY <1>e, <2>1, <2>2
<1>4. ASSUME NEW p \in Reviewers, NEW w \in WindowId, BeginClose(p, w) PROVE LinksInv'
  <2>1. Start(p, [pc |-> "close", window |-> w]) /\ UNCHANGED <<feedback, record>>
    BY <1>4 DEF BeginClose
  <2>2. [pc |-> "close", window |-> w].pc = "close"
    OBVIOUS
  <2>3. QED
    BY <1>b, <2>1, <2>2
<1>5. ASSUME NEW p \in Reviewers, NEW w \in WindowId, NEW label \in {"feedback", "review"},
             NEW d \in {"none"} \cup ALLOWED_DECISIONS, BeginReview(p, label, w, d),
             label = "feedback" => d = "none"
      PROVE  LinksInv'
  <2> DEFINE s == [pc |-> label, window |-> w, decision |-> d, ids |-> {}]
  <2>1. Start(p, s) /\ UNCHANGED <<feedback, record>>
    BY <1>5 DEF BeginReview
  <2>2. s.pc \in {"feedback", "review"} /\ (s.pc = "feedback" => s.decision = "none")
    BY <1>5
  <2>3. QED
    BY <1>b, <2>1, <2>2
<1>6. ASSUME NEW p \in Reviewers, CreateFeedback(p) PROVE LinksInv'
  <2> DEFINE s == [reviewer[p] EXCEPT !.pc = "review"]
  <2> DEFINE w == reviewer[p].window
  <2>1. /\ IsAt(p, "feedback") /\ feedback' = Append(feedback, w)
        /\ reviewer' = [reviewer EXCEPT ![p] = s]
        /\ UNCHANGED <<failures, overlapped, record>>
    BY <1>6 DEF CreateFeedback, Proceed
  <2>2. ~IsAt(p, "rest") /\ ToLink(p) = {}
    BY <2>1 DEF IsAt, ToLink
  <2>3. reviewer[p] \in Reviewing /\ reviewer[p].decision = "none"
    BY <1>r, <1>u, <2>1, <2>2 DEF IsAt, UpToDate
  <2>4. s.pc = "review" /\ s.decision = "none" /\ s.window = w /\ reviewer'[p] = s
    BY <1>t, <2>1, <2>3 DEF Reviewing
  <2>5. ToLink(p)' = {i \in DOMAIN feedback' : feedback'[i] = w}
    BY <2>4 DEF ToLink, list_by_window
  <2>6. feedback \in Seq(DOMAIN windows)
    BY DEF ReviewTypeOK, TablesOK
  <2>7. /\ DOMAIN feedback' = DOMAIN feedback \cup {Len(feedback) + 1}
        /\ \A i \in DOMAIN feedback : feedback'[i] = feedback[i]
        /\ feedback'[Len(feedback) + 1] = w
    BY <2>1, <2>6
  <2>8. Unlinked' \subseteq Unlinked \cup {Len(feedback) + 1}
    BY <2>1, <2>7 DEF Unlinked
  <2>9. Unlinked' \ ToLink(p)' \in SUBSET Unlinked
    BY <2>5, <2>7, <2>8
  <2>10. Cardinality(Unlinked' \ ToLink(p)') <= failures'
    <3> DEFINE rest == Unlinked' \ ToLink(p)'
    <3>1. Cardinality(Unlinked) <= failures
      BY <1>u, <2>1, <2>2
    <3>2. Cardinality(rest) \in Nat /\ Cardinality(rest) <= Cardinality(Unlinked)
      BY <1>f, <2>9
    <3> HIDE DEF rest
    <3>3. QED
      BY <1>f, <2>1, <3>1, <3>2 DEF rest
  <2>11. Cardinality(Unlinked') <= failures' + 1
    <3> DEFINE U == Unlinked \cup {Len(feedback) + 1}
    <3>1. IsFiniteSet(U) /\ Cardinality(U) \in {Cardinality(Unlinked), Cardinality(Unlinked) + 1}
      <4>1. CASE Len(feedback) + 1 \in Unlinked
        <5>1. U = Unlinked
          BY <4>1
        <5>2. QED
          BY <1>f, <5>1
      <4>2. CASE Len(feedback) + 1 \notin Unlinked
        BY <1>f, <4>2, FS_AddElement
      <4>3. QED
        BY <4>1, <4>2
    <3>2. Cardinality(Unlinked') <= Cardinality(U) /\ Cardinality(Unlinked') \in Nat
      <4>1. Unlinked' \subseteq U
        BY <2>8
      <4>2. QED
        BY <3>1, <4>1, FS_Subset, FS_CardinalityType
    <3>3. Cardinality(Unlinked) <= failures /\ failures' = failures
      BY <1>u, <2>1, <2>2
    <3>4. QED
      <4> DEFINE k == Cardinality(Unlinked)
      <4> DEFINE m == Cardinality(U)
      <4> DEFINE n == Cardinality(Unlinked')
      <4>1. k \in Nat /\ m \in {k, k + 1} /\ n \in Nat /\ n <= m /\ k <= failures
              /\ failures \in Nat
        BY <1>f, <3>1, <3>2, <3>3
      <4>2. n <= failures + 1
        <5> HIDE DEF k, m, n
        <5> QED
          BY <4>1
      <4>3. QED
        BY <3>3, <4>2
  <2>12. UpToDate(p)'
    BY <2>4 DEF UpToDate
  <2>13. s.pc # "rest"
    BY <2>4
  <2>14. QED
    BY <1>t, <1>u, <2>1, <2>2, <2>10, <2>11, <2>12, <2>13, LinksMove
<1>7. ASSUME NEW p \in Reviewers, Review(p) PROVE LinksInv'
  <2>1. IsAt(p, "review") /\ ~IsAt(p, "rest") /\ UNCHANGED <<feedback, record, failures, overlapped>>
    BY <1>7 DEF Review, Finish, Proceed, IsAt
  <2>2. reviewer[p] \in Reviewing
    BY <1>r, <2>1 DEF IsAt
  <2>3. CASE Insufficient(reviewer[p].window, reviewer[p].decision)
    <3>1. reviewer' = [reviewer EXCEPT ![p] = [pc |-> "rest"]]
      BY <1>7, <2>3 DEF Review, Finish, Proceed
    <3>2. ToLink(p) = {}
      BY <2>3 DEF Insufficient, ToLink, ReviewAssumption
    <3>3. Unlinked' = Unlinked
      BY <2>1 DEF Unlinked
    <3>4. QED
      BY <1>e, <2>1, <3>1, <3>2, <3>3
  <2>4. CASE ~Insufficient(reviewer[p].window, reviewer[p].decision)
    <3> DEFINE s == [reviewer[p] EXCEPT !.pc = "list"]
    <3>1. reviewer' = [reviewer EXCEPT ![p] = s]
      BY <1>7, <2>4 DEF Review, Proceed
    <3>2. /\ s.pc = "list" /\ s.decision = reviewer[p].decision
          /\ s.window = reviewer[p].window /\ reviewer'[p] = s
      BY <1>t, <2>2, <3>1 DEF Reviewing
    <3>3. UpToDate(p)' /\ ToLink(p)' = ToLink(p)
      BY <2>1, <3>2 DEF UpToDate, ToLink, list_by_window, IsAt
    <3>4. s.pc # "rest"
      BY <3>2
    <3>5. QED
      BY <1>g, <2>1, <3>1, <3>3, <3>4
  <2>5. QED
    BY <2>3, <2>4
<1>8. ASSUME NEW p \in Reviewers, ListFeedback(p) PROVE LinksInv'
  <2> DEFINE s == [reviewer[p] EXCEPT !.pc = "find",
                                      !.ids = list_by_window(reviewer[p].window)]
  <2>1. /\ IsAt(p, "list") /\ ~IsAt(p, "rest")
        /\ UNCHANGED <<feedback, record, failures, overlapped>>
        /\ reviewer' = [reviewer EXCEPT ![p] = s]
    BY <1>8 DEF ListFeedback, Proceed, IsAt
  <2>2. reviewer[p] \in Reviewing
    BY <1>r, <2>1 DEF IsAt
  <2>3. /\ s.pc = "find" /\ s.decision = reviewer[p].decision
        /\ s.window = reviewer[p].window /\ reviewer'[p] = s
        /\ s.ids = list_by_window(reviewer[p].window)
    BY <1>t, <2>1, <2>2 DEF Reviewing
  <2>4. list_by_window(reviewer[p].window)' = {i \in DOMAIN feedback : feedback[i] = reviewer[p].window}
    BY <2>1, <2>3 DEF list_by_window
  <2>a. UpToDate(p)'
    BY <2>1, <2>3, <2>4 DEF UpToDate, list_by_window
  <2>b. ToLink(p)' = ToLink(p)
    BY <2>1, <2>3, <2>4 DEF ToLink, list_by_window, IsAt
  <2>5. s.pc # "rest"
    BY <2>3
  <2>6. QED
    BY <1>g, <2>1, <2>a, <2>b, <2>5
<1>9. ASSUME NEW p \in Reviewers, FindRecord(p) PROVE LinksInv'
  <2> DEFINE label == IF record[reviewer[p].window].made THEN "update" ELSE "create"
  <2> DEFINE s == [reviewer[p] EXCEPT !.pc = label]
  <2>1. /\ IsAt(p, "find") /\ ~IsAt(p, "rest")
        /\ UNCHANGED <<feedback, record, failures, overlapped>>
        /\ reviewer' = [reviewer EXCEPT ![p] = s]
    BY <1>9 DEF FindRecord, Proceed, IsAt
  <2>2. reviewer[p] \in Reviewing /\ UpToDate(p)
    BY <1>r, <1>u, <2>1 DEF IsAt
  <2>3. /\ s.pc = label /\ s.decision = reviewer[p].decision
        /\ s.window = reviewer[p].window /\ reviewer'[p] = s
        /\ s.ids = reviewer[p].ids
    BY <1>t, <2>1, <2>2 DEF Reviewing
  <2>4. list_by_window(reviewer[p].window)' = {i \in DOMAIN feedback : feedback[i] = reviewer[p].window}
    BY <2>1, <2>3 DEF list_by_window
  <2>a. UpToDate(p)'
    BY <2>1, <2>2, <2>3, <2>4 DEF UpToDate, list_by_window, IsAt
  <2>b. ToLink(p)' = ToLink(p)
    BY <2>1, <2>3, <2>4 DEF ToLink, list_by_window, IsAt
  <2>5. s.pc # "rest"
    BY <2>3
  <2>6. QED
    BY <1>g, <2>1, <2>a, <2>b, <2>5
\* The list is written.
<1>w. ASSUME NEW p \in Reviewers, IsAt(p, "create") \/ IsAt(p, "update"),
             UNCHANGED feedback, Refreshed(p),
             record'[reviewer[p].window].made,
             record'[reviewer[p].window].ids = reviewer[p].ids,
             \A v \in WindowId \ {reviewer[p].window} : record'[v] = record[v]
      PROVE  LinksInv'
  <2> DEFINE w == reviewer[p].window
  <2>1. ~IsAt(p, "rest") /\ UNCHANGED <<failures, overlapped>>
    BY <1>w DEF IsAt, Refreshed, Finish, Proceed
  <2>2. reviewer[p] \in Reviewing /\ UpToDate(p) /\ w \in WindowId
    BY <1>r, <1>u, <1>w, <2>1 DEF IsAt
  <2>3. reviewer[p].ids = list_by_window(w)
    BY <1>w, <2>2 DEF UpToDate, IsAt
  <2>4. \A i \in DOMAIN feedback : feedback[i] \in WindowId
    <3>1. feedback \in Seq(DOMAIN windows) /\ DOMAIN windows \subseteq WindowId
      BY DEF ReviewTypeOK, TablesOK, WindowId, ReviewAssumption
    <3>2. QED
      BY <3>1
  <2>5. Unlinked' \subseteq Unlinked \ list_by_window(w)
    BY <1>w, <2>3, <2>4 DEF Unlinked, list_by_window
  <2>6. CASE reviewer[p].decision = "none"
    <3>1. ToLink(p) = list_by_window(w)
      BY <1>w, <2>6 DEF ToLink, IsAt
    <3>2. Unlinked' \subseteq Unlinked \ ToLink(p) /\ IsFiniteSet(Unlinked \ ToLink(p))
      BY <1>f, <2>5, <3>1, FS_Subset
    <3>3. Cardinality(Unlinked') <= Cardinality(Unlinked \ ToLink(p))
            /\ Cardinality(Unlinked') \in Nat /\ Cardinality(Unlinked \ ToLink(p)) \in Nat
      BY <3>2, FS_Subset, FS_CardinalityType
    <3>a. Cardinality(Unlinked \ ToLink(p)) <= failures
      BY <1>u, <2>1
    <3>4. Cardinality(Unlinked') <= failures'
      BY <1>f, <2>1, <3>a, <3>3
    <3>5. reviewer' = [reviewer EXCEPT ![p] = [pc |-> "rest"]]
      BY <1>w, <2>6 DEF Refreshed, Finish, Proceed
    <3>6. QED
      BY <1>t, <1>u, <2>1, <3>4, <3>5, LinksMove
  <2>7. CASE reviewer[p].decision # "none"
    <3> DEFINE s == [reviewer[p] EXCEPT !.pc = "decide"]
    <3>1. ToLink(p) = {}
      BY <2>7 DEF ToLink
    <3>2. Cardinality(Unlinked') <= Cardinality(Unlinked) /\ Cardinality(Unlinked') \in Nat
      <4>1. Unlinked' \in SUBSET Unlinked
        BY <2>5
      <4>2. QED
        BY <1>f, <4>1
    <3>a. Cardinality(Unlinked) <= failures
      BY <1>u, <2>1, <3>1
    <3>3. Cardinality(Unlinked') <= failures'
      BY <1>f, <2>1, <3>a, <3>2
    <3>4. reviewer' = [reviewer EXCEPT ![p] = s]
      BY <1>w, <2>7 DEF Refreshed, Proceed
    <3>5. s.pc = "decide" /\ reviewer'[p] = s
      BY <1>t, <2>2, <3>4 DEF Reviewing
    <3>6. UpToDate(p)' /\ ToLink(p)' = {}
      BY <3>5 DEF UpToDate, ToLink
    <3>7. Cardinality(Unlinked' \ ToLink(p)') <= failures' /\ Cardinality(Unlinked') <= failures' + 1
      <4>1. Unlinked' \ ToLink(p)' = Unlinked'
        BY <3>6
      <4>2. failures' \in Nat
        BY <1>f, <2>1
      <4>3. Cardinality(Unlinked') <= failures' + 1
        BY <3>2, <3>3, <4>2
      <4>4. QED
        BY <3>3, <4>1, <4>3
    <3>8. s.pc # "rest"
      BY <3>5
    <3>9. QED
      BY <1>t, <1>u, <2>1, <3>4, <3>6, <3>7, <3>8, LinksMove
  <2>8. QED
    BY <2>6, <2>7
<1>10. ASSUME NEW p \in Reviewers, CreateRecord(p) PROVE LinksInv'
  <2> DEFINE w == reviewer[p].window
  <2> DEFINE row == [made |-> TRUE, ids |-> reviewer[p].ids, decision |-> "PENDING"]
  <2>1. IsAt(p, "create") /\ ~IsAt(p, "rest") /\ UNCHANGED <<feedback, overlapped>>
    BY <1>10 DEF CreateRecord, Finish, Refreshed, Proceed, IsAt
  <2>2. ~record[w].made /\ w \in WindowId
    BY <1>r, <1>u, <2>1 DEF UpToDate, IsAt
  <2>3. record' = [record EXCEPT ![w] = row] /\ Refreshed(p)
    BY <1>10, <2>2 DEF CreateRecord
  <2>4. /\ record'[w].made /\ record'[w].ids = reviewer[p].ids
        /\ \A v \in WindowId \ {w} : record'[v] = record[v]
    BY <1>t, <2>2, <2>3
  <2>5. QED
    BY <1>w, <2>1, <2>3, <2>4
<1>11. ASSUME NEW p \in Reviewers, update_evidence(p) PROVE LinksInv'
  <2> DEFINE w == reviewer[p].window
  <2>1. /\ IsAt(p, "update") /\ Refreshed(p) /\ UNCHANGED feedback
        /\ record' = [record EXCEPT ![w].ids = reviewer[p].ids]
    BY <1>11 DEF update_evidence
  <2>2. w \in WindowId /\ record[w].made
    BY <1>r, <2>1 DEF IsAt, ReviewTypeOK, CallsOK
  <2>3. record[w] \in FinalReviewRecord
    BY <1>t, <2>2 DEF None
  <2>4. /\ record'[w].made /\ record'[w].ids = reviewer[p].ids
        /\ \A v \in WindowId \ {w} : record'[v] = record[v]
    BY <1>t, <2>1, <2>2, <2>3 DEF FinalReviewRecord
  <2>5. QED
    BY <1>w, <2>1, <2>4
<1>12. ASSUME NEW p \in Reviewers, WriteDecision(p) PROVE LinksInv'
  <2> DEFINE w == reviewer[p].window
  <2>1. /\ IsAt(p, "decide") /\ ~IsAt(p, "rest") /\ ToLink(p) = {}
        /\ UNCHANGED <<feedback, overlapped, failures>>
        /\ reviewer' = [reviewer EXCEPT ![p] = [pc |-> "rest"]]
        /\ record' = [record EXCEPT ![w].decision = reviewer[p].decision]
    BY <1>12 DEF WriteDecision, Finish, Proceed, IsAt, ToLink
  <2>2. w \in WindowId /\ record[w].made
    BY <1>r, <2>1 DEF IsAt, ReviewTypeOK, CallsOK
  <2>3. record[w] \in FinalReviewRecord
    BY <1>t, <2>2 DEF None
  <2>4. \A v \in WindowId : record'[v].made = record[v].made /\ record'[v].ids = record[v].ids
    BY <1>t, <2>1, <2>2, <2>3 DEF FinalReviewRecord
  <2>5. \A i \in DOMAIN feedback : feedback[i] \in WindowId
    <3>1. feedback \in Seq(DOMAIN windows) /\ DOMAIN windows \subseteq WindowId
      BY DEF ReviewTypeOK, TablesOK, WindowId, ReviewAssumption
    <3>2. QED
      BY <3>1
  <2>6. Unlinked' = Unlinked
    BY <2>1, <2>4, <2>5 DEF Unlinked
  <2>7. QED
    BY <1>e, <2>1, <2>6
<1>13. ASSUME NEW p \in Reviewers, Die(p) PROVE LinksInv'
  <2>1. /\ ~IsAt(p, "rest") /\ failures' = failures + 1
        /\ reviewer' = [reviewer EXCEPT ![p] = [pc |-> "rest"]]
        /\ UNCHANGED <<feedback, record, overlapped>>
    BY <1>13 DEF Die
  <2>2. Unlinked' = Unlinked
    BY <2>1 DEF Unlinked
  <2>3. Cardinality(Unlinked') <= failures'
    BY <1>u, <2>1, <2>2
  <2>4. QED
    BY <1>t, <1>u, <2>1, <2>3, LinksMove
<1>14. CASE UNCHANGED reviewVars
  <2>1. UNCHANGED <<feedback, record, reviewer, failures, overlapped>>
    BY <1>14 DEF reviewVars
  <2>2. QED
    BY <2>1 DEF LinksInv, Unlinked, ToLink, UpToDate, Resting, IsAt, list_by_window
<1>15. QED
  BY <1>1, <1>2, <1>3, <1>4, <1>5, <1>6, <1>7, <1>8, <1>9, <1>10, <1>11, <1>12,
     <1>13, <1>14
     DEF ReviewNext, refresh_review, record_feedback, record_decision

\* What the record of a window does not name is feedback of calls that died,
\* one row each, and of the call under way; unless calls overlap.
THEOREM RecordsListTheirFeedback == ReviewSpec => []FeedbackIsLinked
<1>1. ReviewInit => LinksInv
  <2> SUFFICES ASSUME ReviewInit PROVE LinksInv
    OBVIOUS
  <2>1. Unlinked = {}
    BY DEF ReviewInit, Unlinked
  <2>2. Cardinality(Unlinked) = 0
    BY <2>1, FS_EmptySet
  <2>3. QED
    BY <2>2 DEF ReviewInit, LinksInv, IsAt
<1>2. ReviewTypeOK /\ LinksInv => FeedbackIsLinked
  <2> SUFFICES ASSUME ReviewTypeOK, LinksInv, ~overlapped PROVE FeedbackIsLinked
    BY DEF FeedbackIsLinked
  <2> DEFINE AtWork == {p \in Reviewers : ~IsAt(p, "rest")}
  <2>1. IsFiniteSet(AtWork) /\ Cardinality(AtWork) \in Nat
    BY FS_Subset, FS_CardinalityType DEF ReviewAssumption
  <2>2. Cardinality(Unlinked) \in Nat /\ failures \in Nat
    BY UnlinkedIsFinite
  <2>3. CASE Resting
    BY <2>1, <2>2, <2>3 DEF LinksInv, FeedbackIsLinked
  <2>4. CASE ~Resting
    <3>1. AtWork # {}
      BY <2>4 DEF Resting
    <3>2. Cardinality(AtWork) # 0
      BY <2>1, <3>1, FS_EmptySet
    <3>3. Cardinality(Unlinked) <= failures + 1
      BY <2>4 DEF LinksInv, Resting
    <3>4. QED
      BY <2>1, <2>2, <3>2, <3>3 DEF FeedbackIsLinked
  <2>5. QED
    BY <2>3, <2>4
<1>3. QED
  BY <1>1, <1>2, ReviewTypeCorrect, LinksStep, PTL DEF ReviewSpec

-----------------------------------------------------------------------------
(***************************************************************************)
(* Migrations: SchemaMigrations                                            *)
(***************************************************************************)
USE MigrationAssumption

LEMMA InvInit == MigrationInit => SchemaInv
<1> SUFFICES ASSUME MigrationInit PROVE SchemaInv
  OBVIOUS
<1> USE DEF MigrationInit
<1>0. MaxCommands \in Nat /\ MaxFaults \in Nat /\ MaxDeaths \in Nat
  BY DEF MigrationAssumption
<1>1. \A p \in Installers : installer[p].pc = "off"
  BY DEF Off
<1>2. MigrationTypeOK
  <2>1. schema \in Image
    BY DEF Empty, Image
  <2>2. QED
    BY <1>0, <2>1 DEF MigrationTypeOK
<1>3. Applied(schema) = {} /\ \A c \in Commands : ByCommand(c) = {}
  BY DEF Empty, Applied, ByCommand
<1>4. VersionsAreTrue
  BY <1>3 DEF VersionsAreTrue, Empty
<1>5. BatchesAreAtomic
  BY <1>1, <1>3 DEF BatchesAreAtomic, ResultTrue, In
<1>6. CommandsOK
  BY <1>1, <1>3 DEF CommandsOK
<1>7. \A p \in Installers : InstallerOK(p)
  BY <1>1 DEF InstallerOK
<1>8. QED
  BY <1>2, <1>4, <1>5, <1>6, <1>7 DEF SchemaInv, SchemaIsWhole

\* A command goes on, or ends, and neither what is committed nor what any
\* command found pending changes: only its own state has to be looked at.
LEMMA LocalStep ==
  ASSUME SchemaInv, NEW p \in Installers, NEW s \in {Off} \cup Working,
         installer' = [installer EXCEPT ![p] = s],
         s.pc # "off" =>
           installer[p].pc # "off" /\ s.command = installer[p].command,
         UNCHANGED <<schema, batches, commands>>,
         paper_account' \subseteq Commands,
         faults' \in 0 .. MaxFaults, deaths' \in 0 .. MaxDeaths,
         exclusive' \subseteq Installers, exclusive \ {p} \subseteq exclusive',
         \A q, r \in exclusive' : q = r,
         InstallerOK(p)', ResultTrue(p)'
  PROVE  SchemaInv'
<1> USE DEF SchemaInv
<1>1. MigrationTypeOK'
  BY DEF MigrationTypeOK
<1>2. /\ Applied(schema)' = Applied(schema)
      /\ \A c \in Commands : ByCommand(c)' = ByCommand(c)
  BY DEF Applied, ByCommand
<1>3. \A q \in Installers \ {p} : installer'[q] = installer[q]
  BY DEF MigrationTypeOK
<1>4. installer'[p] = s
  BY DEF MigrationTypeOK
<1>5. VersionsAreTrue'
  BY <1>2 DEF SchemaIsWhole, VersionsAreTrue
<1>6. ASSUME NEW q \in Installers PROVE ResultTrue(q)'
  <2>1. CASE q = p
    BY <2>1
  <2>2. CASE q # p
    <3>1. ResultTrue(q) /\ installer'[q] = installer[q]
      BY <1>3, <2>2 DEF SchemaIsWhole, BatchesAreAtomic
    <3>2. QED
      BY <1>2, <3>1 DEF ResultTrue, In, ByCommand
  <2>3. QED
    BY <2>1, <2>2
<1>7. BatchesAreAtomic'
  BY <1>2, <1>6 DEF SchemaIsWhole, BatchesAreAtomic
<1>8. CommandsOK'
  <2>1. \A q, r \in Installers :
          installer'[q].pc # "off" => /\ installer[q].pc # "off"
                                      /\ installer'[q].command = installer[q].command
    BY <1>3, <1>4
  <2>2. QED
    BY <1>2, <2>1 DEF CommandsOK
<1>9. ASSUME NEW q \in Installers PROVE InstallerOK(q)'
  <2>1. CASE q = p
    BY <2>1
  <2>2. CASE q # p
    <3>1. InstallerOK(q) /\ installer'[q] = installer[q]
      BY <1>3, <2>2
    <3>2. OwnImage(q)' <=> OwnImage(q)
      BY <1>2, <3>1 DEF OwnImage
    <3>3. q \in exclusive => q \in exclusive'
      BY <2>2
    <3>4. QED
      BY <1>2, <3>1, <3>2, <3>3 DEF InstallerOK, ByCommand
  <2>3. QED
    BY <2>1, <2>2
<1>10. QED
  BY <1>1, <1>5, <1>7, <1>8, <1>9 DEF SchemaIsWhole

\* What is known of a command that is about to take a step.
LEMMA Known ==
  ASSUME SchemaInv, NEW p \in Installers, installer[p].pc # "off"
  PROVE  /\ installer[p] \in Working /\ InstallerOK(p)
         /\ exclusive \subseteq Installers /\ \A q, r \in exclusive : q = r
         /\ paper_account \subseteq Commands
         /\ faults \in 0 .. MaxFaults /\ deaths \in 0 .. MaxDeaths
         /\ schema \in Image /\ batches \in [Commands -> SUBSET Versions]
BY DEF SchemaInv, MigrationTypeOK, Off

\* A command ends with a result that is true.
LEMMA EndStep ==
  ASSUME SchemaInv, NEW p \in Installers, installer[p].pc # "off",
         NEW result \in {"applied", "rolled back", "blocked", "raised", "failed"},
         Ends(p, result),
         result \in {"raised", "rolled back", "blocked"} =>
           ByCommand(installer[p].command) = {},
         result = "applied" => installer[p].plan \subseteq Applied(schema),
         UNCHANGED <<schema, exclusive, batches, commands, deaths>>,
         paper_account' \subseteq Commands, faults' \in 0 .. MaxFaults
  PROVE  SchemaInv'
<1> DEFINE s == [installer[p] EXCEPT !.pc = "close", !.result = result]
<1>0. installer[p] \in Working /\ InstallerOK(p)
  BY Known
<1>1. s \in Working /\ s.pc = "close" /\ s.command = installer[p].command
        /\ s.plan = installer[p].plan /\ s.result = result
  BY <1>0 DEF Working
<1>2. installer' = [installer EXCEPT ![p] = s] /\ installer'[p] = s
  BY DEF Ends, Becomes, SchemaInv, MigrationTypeOK
<1>3. InstallerOK(p)'
  BY <1>0, <1>1, <1>2 DEF InstallerOK, Uncommitted, Locked
<1>4. ResultTrue(p)'
  <2>1. Applied(schema)' = Applied(schema)
          /\ \A c \in Commands : ByCommand(c)' = ByCommand(c)
    BY DEF Applied, ByCommand
  <2>2. installer'[p].command \in Commands
          /\ installer'[p].command = installer[p].command
          /\ installer'[p].plan = installer[p].plan
          /\ installer'[p].result = result
    BY <1>0, <1>1, <1>2 DEF Working
  <2> HIDE DEF s
  <2>3. QED
    BY <2>1, <2>2 DEF ResultTrue
<1>5. QED
  <2> HIDE DEF s
  <2>1. QED
    BY <1>1, <1>2, <1>3, <1>4, LocalStep, Known

\* A command moves to a step that assumes no more than that it has committed
\* nothing, and has the lock if the step needs it.
LEMMA MoveStep ==
  ASSUME SchemaInv, NEW p \in Installers, installer[p].pc \in Uncommitted,
         NEW pc \in {"check", "begin", "raised", "undo"}, MovesTo(p, pc),
         pc = "undo" => p \in exclusive',
         UNCHANGED <<schema, batches, commands, paper_account, deaths>>,
         exclusive' \in {exclusive, exclusive \ {p}},
         faults' \in 0 .. MaxFaults
  PROVE  SchemaInv'
<1> DEFINE s == [installer[p] EXCEPT !.pc = pc]
<1>0. installer[p].pc # "off" /\ installer[p] \in Working /\ InstallerOK(p)
  BY Known DEF Uncommitted, Locked
<1>1. s \in Working /\ s.pc = pc /\ s.command = installer[p].command
  BY <1>0 DEF Working
<1>2. installer' = [installer EXCEPT ![p] = s] /\ installer'[p] = s
  BY DEF MovesTo, Becomes, SchemaInv, MigrationTypeOK
<1>3. InstallerOK(p)'
  <2>1. {row[1] : row \in {r \in schema.rows : r[2] = s.command}} = {}
    BY <1>0, <1>1 DEF InstallerOK, ByCommand
  <2>2. s.command <= commands
    BY <1>0, <1>1 DEF InstallerOK
  <2>3. s.pc \in Locked => p \in exclusive'
    BY <1>1 DEF Locked
  <2>4. s.pc \notin {"pending", "next", "statement", "seek", "seed"}
    BY <1>1
  <2> HIDE DEF s
  <2>5. QED
    BY <1>2, <2>1, <2>2, <2>3, <2>4 DEF InstallerOK, ByCommand
<1>4. ResultTrue(p)'
  BY <1>1, <1>2 DEF ResultTrue, In
<1>5. QED
  <2> HIDE DEF s
  <2>1. QED
    BY <1>0, <1>1, <1>2, <1>3, <1>4, LocalStep, Known

\* A command that has what it was asked for goes on to the account.
LEMMA SeekStep ==
  ASSUME SchemaInv, NEW p \in Installers, installer[p].pc # "off",
         NEW pc \in {"seek", "seed"}, MovesTo(p, pc),
         installer[p].plan \subseteq Applied(schema),
         UNCHANGED <<schema, exclusive, paper_account, batches, migrationCounts>>
  PROVE  SchemaInv'
<1> DEFINE s == [installer[p] EXCEPT !.pc = pc]
<1>0. installer[p] \in Working /\ InstallerOK(p)
  BY Known
<1>1. s \in Working /\ s.pc = pc /\ s.command = installer[p].command
        /\ s.plan = installer[p].plan
  BY <1>0 DEF Working
<1>2. installer' = [installer EXCEPT ![p] = s] /\ installer'[p] = s
  BY DEF MovesTo, Becomes, SchemaInv, MigrationTypeOK
<1>3. InstallerOK(p)'
  BY <1>0, <1>1, <1>2 DEF InstallerOK, Uncommitted, Locked, Applied, migrationCounts
<1>4. ResultTrue(p)'
  BY <1>1, <1>2 DEF ResultTrue, In
<1>5. QED
  <2> HIDE DEF s
  <2>1. QED
    BY <1>1, <1>2, <1>3, <1>4, LocalStep, Known DEF migrationCounts

\* Under the lock the command only changes its image.
LEMMA ImageStep ==
  ASSUME SchemaInv, NEW p \in Installers, installer[p].pc \in Locked,
         NEW s \in Working, Becomes(p, s), s.pc \in {"next", "statement"},
         s.command = installer[p].command,
         OwnImage(p)',
         s.pc = "statement" =>
           s.version \in s.pending /\ s.left <= Statements[s.version],
         UNCHANGED <<schema, exclusive, paper_account, batches, migrationCounts>>
  PROVE  SchemaInv'
<1>0. installer[p].pc # "off" /\ installer[p] \in Working /\ InstallerOK(p)
  BY Known DEF Locked
<1>2. installer' = [installer EXCEPT ![p] = s] /\ installer'[p] = s
  BY DEF Becomes, SchemaInv, MigrationTypeOK
<1>3. InstallerOK(p)'
  BY <1>0, <1>2 DEF InstallerOK, Uncommitted, Locked, ByCommand, migrationCounts
<1>4. ResultTrue(p)'
  BY <1>2 DEF ResultTrue, In
<1>5. QED
  BY <1>0, <1>2, <1>3, <1>4, LocalStep, Known DEF migrationCounts

-----------------------------------------------------------------------------
(***************************************************************************)
(* The steps                                                               *)
(***************************************************************************)
LEMMA StartStep ==
  ASSUME SchemaInv, NEW p \in Installers, NEW plan \in MigrationPlans,
         StartCommand(p, plan)
  PROVE  SchemaInv'
<1> USE DEF SchemaInv
<1>m. MaxCommands \in Nat
  BY DEF MigrationAssumption
<1>0. /\ commands \in Nat /\ commands + 1 \in Commands /\ commands' = commands + 1
      /\ plan \in SUBSET Versions /\ installer[p].pc = "off"
  <2>1. plan \in SUBSET Versions
    BY DEF MigrationAssumption
  <2>2. installer[p].pc = "off" /\ commands < MaxCommands /\ commands' = commands + 1
    BY DEF StartCommand, In
  <2>3. commands \in 0 .. MaxCommands
    BY DEF MigrationTypeOK
  <2>4. QED
    BY <1>m, <2>1, <2>2, <2>3 DEF Commands
<1>w. ASSUME NEW q \in Installers, installer[q].pc # "off"
      PROVE  /\ installer[q].command \in Nat
             /\ installer[q].command <= commands
  <2>1. installer[q] \in Working /\ InstallerOK(q)
    BY <1>w, Known
  <2>2. installer[q].command \in Commands
    BY <2>1 DEF Working
  <2>3. QED
    BY <1>m, <1>w, <2>1, <2>2 DEF InstallerOK, Commands
<1>1. /\ installer'[p] \in Working
      /\ installer'[p].pc \in {"before", "check"}
      /\ installer'[p].command = commands + 1
  <2>1. Empty \in Image
    BY DEF Empty, Image
  <2>2. QED
    BY <1>0, <2>1 DEF StartCommand, Becomes, MigrationTypeOK, Working
<1>2. \A q \in Installers \ {p} : installer'[q] = installer[q]
  BY DEF StartCommand, Becomes, MigrationTypeOK
<1>3. /\ Applied(schema)' = Applied(schema)
      /\ \A c \in Commands : ByCommand(c)' = ByCommand(c)
  BY DEF StartCommand, Applied, ByCommand
<1>4. MigrationTypeOK'
  <2>1. installer' \in [Installers -> {Off} \cup Working]
    BY <1>1, <1>2 DEF StartCommand, Becomes, MigrationTypeOK
  <2>2. commands' \in 0 .. MaxCommands
    BY <1>0 DEF Commands
  <2>3. QED
    BY <2>1, <2>2 DEF StartCommand, MigrationTypeOK
<1>5. SchemaIsWhole'
  <2>1. VersionsAreTrue'
    BY <1>3 DEF StartCommand, SchemaIsWhole, VersionsAreTrue
  <2>2. ASSUME NEW q \in Installers PROVE ResultTrue(q)'
    <3>1. CASE q = p
      BY <1>1, <3>1 DEF ResultTrue, In
    <3>2. CASE q # p
      <4>1. ResultTrue(q) /\ installer'[q] = installer[q]
        BY <1>2, <3>2 DEF SchemaIsWhole, BatchesAreAtomic
      <4>2. QED
        BY <1>3, <4>1 DEF ResultTrue, In, StartCommand, ByCommand
    <3>3. QED
      BY <3>1, <3>2
  <2>3. QED
    BY <1>3, <2>1, <2>2 DEF StartCommand, SchemaIsWhole, BatchesAreAtomic
<1>6. CommandsOK'
  <2>1. \A q \in Installers : installer[q].pc # "off" =>
          installer[q].command \in Nat /\ installer[q].command <= commands
    BY <1>w
  <2>2. \A q \in Installers \ {p} : installer'[q].pc # "off" =>
          installer'[q].command # commands + 1
    BY <1>0, <1>2, <2>1
  <2>3. \A q, r \in Installers :
          /\ installer'[q].pc # "off" /\ installer'[r].pc # "off"
          /\ installer'[q].command = installer'[r].command
          => q = r
    BY <1>1, <1>2, <2>2 DEF CommandsOK
  <2>4. \A c \in Commands : c > commands' => ByCommand(c)' = {}
    BY <1>0, <1>3 DEF CommandsOK, Commands
  <2>5. QED
    BY <2>3, <2>4 DEF CommandsOK
<1>7. ASSUME NEW q \in Installers PROVE InstallerOK(q)'
  <2>1. CASE q = p
    <3>1. ASSUME NEW c \in Commands, c = commands'
          PROVE  ByCommand(c)' = {}
      BY <1>0, <1>3, <3>1 DEF CommandsOK
    <3>2. ByCommand(installer[p].command)' = {}
      BY <1>0, <1>1, <3>1
    <3>3. QED
      BY <1>0, <1>1, <2>1, <3>2 DEF InstallerOK, Locked
  <2>2. CASE q # p
    <3>1. InstallerOK(q) /\ installer'[q] = installer[q]
      BY <1>2, <2>2
    <3>2. OwnImage(q)' <=> OwnImage(q)
      BY <1>3, <3>1 DEF OwnImage, StartCommand
    <3>3. installer[q].pc # "off" =>
            /\ installer[q].command \in Nat /\ installer[q].command <= commands
            /\ ByCommand(installer[q].command)' = ByCommand(installer[q].command)
      BY <1>w, <3>1 DEF ByCommand, StartCommand
    <3>4. UNCHANGED <<schema, exclusive>> /\ commands' = commands + 1
      BY <1>0 DEF StartCommand
    <3>5. CASE installer[q].pc # "off"
      <4>1. installer[q].command <= commands'
        BY <1>0, <3>3, <3>4, <3>5
      <4>2. QED
        BY <1>3, <3>1, <3>2, <3>3, <3>4, <3>5, <4>1 DEF InstallerOK
    <3>6. QED
      BY <3>1, <3>5 DEF InstallerOK
  <2>3. QED
    BY <2>1, <2>2
<1>8. QED
  BY <1>4, <1>5, <1>6, <1>7 DEF StartCommand

LEMMA PendingStep ==
  ASSUME SchemaInv, NEW p \in Installers, ReadPending(p)
  PROVE  SchemaInv'
<1> DEFINE me == installer[p]
           found == me.plan \ Applied(me.image)
<1> USE DEF SchemaInv
<1>0. me.pc = "pending" /\ me \in Working /\ InstallerOK(p)
  BY Known DEF ReadPending, In
<1>1. p \in exclusive /\ me.image = schema /\ ByCommand(me.command) = {}
        /\ me.command \in Commands /\ me.plan \subseteq Versions
  BY <1>0 DEF InstallerOK, Locked, Uncommitted, Working
<1>2. /\ UNCHANGED <<schema, exclusive, paper_account, commands, faults, deaths>>
      /\ batches' = [batches EXCEPT ![me.command] = found]
  BY DEF ReadPending, migrationCounts
<1>3. /\ installer' = [installer EXCEPT ![p] = [me EXCEPT !.pc = "next", !.pending = found]]
      /\ installer'[p] = [me EXCEPT !.pc = "next", !.pending = found]
      /\ \A q \in Installers \ {p} : installer'[q] = installer[q]
  BY DEF ReadPending, Becomes, MigrationTypeOK
<1>4. /\ installer'[p] \in Working /\ installer'[p].pc = "next"
      /\ installer'[p].command = me.command /\ installer'[p].plan = me.plan
      /\ installer'[p].pending = found /\ installer'[p].image = schema
  <2>1. found \in SUBSET Versions
    BY <1>1
  <2>2. ASSUME NEW S \in SUBSET Versions, NEW t \in Working
        PROVE  LET u == [t EXCEPT !.pc = "next", !.pending = S]
               IN  /\ u \in Working /\ u.pc = "next" /\ u.command = t.command
                   /\ u.plan = t.plan /\ u.pending = S /\ u.image = t.image
    BY DEF Working
  <2> HIDE DEF found, me
  <2> DEFINE u == [me EXCEPT !.pc = "next", !.pending = found]
  <2>a. me \in Working
    BY <1>0
  <2>3. /\ u \in Working /\ u.pc = "next" /\ u.command = me.command
        /\ u.plan = me.plan /\ u.pending = found /\ u.image = me.image
    BY ONLY <2>1, <2>2, <2>a
  <2>4. installer'[p] = u
    BY <1>3
  <2> HIDE DEF u
  <2>5. QED
    BY <1>1, <2>3, <2>4
<1>5. /\ Applied(schema)' = Applied(schema)
      /\ \A c \in Commands : ByCommand(c)' = ByCommand(c)
  BY <1>2 DEF Applied, ByCommand
<1>6. /\ batches'[me.command] = found
      /\ \A c \in Commands \ {me.command} : batches'[c] = batches[c]
      /\ batches' \in [Commands -> SUBSET Versions]
  BY <1>1, <1>2 DEF MigrationTypeOK
<1> HIDE DEF me, found
<1>7. MigrationTypeOK'
  <2>1. installer' \in [Installers -> {Off} \cup Working]
    BY <1>3, <1>4 DEF MigrationTypeOK, me
  <2>2. QED
    BY <1>2, <1>6, <2>1 DEF MigrationTypeOK
<1>8. VersionsAreTrue'
  BY <1>2, <1>5 DEF SchemaIsWhole, VersionsAreTrue
<1>9. ASSUME NEW q \in Installers PROVE ResultTrue(q)'
  <2>1. CASE q = p
    BY <1>4, <2>1 DEF ResultTrue, In
  <2>2. CASE q # p
    <3>1. ResultTrue(q) /\ installer'[q] = installer[q]
      BY <1>3, <2>2 DEF SchemaIsWhole, BatchesAreAtomic
    <3>2. QED
      BY <1>2, <1>5, <3>1 DEF ResultTrue, In, ByCommand
  <2>3. QED
    BY <2>1, <2>2
<1>10. BatchesAreAtomic'
  BY <1>1, <1>5, <1>6, <1>9 DEF SchemaIsWhole, BatchesAreAtomic
<1>11. CommandsOK'
  <2>1. \A q \in Installers :
          /\ installer'[q].pc # "off" <=> installer[q].pc # "off"
          /\ installer'[q].pc # "off" => installer'[q].command = installer[q].command
    BY <1>0, <1>3, <1>4 DEF me
  <2>2. QED
    BY <1>2, <1>5, <2>1 DEF CommandsOK
<1>12. OwnImage(p)'
  <2>1. found \subseteq Versions /\ found = me.plan \ Applied(schema)
    BY <1>1 DEF found
  <2>2. batches'[me.command] \ found = {}
    BY <1>6
  <2>3. \A v \in Versions :
          schema.ran[v] = IF v \in Applied(schema) THEN Statements[v] ELSE 0
    BY DEF SchemaIsWhole, VersionsAreTrue
  <2>4. {} \X {me.command} = {}
    OBVIOUS
  <2>5. QED
    BY <1>2, <1>4, <1>5, <1>6, <2>1, <2>2, <2>3, <2>4 DEF OwnImage
<1>13. ASSUME NEW q \in Installers PROVE InstallerOK(q)'
  <2>1. CASE q = p
    <3>1. me.command <= commands
      BY <1>0 DEF InstallerOK, me
    <3>2. ByCommand(installer[p].command)' = {}
      BY <1>1, <1>4, <1>5
    <3>3. QED
      BY <1>1, <1>2, <1>4, <1>12, <2>1, <3>1, <3>2 DEF InstallerOK
  <2>2. CASE q # p
    <3>1. InstallerOK(q) /\ installer'[q] = installer[q]
      BY <1>3, <2>2
    <3>2. installer[q].pc \notin {"next", "statement"} \/ installer[q].pc = "off"
      BY <1>1, <2>2, <3>1 DEF InstallerOK, Locked
    <3>3. QED
      BY <1>2, <1>5, <3>1, <3>2 DEF InstallerOK, ByCommand
  <2>3. QED
    BY <2>1, <2>2
<1>14. QED
  BY <1>2, <1>7, <1>8, <1>10, <1>11, <1>13 DEF SchemaIsWhole

LEMMA CommitStep ==
  ASSUME SchemaInv, NEW p \in Installers, Commit(p)
  PROVE  SchemaInv'
<1> DEFINE me == installer[p]
           batch == batches[me.command]
<1> USE DEF SchemaInv
<1>0. me.pc = "next" /\ me.pending = {} /\ me \in Working /\ InstallerOK(p)
  BY Known DEF Commit, In
<1>1. /\ p \in exclusive /\ ByCommand(me.command) = {} /\ OwnImage(p)
      /\ me.command \in Commands /\ me.plan \subseteq Versions /\ me.image \in Image
      /\ me.command <= commands
  BY <1>0 DEF InstallerOK, Locked, Uncommitted, Working
<1>2. /\ schema' = me.image /\ exclusive' = exclusive \ {p}
      /\ UNCHANGED <<paper_account, batches, commands, faults, deaths>>
      /\ Succeed(p)
  BY DEF Commit, migrationCounts
<1>3. /\ installer'[p] \in Working
      /\ installer'[p].pc \in {"seek", "close"}
      /\ installer'[p].command = me.command /\ installer'[p].plan = me.plan
      /\ installer'[p].pc = "close" => installer'[p].result = "applied"
      /\ \A q \in Installers \ {p} : installer'[q] = installer[q]
  <2>1. CASE RunsInit(p)
    <3>1. installer' = [installer EXCEPT ![p] = [me EXCEPT !.pc = "seek"]]
      BY <1>2, <2>1 DEF Succeed, MovesTo, Becomes
    <3>2. QED
      BY <1>0, <3>1 DEF MigrationTypeOK, Working
  <2>2. CASE ~RunsInit(p)
    <3>1. installer' = [installer EXCEPT ![p] =
                          [me EXCEPT !.pc = "close", !.result = "applied"]]
      BY <1>2, <2>2 DEF Succeed, Ends, Becomes
    <3>2. QED
      BY <1>0, <3>1 DEF MigrationTypeOK, Working
  <2>3. QED
    BY <2>1, <2>2
<1>4. /\ batch = me.plan \ Applied(schema) /\ batch \subseteq Versions
      /\ schema'.rows = schema.rows \cup (batch \X {me.command})
      /\ \A v \in Versions : schema'.ran[v] =
           IF v \in Applied(schema) \cup batch THEN Statements[v] ELSE 0
  BY <1>0, <1>1, <1>2 DEF OwnImage
<1> HIDE DEF me, batch
<1>r. schema.rows \subseteq Versions \X Commands
  BY DEF MigrationTypeOK, Image
<1>5. Applied(schema)' = Applied(schema) \cup batch
  <2>1. \A v \in Applied(schema)' : v \in Applied(schema) \cup batch
    BY <1>4 DEF Applied
  <2>2. \A v \in Applied(schema) : v \in Applied(schema)'
    BY <1>4 DEF Applied
  <2>3. ASSUME NEW v \in batch PROVE v \in Applied(schema)'
    <3>1. <<v, me.command>> \in schema'.rows
      BY <1>4
    <3>2. QED
      BY <3>1 DEF Applied
  <2>4. QED
    BY <2>1, <2>2, <2>3
<1>6. \A c \in Commands :
        ByCommand(c)' = IF c = me.command THEN batch ELSE ByCommand(c)
  <2>1. ASSUME NEW c \in Commands
        PROVE  ByCommand(c)' = ByCommand(c) \cup (IF c = me.command THEN batch ELSE {})
    <3>1. \A v \in ByCommand(c)' : v \in ByCommand(c) \/ (c = me.command /\ v \in batch)
      BY <1>4 DEF ByCommand
    <3>2. \A v \in ByCommand(c) : v \in ByCommand(c)'
      BY <1>4 DEF ByCommand
    <3>3. c = me.command => \A v \in batch : v \in ByCommand(c)'
      <4>1. SUFFICES ASSUME c = me.command, NEW v \in batch PROVE v \in ByCommand(c)'
        OBVIOUS
      <4>2. <<v, c>> \in schema'.rows
        BY <1>4, <4>1
      <4>3. QED
        BY <4>2 DEF ByCommand
    <3>4. QED
      BY <3>1, <3>2, <3>3
  <2>2. QED
    BY <1>1, <2>1 DEF me
<1>7. MigrationTypeOK'
  <2>1. installer' \in [Installers -> {Off} \cup Working]
    <3>1. installer' = [installer EXCEPT ![p] = installer'[p]]
      BY <1>2, <1>3 DEF Succeed, MovesTo, Ends, Becomes, MigrationTypeOK
    <3>2. QED
      BY <1>3, <3>1 DEF MigrationTypeOK
  <2>2. QED
    BY <1>1, <1>2, <2>1 DEF MigrationTypeOK
<1>8. VersionsAreTrue'
  <2>1. ASSUME NEW r \in schema'.rows, NEW s \in schema'.rows, r[1] = s[1]
        PROVE  r = s
    <3>1. r \in schema.rows \/ (r[1] \in batch /\ r = <<r[1], me.command>>)
      BY <1>4
    <3>2. s \in schema.rows \/ (s[1] \in batch /\ s = <<s[1], me.command>>)
      BY <1>4
    <3>3. \A t \in schema.rows : t[1] \notin batch
      BY <1>4 DEF Applied
    <3>4. QED
      BY <2>1, <3>1, <3>2, <3>3 DEF SchemaIsWhole, VersionsAreTrue
  <2>2. QED
    BY <1>4, <1>5, <2>1 DEF VersionsAreTrue
<1>p. me.plan \subseteq Applied(schema)'
  BY <1>4, <1>5
<1>c. \A q \in Installers \ {p} : installer[q].pc # "off" =>
        /\ installer[q] \in Working /\ installer[q].command \in Commands
        /\ installer[q].command # me.command
  <2>1. ASSUME NEW q \in Installers \ {p}, installer[q].pc # "off"
        PROVE  /\ installer[q] \in Working /\ installer[q].command \in Commands
               /\ installer[q].command # me.command
    <3>1. installer[q] \in Working
      BY <2>1, Known
    <3>2. installer[q].command # me.command
      BY <1>0, <2>1 DEF CommandsOK, me
    <3>3. QED
      BY <3>1, <3>2 DEF Working
  <2>2. QED
    BY <2>1
<1>9. ASSUME NEW q \in Installers PROVE ResultTrue(q)'
  <2>1. CASE q = p
    BY <1>3, <1>p, <2>1 DEF ResultTrue, In
  <2>2. CASE q # p
    <3>1. ResultTrue(q) /\ installer'[q] = installer[q]
      BY <1>3, <2>2 DEF SchemaIsWhole, BatchesAreAtomic
    <3>2. CASE installer[q].pc = "close"
      <4>1. /\ installer[q].command \in Commands
            /\ \A c \in Commands : c = installer[q].command => ByCommand(c)' = ByCommand(c)
        BY <1>6, <1>c, <2>2, <3>2
      <4>2. PICK c \in Commands : c = installer[q].command
        BY <4>1
      <4>3. {row[1] : row \in {r \in schema'.rows : r[2] = c}}
              = {row[1] : row \in {r \in schema.rows : r[2] = c}}
        BY <4>1, <4>2 DEF ByCommand
      <4>4. installer[q].result = "applied" => installer[q].plan \subseteq Applied(schema)'
        BY <1>5, <3>1, <3>2 DEF ResultTrue, In
      <4>5. installer[q].result \in {"raised", "rolled back", "blocked"} =>
              {row[1] : row \in {r \in schema.rows : r[2] = c}} = {}
        BY <3>1, <3>2, <4>2 DEF ResultTrue, In, ByCommand
      <4>6. QED
        BY <3>1, <3>2, <4>2, <4>3, <4>4, <4>5 DEF ResultTrue, In, ByCommand
    <3>3. QED
      BY <3>1, <3>2 DEF ResultTrue, In
  <2>3. QED
    BY <2>1, <2>2
<1>10. BatchesAreAtomic'
  <2>1. \A c \in Commands : ByCommand(c)' \in {{}, batches'[c]}
    <3>1. ASSUME NEW c \in Commands PROVE ByCommand(c)' \in {{}, batches'[c]}
      <4>1. CASE c = me.command
        BY <1>2, <1>6, <4>1 DEF batch
      <4>2. CASE c # me.command
        BY <1>2, <1>6, <4>2 DEF SchemaIsWhole, BatchesAreAtomic
      <4>3. QED
        BY <4>1, <4>2
    <3>2. QED
      BY <3>1
  <2>2. QED
    BY <1>9, <2>1 DEF BatchesAreAtomic
<1>11. CommandsOK'
  <2>1. \A q \in Installers :
          /\ installer'[q].pc # "off" <=> installer[q].pc # "off"
          /\ installer'[q].pc # "off" => installer'[q].command = installer[q].command
    BY <1>0, <1>3 DEF me
  <2>2. commands \in Nat /\ Commands \subseteq Nat
    BY DEF MigrationTypeOK, Commands
  <2>3. \A c \in Commands : c > commands' => ByCommand(c)' = {}
    <3>1. ASSUME NEW c \in Commands, c > commands PROVE ByCommand(c)' = {}
      <4>1. c # me.command
        BY <1>1, <2>2, <3>1 DEF me
      <4>2. QED
        BY <1>6, <3>1, <4>1 DEF CommandsOK
    <3>2. QED
      BY <1>2, <3>1
  <2>4. QED
    BY <2>1, <2>3 DEF CommandsOK
<1>12. ASSUME NEW q \in Installers PROVE InstallerOK(q)'
  <2>1. CASE q = p
    BY <1>1, <1>2, <1>3, <1>p, <2>1 DEF InstallerOK, Uncommitted, Locked, me
  <2>2. CASE q # p
    <3>1. InstallerOK(q) /\ installer'[q] = installer[q]
      BY <1>3, <2>2
    <3>2. CASE installer[q].pc # "off"
      <4>1. installer[q].pc \notin Locked
        BY <1>1, <2>2, <3>1, <3>2 DEF InstallerOK
      <4>2. /\ installer[q].command \in Commands
            /\ \A c \in Commands : c = installer[q].command => ByCommand(c)' = ByCommand(c)
        BY <1>6, <1>c, <2>2, <3>2
      <4>3. QED
        BY <1>2, <1>5, <3>1, <3>2, <4>1, <4>2 DEF InstallerOK, Locked, ByCommand
    <3>3. QED
      BY <3>1, <3>2 DEF InstallerOK
  <2>3. QED
    BY <2>1, <2>2
<1>13. QED
  BY <1>2, <1>7, <1>8, <1>10, <1>11, <1>12 DEF SchemaIsWhole

\* The rest of the steps under the lock: they change the image.
LEMMA NextMigrationStep ==
  ASSUME SchemaInv, NEW p \in Installers, NEW v \in Versions, NextMigration(p, v)
  PROVE  SchemaInv'
<1> DEFINE me == installer[p]
           s == [me EXCEPT !.pc = "statement", !.version = v, !.left = Statements[v]]
<1>0. me.pc = "next" /\ me \in Working /\ InstallerOK(p) /\ v \in me.pending
        /\ Statements[v] \in Nat
  BY Known DEF NextMigration, In, MigrationAssumption
<1>1. OwnImage(p) /\ me.pc \in Locked
  BY <1>0 DEF InstallerOK, Locked
<1>2. /\ s \in Working /\ s.pc = "statement" /\ s.command = me.command
      /\ s.plan = me.plan /\ s.pending = me.pending /\ s.image = me.image
      /\ s.version = v /\ s.left = Statements[v]
  BY <1>0 DEF Working
<1>3. /\ UNCHANGED <<schema, exclusive, paper_account, batches, migrationCounts>>
      /\ Becomes(p, s) /\ installer'[p] = s
  BY DEF NextMigration, Becomes, SchemaInv, MigrationTypeOK
<1> HIDE DEF s
<1>4. OwnImage(p)'
  BY <1>0, <1>1, <1>2, <1>3 DEF OwnImage, Applied
<1>5. QED
  BY <1>0, <1>1, <1>2, <1>3, <1>4, ImageStep

LEMMA StatementStep ==
  ASSUME SchemaInv, NEW p \in Installers, RunStatement(p)
  PROVE  SchemaInv'
<1> DEFINE me == installer[p]
           v == me.version
           s == [me EXCEPT !.left = @ - 1, !.image.ran[v] = @ + 1]
<1>0. me.pc = "statement" /\ me \in Working /\ InstallerOK(p) /\ me.left > 0
  BY Known DEF RunStatement, In
<1>1. OwnImage(p) /\ me.pc \in Locked /\ v \in me.pending /\ me.left <= Statements[v]
  BY <1>0 DEF InstallerOK, Locked
<1>2. v \in Versions /\ me.left \in Nat /\ me.image \in Image /\ Statements[v] \in Nat
        /\ me.pending \subseteq Versions
  BY <1>0, <1>1 DEF Working, MigrationAssumption
<1>3. me.image.ran[v] = Statements[v] - me.left
  <2>1. v \notin Applied(schema) \cup (batches[me.command] \ me.pending)
    BY <1>1 DEF OwnImage
  <2>2. QED
    BY <1>0, <1>1, <1>2, <2>1 DEF OwnImage
<1>4. /\ s \in Working /\ s.pc = "statement" /\ s.command = me.command
      /\ s.plan = me.plan /\ s.pending = me.pending /\ s.version = v
      /\ s.left = me.left - 1 /\ s.image.rows = me.image.rows
      /\ s.image.ran = [me.image.ran EXCEPT ![v] = @ + 1]
  <2> DEFINE image == [me.image EXCEPT !.ran[v] = @ + 1]
  <2>1. /\ image \in Image /\ image.rows = me.image.rows
        /\ image.ran = [me.image.ran EXCEPT ![v] = @ + 1]
    BY <1>2 DEF Image
  <2>2. s = [me EXCEPT !.left = @ - 1, !.image = image]
    BY <1>0 DEF Working
  <2>3. me.left - 1 \in Nat
    BY <1>0, <1>2
  <2> HIDE DEF image, s
  <2>4. QED
    BY <1>0, <2>1, <2>2, <2>3 DEF Working
<1>5. /\ UNCHANGED <<schema, exclusive, paper_account, batches, migrationCounts>>
      /\ Becomes(p, s) /\ installer'[p] = s
  BY DEF RunStatement, Becomes, SchemaInv, MigrationTypeOK
<1> HIDE DEF s
<1>6. OwnImage(p)'
  <2>1. \A w \in Versions :
          s.image.ran[w] = IF w = v THEN me.image.ran[w] + 1 ELSE me.image.ran[w]
    BY <1>2, <1>4 DEF Image
  <2>2. s.image.ran[v] = Statements[v] - s.left
    <3>1. s.image.ran[v] = (Statements[v] - me.left) + 1
      BY <1>2, <1>3, <2>1
    <3>2. s.left = me.left - 1 /\ me.left \in Nat /\ Statements[v] \in Nat
      BY <1>2, <1>4
    <3>3. QED
      BY <3>1, <3>2
  <2>3. v \notin Applied(schema) \cup (batches[me.command] \ me.pending)
    BY <1>1 DEF OwnImage
  <2>4. /\ s.pending \subseteq batches[me.command]
        /\ batches[me.command] = me.plan \ Applied(schema)
        /\ s.image.rows =
             schema.rows \cup ((batches[me.command] \ s.pending) \X {me.command})
    BY <1>1, <1>4 DEF OwnImage
  <2>5. ASSUME NEW w \in Versions
        PROVE  s.image.ran[w] =
                 IF w \in Applied(schema) \cup (batches[me.command] \ s.pending)
                 THEN Statements[w]
                 ELSE IF w = v THEN Statements[w] - s.left ELSE 0
    <3>1. CASE w = v
      BY <1>4, <2>2, <2>3, <3>1
    <3>2. CASE w # v
      BY <1>0, <1>1, <1>4, <2>1, <3>2 DEF OwnImage
    <3>3. QED
      BY <3>1, <3>2
  <2>6. QED
    BY <1>4, <1>5, <2>4, <2>5 DEF OwnImage, Applied
<1>7. QED
  BY <1>0, <1>1, <1>2, <1>4, <1>5, <1>6, ImageStep

LEMMA InsertStep ==
  ASSUME SchemaInv, NEW p \in Installers, InsertVersion(p)
  PROVE  SchemaInv'
<1> DEFINE me == installer[p]
           v == me.version
           s == [me EXCEPT !.pc = "next", !.pending = @ \ {v},
                           !.image.rows = @ \cup {<<v, me.command>>}]
<1>0. me.pc = "statement" /\ me \in Working /\ InstallerOK(p) /\ me.left = 0
  BY Known DEF InsertVersion, In
<1>1. OwnImage(p) /\ me.pc \in Locked /\ me.pc \in Uncommitted /\ p \in exclusive
        /\ v \in me.pending
  BY <1>0 DEF InstallerOK, Locked, Uncommitted
<1>2. v \in Versions /\ me.command \in Commands /\ me.image \in Image
        /\ me.pending \subseteq Versions /\ Statements[v] \in Nat
  BY <1>0, <1>1 DEF Working, MigrationAssumption
<1>u. UNCHANGED <<schema, exclusive, paper_account, batches, migrationCounts>>
  BY DEF InsertVersion
<1>3. CASE v \in Applied(me.image)
  <2>1. MovesTo(p, "undo")
    BY <1>3 DEF InsertVersion
  <2>2. faults' \in 0 .. MaxFaults
    BY <1>u DEF SchemaInv, MigrationTypeOK, migrationCounts
  <2>3. QED
    BY <1>1, <1>u, <2>1, <2>2, MoveStep DEF migrationCounts
<1>4. CASE v \notin Applied(me.image)
  <2>1. /\ s \in Working /\ s.pc = "next" /\ s.command = me.command
        /\ s.plan = me.plan /\ s.pending = me.pending \ {v}
        /\ s.image.rows = me.image.rows \cup {<<v, me.command>>}
        /\ s.image.ran = me.image.ran
    <3>1. [me.image EXCEPT !.rows = @ \cup {<<v, me.command>>}] \in Image
      BY <1>2 DEF Image
    <3>2. s = [me EXCEPT !.pc = "next", !.pending = @ \ {v},
                         !.image = [me.image EXCEPT !.rows = @ \cup {<<v, me.command>>}]]
      BY <1>0 DEF Working
    <3>3. QED
      BY <1>0, <1>2, <3>1, <3>2 DEF Working, Image
  <2>2. Becomes(p, s) /\ installer'[p] = s
    BY <1>4 DEF InsertVersion, Becomes, SchemaInv, MigrationTypeOK
  <2> DEFINE done == batches[me.command] \ me.pending
  <2>3. batches[me.command] \ s.pending = done \cup {v}
    BY <1>1, <2>1 DEF OwnImage
  <2> HIDE DEF s
  <2>4. OwnImage(p)'
    <3>1. s.pending \subseteq batches[me.command]
            /\ batches[me.command] = me.plan \ Applied(schema)
      BY <1>1, <2>1 DEF OwnImage
    <3>2. s.image.rows = schema.rows \cup ((done \cup {v}) \X {me.command})
      BY <1>1, <2>1 DEF OwnImage
    <3>3. ASSUME NEW w \in Versions
          PROVE  s.image.ran[w] =
                   IF w \in Applied(schema) \cup (done \cup {v}) THEN Statements[w] ELSE 0
      <4>1. me.image.ran[w] = IF w \in Applied(schema) \cup done THEN Statements[w]
                              ELSE IF w = v THEN Statements[w] - 0 ELSE 0
        BY <1>0, <1>1 DEF OwnImage
      <4>2. QED
        BY <1>2, <2>1, <4>1
    <3> HIDE DEF done
    <3>4. QED
      BY <1>u, <2>1, <2>2, <2>3, <3>1, <3>2, <3>3 DEF OwnImage, Applied
  <2>5. QED
    BY <1>1, <1>u, <2>1, <2>2, <2>4, ImageStep
<1>5. QED
  BY <1>3, <1>4

LEMMA OffStep ==
  ASSUME SchemaInv, NEW p \in Installers, Becomes(p, Off),
         UNCHANGED <<schema, batches, paper_account, commands>>,
         faults' \in 0 .. MaxFaults, deaths' \in 0 .. MaxDeaths,
         exclusive' = exclusive \ {p}
  PROVE  SchemaInv'
<1>1. Off.pc = "off"
  BY DEF Off
<1>2. installer' = [installer EXCEPT ![p] = Off] /\ installer'[p] = Off
  BY DEF Becomes, SchemaInv, MigrationTypeOK
<1>3. InstallerOK(p)' /\ ResultTrue(p)'
  BY <1>1, <1>2 DEF InstallerOK, ResultTrue, In
<1>4. paper_account' \subseteq Commands /\ exclusive' \subseteq Installers
        /\ \A q, r \in exclusive' : q = r
  BY DEF SchemaInv, MigrationTypeOK
<1>5. QED
  BY <1>1, <1>2, <1>3, <1>4, LocalStep

LEMMA ReadBeforeStep ==
  ASSUME SchemaInv, NEW p \in Installers, ReadBefore(p)
  PROVE  SchemaInv'
<1> DEFINE me == installer[p]
           s == [me EXCEPT !.pc = "check", !.before = Applied(Visible(p))]
<1>0. me.pc = "before" /\ me \in Working /\ InstallerOK(p)
  BY Known DEF ReadBefore, In
<1>1. Visible(p) \in Image
  BY <1>0, Known DEF Visible, Working
<1>2. Applied(Visible(p)) \in SUBSET Versions
  BY <1>1 DEF Applied, Image
<1>3. s \in Working /\ s.pc = "check" /\ s.command = me.command
  BY <1>0, <1>2 DEF Working
<1>4. installer' = [installer EXCEPT ![p] = s] /\ installer'[p] = s
        /\ UNCHANGED <<schema, exclusive, paper_account, batches, migrationCounts>>
  BY DEF ReadBefore, Becomes, SchemaInv, MigrationTypeOK
<1> HIDE DEF s
<1>5. InstallerOK(p)'
  BY <1>0, <1>3, <1>4 DEF InstallerOK, Uncommitted, Locked, ByCommand, migrationCounts
<1>6. ResultTrue(p)'
  BY <1>3, <1>4 DEF ResultTrue, In
<1>7. QED
  BY <1>0, <1>3, <1>4, <1>5, <1>6, LocalStep, Known DEF migrationCounts

LEMMA BeginStep ==
  ASSUME SchemaInv, NEW p \in Installers, BeginExclusive(p)
  PROVE  SchemaInv'
<1> DEFINE me == installer[p]
           s == [me EXCEPT !.pc = "pending", !.image = schema]
<1>0. me.pc = "begin" /\ me \in Working /\ InstallerOK(p) /\ schema \in Image
  BY Known DEF BeginExclusive, In
<1>3. s \in Working /\ s.pc = "pending" /\ s.command = me.command /\ s.image = schema
  BY <1>0 DEF Working
<1>4. installer' = [installer EXCEPT ![p] = s] /\ installer'[p] = s
        /\ exclusive = {} /\ exclusive' = {p}
        /\ UNCHANGED <<schema, paper_account, batches, migrationCounts>>
  BY DEF BeginExclusive, Becomes, SchemaInv, MigrationTypeOK
<1> HIDE DEF s
<1>5. InstallerOK(p)'
  BY <1>0, <1>3, <1>4 DEF InstallerOK, Uncommitted, Locked, ByCommand, migrationCounts
<1>6. ResultTrue(p)'
  BY <1>3, <1>4 DEF ResultTrue, In
<1>7. QED
  BY <1>0, <1>3, <1>4, <1>5, <1>6, LocalStep, Known DEF migrationCounts

LEMMA FaultStep ==
  ASSUME SchemaInv, NEW p \in Installers, StatementFails(p) \/ EndFails(p)
  PROVE  SchemaInv'
<1>0. faults' \in 0 .. MaxFaults /\ deaths \in 0 .. MaxDeaths
  <2>1. faults \in 0 .. MaxFaults /\ faults < MaxFaults /\ faults' = faults + 1
    BY DEF StatementFails, EndFails, AFault, SchemaInv, MigrationTypeOK
  <2>2. MaxFaults \in Nat
    BY DEF MigrationAssumption
  <2>3. QED
    BY <2>1, <2>2, Known DEF SchemaInv, MigrationTypeOK
<1>u. UNCHANGED <<schema, paper_account, batches, commands, deaths>>
  BY DEF StatementFails, EndFails
<1>a. paper_account' \subseteq Commands
  BY <1>u DEF SchemaInv, MigrationTypeOK
<1>1. CASE StatementFails(p)
  <2>0. exclusive' = exclusive
    BY <1>1 DEF StatementFails
  <2>1. CASE In(p, "check") /\ MovesTo(p, "raised")
    BY <1>0, <1>u, <2>0, <2>1, MoveStep DEF In, Uncommitted
  <2>2. CASE /\ In(p, "pending") \/ In(p, "statement") \/ In(p, "next")
             /\ MovesTo(p, "undo")
    <3>1. installer[p].pc \in Uncommitted /\ p \in exclusive
      BY <2>2, Known DEF In, Uncommitted, Locked, InstallerOK
    <3>2. QED
      BY <1>0, <1>u, <2>0, <2>2, <3>1, MoveStep
  <2>3. CASE /\ \/ In(p, "before") \/ In(p, "seek") \/ In(p, "seed")
                \/ In(p, "raised")
             /\ Ends(p, "failed")
    <3>1. installer[p].pc # "off"
      BY <2>3 DEF In
    <3>2. QED
      BY <1>0, <1>u, <1>a, <2>0, <2>3, <3>1, EndStep
  <2>4. QED
    BY <1>1, <2>1, <2>2, <2>3 DEF StatementFails
<1>2. CASE EndFails(p)
  <2>1. installer[p].pc \in Uncommitted /\ MovesTo(p, "raised")
          /\ exclusive' \in {exclusive, exclusive \ {p}}
    BY <1>2 DEF EndFails, In, Uncommitted, Locked
  <2>2. QED
    BY <1>0, <1>u, <2>1, MoveStep
<1>3. QED
  BY <1>1, <1>2

LEMMA InvStep == SchemaInv /\ [MigrationNext]_migrationVars => SchemaInv'
<1> SUFFICES ASSUME SchemaInv, [MigrationNext]_migrationVars PROVE SchemaInv'
  OBVIOUS
<1>t. /\ faults \in 0 .. MaxFaults /\ deaths \in 0 .. MaxDeaths
      /\ paper_account \subseteq Commands
  BY DEF SchemaInv, MigrationTypeOK
<1> USE DEF migrationCounts
<1>1. ASSUME NEW p \in Installers, NEW plan \in MigrationPlans, StartCommand(p, plan)
      PROVE  SchemaInv'
  BY <1>1, StartStep
<1>2. ASSUME NEW p \in Installers, ReadBefore(p) PROVE SchemaInv'
  BY <1>2, ReadBeforeStep
<1>3. ASSUME NEW p \in Installers, ReadAfter(p) PROVE SchemaInv'
  <2>1. installer[p].pc = "raised" /\ ByCommand(installer[p].command) = {}
    BY <1>3, Known DEF ReadAfter, In, InstallerOK, Uncommitted
  <2>2. QED
    BY <1>3, <1>t, <2>1, EndStep DEF ReadAfter
<1>4. ASSUME NEW p \in Installers, SeekAccount(p) PROVE SchemaInv'
  <2>1. installer[p].pc = "seek" /\ installer[p].plan \subseteq Applied(schema)
    BY <1>4, Known DEF SeekAccount, In, InstallerOK
  <2>2. QED
    BY <1>4, <1>t, <2>1, EndStep, SeekStep DEF SeekAccount
<1>5. ASSUME NEW p \in Installers, SeedAccount(p) PROVE SchemaInv'
  <2>1. installer[p].pc = "seed" /\ installer[p].plan \subseteq Applied(schema)
          /\ installer[p].command \in Commands
    BY <1>5, Known DEF SeedAccount, In, InstallerOK, Working
  <2>2. paper_account' \subseteq Commands
    BY <1>5, <1>t, <2>1 DEF SeedAccount
  <2>3. QED
    BY <1>5, <1>t, <2>1, <2>2, EndStep DEF SeedAccount
<1>6. ASSUME NEW p \in Installers, CheckPending(p) PROVE SchemaInv'
  <2>1. installer[p].pc = "check" /\ installer[p].pc \in Uncommitted
    BY <1>6 DEF CheckPending, In, Uncommitted
  <2>2. CASE installer[p].plan \subseteq Applied(schema)
    BY <1>6, <1>t, <2>1, <2>2, EndStep, SeekStep DEF CheckPending, Succeed
  <2>3. CASE ~(installer[p].plan \subseteq Applied(schema))
    BY <1>6, <1>t, <2>1, <2>3, MoveStep DEF CheckPending
  <2>4. QED
    BY <2>2, <2>3
<1>7. ASSUME NEW p \in Installers, BeginExclusive(p) PROVE SchemaInv'
  BY <1>7, BeginStep
<1>8. ASSUME NEW p \in Installers, BeginTimesOut(p) PROVE SchemaInv'
  BY <1>8, <1>t, MoveStep DEF BeginTimesOut, In, Uncommitted
<1>9. ASSUME NEW p \in Installers, ReadPending(p) PROVE SchemaInv'
  BY <1>9, PendingStep
<1>10. ASSUME NEW p \in Installers, NEW v \in Versions, NextMigration(p, v)
       PROVE  SchemaInv'
  BY <1>10, NextMigrationStep
<1>11. ASSUME NEW p \in Installers, RunStatement(p) PROVE SchemaInv'
  BY <1>11, StatementStep
<1>12. ASSUME NEW p \in Installers, InsertVersion(p) PROVE SchemaInv'
  BY <1>12, InsertStep
<1>13. ASSUME NEW p \in Installers, Commit(p) PROVE SchemaInv'
  BY <1>13, CommitStep
<1>14. ASSUME NEW p \in Installers, Undo(p) PROVE SchemaInv'
  BY <1>14, <1>t, MoveStep DEF Undo, In, Uncommitted, Locked
<1>15. ASSUME NEW p \in Installers, StatementFails(p) \/ EndFails(p)
       PROVE  SchemaInv'
  BY <1>15, FaultStep
<1>16. ASSUME NEW p \in Installers, Disconnect(p) PROVE SchemaInv'
  BY <1>16, <1>t, OffStep DEF Disconnect
<1>17. ASSUME NEW p \in Installers, ProcessDies(p) PROVE SchemaInv'
  <2>1. MaxDeaths \in Nat
    BY DEF MigrationAssumption
  <2>2. deaths' \in 0 .. MaxDeaths
    BY <1>17, <1>t, <2>1 DEF ProcessDies
  <2>3. QED
    BY <1>17, <1>t, <2>2, OffStep DEF ProcessDies
<1>18. CASE UNCHANGED migrationVars
  <2>1. UNCHANGED <<schema, exclusive, paper_account, installer, batches,
                    commands, faults, deaths>>
    BY <1>18 DEF migrationVars
  <2>2. MigrationTypeOK'
    BY <2>1 DEF SchemaInv, MigrationTypeOK
  <2>3. /\ Applied(schema)' = Applied(schema)
        /\ \A c \in Commands : ByCommand(c)' = ByCommand(c)
    BY <2>1 DEF Applied, ByCommand
  <2>4. SchemaIsWhole'
    <3>1. VersionsAreTrue'
      BY <2>1, <2>3 DEF SchemaInv, SchemaIsWhole, VersionsAreTrue
    <3>2. \A c \in Commands : ByCommand(c)' \in {{}, batches'[c]}
      BY <2>1, <2>3 DEF SchemaInv, SchemaIsWhole, BatchesAreAtomic
    <3>3. ASSUME NEW p \in Installers PROVE ResultTrue(p)'
      <4>1. ResultTrue(p)
        BY DEF SchemaInv, SchemaIsWhole, BatchesAreAtomic
      <4>2. QED
        BY <2>1, <2>3, <4>1 DEF ResultTrue, In, ByCommand
    <3>4. QED
      BY <3>1, <3>2, <3>3 DEF SchemaIsWhole, BatchesAreAtomic
  <2>5. CommandsOK'
    BY <2>1, <2>3 DEF SchemaInv, CommandsOK
  <2>6. \A p \in Installers : InstallerOK(p)'
    BY <2>1, <2>3 DEF SchemaInv, InstallerOK, OwnImage, ByCommand
  <2>7. QED
    BY <2>1, <2>2, <2>4, <2>5, <2>6 DEF SchemaInv
<1>19. QED
  BY <1>1, <1>2, <1>3, <1>4, <1>5, <1>6, <1>7, <1>8, <1>9, <1>10, <1>11, <1>12,
     <1>13, <1>14, <1>15, <1>16, <1>17, <1>18 DEF MigrationNext, Command

-----------------------------------------------------------------------------
\* However the commands that migrate a database overlap, fail and die, and
\* whatever they migrate: every recorded migration has run once and completely,
\* nothing else has, each batch is applied as a whole or not at all, and a
\* command reports which.
THEOREM SchemaStaysWhole == MigrationSpec => []SchemaIsWhole
<1>1. SchemaInv => SchemaIsWhole
  BY DEF SchemaInv
<1>2. QED
  BY <1>1, InvInit, InvStep, PTL DEF MigrationSpec

-----------------------------------------------------------------------------
(***************************************************************************)
(* The desk: OperatorDesk                                                  *)
(***************************************************************************)
\* Whichever desk is at work, each of them goes by its own specification: what
\* is proved of one holds of the desk they make together.
THEOREM DeskRunsEachPart ==
  DeskSpec => Spec /\ LedgerSpec /\ ReviewSpec /\ MigrationSpec /\ ScanSpec
<1>1. DeskInit => Init /\ LedgerInit /\ ReviewInit /\ MigrationInit /\ ScanInit
  BY DEF DeskInit
<1>2. [DeskNext]_deskVars => /\ [Next]_vars /\ [LedgerNext]_ledgerVars
                             /\ [ReviewNext]_reviewVars
                             /\ [MigrationNext]_migrationVars
                             /\ [ScanNext]_scanVars
  BY DEF DeskNext, deskVars
<1>3. QED
  BY <1>1, <1>2, PTL
     DEF DeskSpec, Spec, LedgerSpec, ReviewSpec, MigrationSpec, ScanSpec

\* The tables of all desks stay what they are declared to be, there is one row
\* of limits, and the records of the reviews name all feedback there is, but
\* for that of calls that died or are under way.
THEOREM DeskTablesStaySound == DeskSpec => []DeskTablesOK
<1>1. Spec => []TypeOK
  <2>1. OrdersInv => TypeOK
    BY DEF OrdersInv
  <2>2. QED
    BY <2>1, BriefInit, BriefStep, PTL DEF Spec
<1>2. LedgerSpec => []LedgerTypeOK
  BY LedgerTypeInit, LedgerTypeStep, PTL DEF LedgerSpec
<1>3. MigrationSpec => []MigrationTypeOK
  <2>1. SchemaInv => MigrationTypeOK
    BY DEF SchemaInv
  <2>2. QED
    BY <2>1, InvInit, InvStep, PTL DEF MigrationSpec
<1>4. ScanSpec => []ScanTypeOK
  <2>1. ScanInv => ScanTypeOK
    BY ScanInvImplies
  <2>2. QED
    BY <2>1, ScanInvariance, PTL
<1>5. DeskTablesOK <=> /\ TypeOK /\ LedgerTypeOK /\ ReviewTypeOK /\ MigrationTypeOK
                       /\ ScanTypeOK /\ FeedbackIsLinked
  BY DEF DeskTablesOK
<1>6. QED
  BY <1>1, <1>2, <1>3, <1>4, <1>5, ReviewTypeCorrect, RecordsListTheirFeedback,
     DeskRunsEachPart, PTL
=============================================================================
