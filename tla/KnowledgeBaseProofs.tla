------------------------ MODULE KnowledgeBaseProofs ------------------------
(***************************************************************************)
(* What TLAPS proves about the collection and the search that reads it,    *)
(* for any documents, distances and number of ingestions.                  *)
(***************************************************************************)
EXTENDS KnowledgeBase, FiniteSetTheorems, TLAPS

-----------------------------------------------------------------------------
\* Ingestion.

\* What an ingestion does, without the choice of its input.
LEMMA IngestStores ==
  ASSUME Ingest
  PROVE  /\ \E d \in DocIds, stored \in Seq(Texts) :
              /\ Len(stored) <= MaxChunks
              /\ collection' = Upsert(d, stored)
              /\ latest' = [latest EXCEPT ![d] = stored]
         /\ ingests < MaxIngests /\ ingests' = ingests + 1
         /\ UNCHANGED <<pc, variations, next, wanted, best, context, outcome, found, sawEmpty>>
<1>1. PICK d \in DocIds, chunks \in SeqOf(Texts \ {Blank}, MaxChunks) :
        LET stored == IF chunks = <<>> THEN <<Blank>> ELSE chunks
        IN  /\ collection' = Upsert(d, stored)
            /\ latest' = [latest EXCEPT ![d] = stored]
  BY DEF Ingest
<1>2. chunks \in Seq(Texts) /\ Len(chunks) <= MaxChunks
  <2>1. PICK m \in 0..MaxChunks : chunks \in [1..m -> Texts \ {Blank}]
    BY <1>1 DEF SeqOf
  <2>2. m \in Nat /\ m <= MaxChunks
    BY <2>1, KnowledgeAssumption DEF KnowledgeAssumption
  <2>3. chunks \in [1..m -> Texts]
    BY <2>1
  <2>. QED  BY <2>2, <2>3
<1>3. <<Blank>> \in Seq(Texts) /\ Len(<<Blank>>) <= MaxChunks
  BY KnowledgeAssumption DEF KnowledgeAssumption
<1>4. /\ ingests < MaxIngests /\ ingests' = ingests + 1
      /\ UNCHANGED <<pc, variations, next, wanted, best, context, outcome, found, sawEmpty>>
  BY DEF Ingest, search
<1>5. CASE chunks = <<>>
  BY <1>1, <1>3, <1>4, <1>5
<1>6. CASE chunks # <<>>
  BY <1>1, <1>2, <1>4, <1>6
<1>. QED  BY <1>5, <1>6

\* An upsert stores the given chunks and leaves every other id as it was.
LEMMA UpsertStores ==
  ASSUME NEW d \in DocIds, NEW stored \in Seq(Texts)
  PROVE  LET after == Upsert(d, stored)
         IN  /\ DOMAIN after = DOMAIN collection \cup NewIds(d, stored)
             /\ \A i \in 1..Len(stored) : <<d, i>> \in DOMAIN after /\ after[<<d, i>>] = stored[i]
             /\ \A id \in DOMAIN collection : id[1] # d => after[id] = collection[id]
<1>1. DOMAIN Upsert(d, stored) = DOMAIN collection \cup NewIds(d, stored)
  BY DEF Upsert
<1>2. ASSUME NEW i \in 1..Len(stored)
      PROVE  <<d, i>> \in DOMAIN Upsert(d, stored) /\ Upsert(d, stored)[<<d, i>>] = stored[i]
  <2>1. <<d, i>> \in NewIds(d, stored)
    BY DEF NewIds
  <2>. QED  BY <1>1, <2>1 DEF Upsert
<1>3. ASSUME NEW id \in DOMAIN collection, id[1] # d
      PROVE  Upsert(d, stored)[id] = collection[id]
  <2>1. id \notin NewIds(d, stored)
    BY <1>3 DEF NewIds
  <2>. QED  BY <2>1 DEF Upsert
<1>. QED  BY <1>1, <1>2, <1>3

-----------------------------------------------------------------------------
\* The size of the collection, between count() and query().

Measured == IsFiniteSet(DOMAIN collection) /\ wanted \in Int /\ QueryWithinCollection

\* The cap is a number of chunks that are there, one at least if the setting
\* is positive.
LEMMA CapFits ==
  ASSUME NEW count \in Nat, count # 0
  PROVE  /\ Capped(count) \in Int /\ Capped(count) <= count
         /\ Capped(count) > 0 => Capped(count) <= CandidatePool
         /\ CandidatePool > 0 => Capped(count) > 0
BY KnowledgeAssumption DEF Capped, KnowledgeAssumption

\* A collection only grows: what was counted is still there to be queried.
LEMMA MeasuredPreserved == Measured /\ [Next]_vars => Measured'
<1>. SUFFICES ASSUME Measured, [Next]_vars PROVE Measured'
  OBVIOUS
<1>1. CASE Ingest
  <2>1. PICK d \in DocIds, stored \in Seq(Texts) :
          collection' = Upsert(d, stored) /\ UNCHANGED <<pc, wanted>>
    BY <1>1, IngestStores
  <2>2. DOMAIN collection' = DOMAIN collection \cup NewIds(d, stored)
    BY <2>1, UpsertStores
  <2>3. IsFiniteSet(NewIds(d, stored))
    <3>1. IsFiniteSet({d})
      BY FS_Singleton
    <3>2. IsFiniteSet(1..Len(stored))
      BY FS_Interval
    <3>. QED  BY <3>1, <3>2, FS_Product DEF NewIds
  <2>4. IsFiniteSet(DOMAIN collection')
    <3>1. IsFiniteSet(DOMAIN collection)
      BY DEF Measured
    <3>. QED  BY <2>2, <2>3, <3>1, FS_Union
  <2>5. Cardinality(DOMAIN collection) <= Cardinality(DOMAIN collection')
    BY <2>2, <2>4, FS_Subset
  <2>6. Cardinality(DOMAIN collection) \in Nat /\ Cardinality(DOMAIN collection') \in Nat
    BY <2>4, FS_CardinalityType DEF Measured
  <2>. QED  BY <2>1, <2>4, <2>5, <2>6 DEF Measured, QueryWithinCollection
<1>2. CASE Count
  <2>1. UNCHANGED collection
    BY <1>2 DEF Count, store
  <2>2. Cardinality(DOMAIN collection) \in Nat
    BY FS_CardinalityType DEF Measured
  <2>3. CASE pc' = "query"
    <3>1. /\ Cardinality(DOMAIN collection) # 0
          /\ wanted' = Capped(Cardinality(DOMAIN collection))
      BY <1>2, <2>3 DEF Count
    <3>2. /\ wanted' \in Int /\ wanted' <= Cardinality(DOMAIN collection)
          /\ CandidatePool > 0 => wanted' > 0
      BY <2>2, <3>1, CapFits
    <3>. QED  BY <2>1, <3>2 DEF Measured, QueryWithinCollection
  <2>4. CASE pc' # "query"
    <3>1. wanted' = wanted
      BY <1>2, <2>4 DEF Count
    <3>. QED  BY <2>1, <2>4, <3>1 DEF Measured, QueryWithinCollection
  <2>. QED  BY <2>3, <2>4
<1>3. CASE Ask \/ Expand \/ Retrieve \/ FoundNothing \/ Narrow \/ Generate \/ SearchRaises
  <2>1. UNCHANGED <<collection, wanted>> /\ pc' # "query"
    BY <1>3 DEF Ask, Expand, Retrieve, FoundNothing, Narrow, Generate, SearchRaises, store
  <2>. QED  BY <2>1 DEF Measured, QueryWithinCollection
<1>4. CASE Terminated \/ UNCHANGED vars
  <2>1. UNCHANGED <<collection, pc, wanted>>
    BY <1>4 DEF Terminated, vars, store, search
  <2>. QED  BY <2>1 DEF Measured, QueryWithinCollection
<1>. QED  BY <1>1, <1>2, <1>3, <1>4 DEF Next, Search

\* Whatever the settings are, the store is never asked for more chunks than
\* it holds, and for one at least if RAG_CANDIDATE_POOL is positive
\* (retrieve_with_metadata).
THEOREM QuerySafe == Spec => []QueryWithinCollection
<1>1. Init => Measured
  BY FS_EmptySet DEF Init, Measured, QueryWithinCollection
<1>2. Measured => QueryWithinCollection
  BY DEF Measured
<1>. QED  BY <1>1, <1>2, MeasuredPreserved, PTL DEF Spec

-----------------------------------------------------------------------------
\* The latest version of each document.

Indexed == latest \in [DocIds -> Seq(Texts)] /\ LatestVersionIndexed

LEMMA IndexedPreserved == Indexed /\ [Next]_vars => Indexed'
<1>. SUFFICES ASSUME Indexed, [Next]_vars PROVE Indexed'
  OBVIOUS
<1>1. CASE Ingest
  <2>1. PICK d \in DocIds, stored \in Seq(Texts) :
          /\ collection' = Upsert(d, stored)
          /\ latest' = [latest EXCEPT ![d] = stored]
    BY <1>1, IngestStores
  <2>2. latest' \in [DocIds -> Seq(Texts)]
    BY <2>1 DEF Indexed
  <2>3. ASSUME NEW e \in DocIds, NEW i \in 1..Len(latest'[e])
        PROVE  <<e, i>> \in DOMAIN collection' /\ collection'[<<e, i>>] = latest'[e][i]
    <3>1. CASE e = d
      <4>1. latest'[e] = stored
        BY <2>1, <3>1 DEF Indexed
      <4>2. i \in 1..Len(stored)
        BY <4>1
      <4>3. <<d, i>> \in DOMAIN collection' /\ collection'[<<d, i>>] = stored[i]
        BY <2>1, <4>2, UpsertStores
      <4>. QED  BY <3>1, <4>1, <4>3
    <3>2. CASE e # d
      <4>1. latest'[e] = latest[e]
        BY <2>1, <3>2 DEF Indexed
      <4>2. <<e, i>> \in DOMAIN collection /\ collection[<<e, i>>] = latest[e][i]
        BY <2>3, <4>1 DEF Indexed, LatestVersionIndexed
      <4>3. <<e, i>>[1] # d
        BY <3>2
      <4>4. <<e, i>> \in DOMAIN collection'
        BY <2>1, <4>2, UpsertStores
      <4>5. collection'[<<e, i>>] = collection[<<e, i>>]
        BY <2>1, <4>2, <4>3, UpsertStores
      <4>. QED  BY <4>1, <4>2, <4>4, <4>5
    <3>. QED  BY <3>1, <3>2
  <2>. QED  BY <2>2, <2>3 DEF Indexed, LatestVersionIndexed
<1>2. CASE Search \/ Terminated \/ UNCHANGED vars
  <2>1. UNCHANGED <<collection, latest>>
    BY <1>2 DEF Search, Ask, Expand, Count, Retrieve, FoundNothing, Narrow, Generate,
                SearchRaises, Terminated, vars, store
  <2>. QED  BY <2>1 DEF Indexed, LatestVersionIndexed
<1>. QED  BY <1>1, <1>2 DEF Next

\* The last version of a document is searchable in full.
THEOREM LatestIndexed == Spec => []LatestVersionIndexed
<1>1. Init => Indexed
  <2>. SUFFICES ASSUME Init PROVE Indexed
    OBVIOUS
  <2>1. \A d \in DocIds : latest[d] = <<>> /\ Len(latest[d]) = 0
    BY DEF Init
  <2>2. latest \in [DocIds -> Seq(Texts)]
    BY DEF Init
  <2>. QED  BY <2>1, <2>2 DEF Indexed, LatestVersionIndexed
<1>2. Indexed => LatestVersionIndexed
  BY DEF Indexed
<1>. QED  BY <1>1, <1>2, IndexedPreserved, PTL DEF Spec

-----------------------------------------------------------------------------
\* The merge: retrieve_with_variations' dict.

\* The dict holds what was found: a hit per text, the closest of that text,
\* and no text that was not found.
Keeps(hits, all) ==
  /\ hits \in Seq(Hits) /\ all \subseteq Hits
  /\ \A i, j \in 1..Len(hits) : hits[i].text = hits[j].text => i = j
  /\ \A i \in 1..Len(hits) : hits[i] \in all
  /\ \A hit \in all : \E i \in 1..Len(hits) : hits[i].text = hit.text /\ ~Closer(hit, hits[i])

LEMMA CloserOrder ==
  ASSUME NEW a \in Hits, NEW b \in Hits, NEW c \in Hits
  PROVE  /\ ~Closer(a, a)
         /\ Closer(a, b) => ~Closer(b, a)
         /\ Closer(a, b) /\ Closer(b, c) => Closer(a, c)
         /\ ~Closer(a, b) /\ ~Closer(b, c) => ~Closer(a, c)
<1>1. /\ a.distance \in Nat \cup {NoDistance}
      /\ b.distance \in Nat \cup {NoDistance}
      /\ c.distance \in Nat \cup {NoDistance}
  BY DEF Hits
<1>. QED  BY <1>1 DEF Closer, NoDistance

\* One hit more.
LEMMA MergeKeeps ==
  ASSUME NEW hits, NEW all, Keeps(hits, all), NEW hit \in Hits
  PROVE  Keeps(Merge(hits, hit), all \cup {hit})
<1>. DEFINE same == {i \in 1..Len(hits) : hits[i].text = hit.text}
            closer == {i \in same : Closer(hit, hits[i])}
            merged == Merge(hits, hit)
<1>1. hits \in Seq(Hits) /\ Len(hits) \in Nat /\ \A i \in 1..Len(hits) : hits[i] \in Hits
  BY DEF Keeps
<1>2. CASE same = {}
  <2>1. merged = Append(hits, hit)
    BY <1>2 DEF Merge
  <2>2. /\ merged \in Seq(Hits) /\ Len(merged) = Len(hits) + 1
        /\ \A i \in 1..Len(hits) : merged[i] = hits[i]
        /\ merged[Len(hits) + 1] = hit
    BY <1>1, <2>1
  <2>3. \A i \in 1..Len(merged) : i \in 1..Len(hits) \/ i = Len(hits) + 1
    BY <1>1, <2>2
  <2>. HIDE DEF merged
  <2>4. \A i, j \in 1..Len(merged) : merged[i].text = merged[j].text => i = j
    BY <1>2, <2>2, <2>3 DEF Keeps
  <2>5. \A i \in 1..Len(merged) : merged[i] \in all \cup {hit}
    BY <2>2, <2>3 DEF Keeps
  <2>6. ASSUME NEW h \in all \cup {hit}
        PROVE  \E i \in 1..Len(merged) : merged[i].text = h.text /\ ~Closer(h, merged[i])
    <3>1. CASE h = hit
      <4>1. Len(hits) + 1 \in 1..Len(merged)
        BY <1>1, <2>2
      <4>. QED  BY <2>2, <3>1, <4>1, CloserOrder
    <3>2. CASE h \in all
      <4>1. PICK i \in 1..Len(hits) : hits[i].text = h.text /\ ~Closer(h, hits[i])
        BY <3>2 DEF Keeps
      <4>2. i \in 1..Len(merged)
        BY <1>1, <2>2
      <4>. QED  BY <2>2, <4>1, <4>2
    <3>. QED  BY <3>1, <3>2
  <2>7. all \cup {hit} \subseteq Hits
    BY DEF Keeps
  <2>. QED  BY <2>2, <2>4, <2>5, <2>6, <2>7 DEF Keeps, merged
<1>3. CASE same # {}
  <2>1. merged = [i \in 1..Len(hits) |-> IF i \in closer THEN hit ELSE hits[i]]
    BY <1>3 DEF Merge
  <2>. HIDE DEF closer
  <2>2. /\ merged \in Seq(Hits) /\ Len(merged) = Len(hits)
        /\ \A i \in 1..Len(hits) : merged[i] = IF i \in closer THEN hit ELSE hits[i]
    BY <1>1, <2>1
  <2>. HIDE DEF merged
  <2>3. \A i \in 1..Len(hits) : merged[i].text = hits[i].text
    BY <2>2 DEF closer
  <2>4. \A i, j \in 1..Len(merged) : merged[i].text = merged[j].text => i = j
    BY <2>2, <2>3 DEF Keeps
  <2>5. \A i \in 1..Len(merged) : merged[i] \in all \cup {hit}
    BY <2>2 DEF Keeps
  <2>6. ASSUME NEW h \in all \cup {hit}
        PROVE  \E i \in 1..Len(merged) : merged[i].text = h.text /\ ~Closer(h, merged[i])
    <3>1. CASE h = hit
      <4>1. PICK i \in same : TRUE
        BY <1>3
      <4>2. CASE i \in closer
        BY <2>2, <2>3, <3>1, <4>1, <4>2, CloserOrder
      <4>3. CASE i \notin closer
        BY <2>2, <2>3, <3>1, <4>1, <4>3 DEF closer
      <4>. QED  BY <4>2, <4>3
    <3>2. CASE h \in all
      <4>1. PICK i \in 1..Len(hits) : hits[i].text = h.text /\ ~Closer(h, hits[i])
        BY <3>2 DEF Keeps
      <4>2. CASE i \in closer
        <5>1. merged[i] = hit /\ Closer(hit, hits[i]) /\ hits[i] \in Hits /\ h.text = hit.text
          BY <1>1, <2>2, <4>1, <4>2 DEF closer
        <5>2. ~Closer(h, hit)
          BY <3>2, <4>1, <5>1, CloserOrder DEF Keeps
        <5>. QED  BY <2>2, <2>3, <4>1, <5>1, <5>2
      <4>3. CASE i \notin closer
        BY <2>2, <2>3, <4>1, <4>3
      <4>. QED  BY <4>2, <4>3
    <3>. QED  BY <3>1, <3>2
  <2>7. all \cup {hit} \subseteq Hits
    BY DEF Keeps
  <2>. QED  BY <2>2, <2>4, <2>5, <2>6, <2>7 DEF Keeps, merged
<1>. QED  BY <1>2, <1>3

\* Merging is folding: one hit after the other.
AddHit(hits, i, merged) == Merge(merged, hits[i])

MergeFold == INSTANCE SetRecursion WITH Step <- AddHit, Choose <- Max

MergeAll(merged, hits) == FoldLeft(Merge, merged, hits)

MergeUpTo(merged, hits, k) == MergeFold!Folded(hits, merged, 1..k)

LEMMA MergeIsFold ==
  ASSUME NEW n \in Nat, NEW hits, DOMAIN hits = 1..n, NEW merged
  PROVE  MergeAll(merged, hits) = MergeUpTo(merged, hits, n)
BY DEF MergeUpTo, MergeAll, FoldLeft, MapThenFoldSet, MergeFold!Folded, MergeFold!Folding,
       AddHit

LEMMA MergeNone ==
  ASSUME NEW hits, NEW merged
  PROVE  MergeUpTo(merged, hits, 0) = merged
<1>1. 1..0 = {}
  OBVIOUS
<1>. QED  BY <1>1, MergeFold!FoldedEmpty DEF MergeUpTo

LEMMA MergeStep ==
  ASSUME NEW hits, NEW merged, NEW k \in Nat, k # 0
  PROVE  MergeUpTo(merged, hits, k) = Merge(MergeUpTo(merged, hits, k - 1), hits[k])
<1>1. MergeFold!ChoosesLast
  BY DEF MergeFold!ChoosesLast, Max
<1>2. MergeFold!Folded(hits, merged, 1..k) =
        AddHit(hits, k, MergeFold!Folded(hits, merged, 1..(k - 1)))
  BY <1>1, MergeFold!FoldedInterval
<1>. QED  BY <1>2 DEF MergeUpTo, AddHit

\* All the hits of one answer.
LEMMA AnswerMerged ==
  ASSUME NEW n \in Nat, NEW hits, DOMAIN hits = 1..n, \A i \in 1..n : hits[i] \in Hits,
         NEW merged, NEW all, Keeps(merged, all)
  PROVE  Keeps(MergeAll(merged, hits), all \cup {hits[i] : i \in 1..n})
<1>. DEFINE met(k) == all \cup {hits[i] : i \in 1..k}
            wrong == {k \in 0..n : ~Keeps(MergeUpTo(merged, hits, k), met(k))}
<1>0. /\ MergeAll(merged, hits) = MergeUpTo(merged, hits, n)
      /\ MergeUpTo(merged, hits, 0) = merged
  BY MergeIsFold, MergeNone
<1>1. SUFFICES ASSUME wrong # {} PROVE FALSE
  <2>1. wrong = {}
    <3>. HIDE DEF wrong
    <3>. QED  BY <1>1
  <2>3. n \in 0..n
    OBVIOUS
  <2>2. Keeps(MergeUpTo(merged, hits, n), met(n))
    BY <2>1, <2>3
  <2>. QED  BY <1>0, <2>2
<1>2. PICK k \in wrong : \A m \in wrong : k <= m
  <2>1. wrong \in SUBSET Nat
    OBVIOUS
  <2>. HIDE DEF wrong
  <2>. QED  BY <1>1, <2>1, MergeFold!LeastNatural
<1>3. k \in 0..n /\ ~Keeps(MergeUpTo(merged, hits, k), met(k))
  BY <1>2
<1>4. k # 0
  <2>1. met(0) = all
    OBVIOUS
  <2>. HIDE DEF met
  <2>. QED  BY <1>0, <1>3, <2>1
<1>5. k - 1 \in 0..n /\ k - 1 \notin wrong
  BY <1>2, <1>3, <1>4
<1>6. Keeps(MergeUpTo(merged, hits, k - 1), met(k - 1))
  BY <1>5
<1>7. met(k) = met(k - 1) \cup {hits[k]} /\ hits[k] \in Hits /\ k \in 1..n
  BY <1>3, <1>4
<1>. HIDE DEF met, wrong
<1>8. MergeUpTo(merged, hits, k) = Merge(MergeUpTo(merged, hits, k - 1), hits[k])
  BY <1>3, <1>4, MergeStep
<1>. QED  BY <1>3, <1>6, <1>7, <1>8, MergeKeeps

-----------------------------------------------------------------------------
\* The candidates: the stable sort of the dict.

\* Hit i stands before hit j in the sorted list.
Before(hits, i, j) ==
  \/ Closer(hits[i], hits[j])
  \/ ~Closer(hits[j], hits[i]) /\ i < j

Earlier(hits, i) == {j \in 1..Len(hits) : Before(hits, j, i)}

Rank(hits, i) == 1 + Cardinality(Earlier(hits, i))

Position(hits, p) == CHOOSE i \in 1..Len(hits) : Rank(hits, i) = p

LEMMA CandidatesSorted == Candidates = [p \in 1..Len(best) |-> best[Position(best, p)]]
BY DEF Candidates, Position, Rank, Earlier, Before

LEMMA BeforeOrder ==
  ASSUME NEW hits \in Seq(Hits),
         NEW i \in 1..Len(hits), NEW j \in 1..Len(hits), NEW k \in 1..Len(hits)
  PROVE  /\ ~Before(hits, i, i)
         /\ i # j => Before(hits, i, j) \/ Before(hits, j, i)
         /\ Before(hits, i, j) /\ Before(hits, j, k) => Before(hits, i, k)
<1>1. hits[i] \in Hits /\ hits[j] \in Hits /\ hits[k] \in Hits
  OBVIOUS
<1>2. Len(hits) \in Nat /\ i \in Int /\ j \in Int /\ k \in Int
  OBVIOUS
<1>3. /\ hits[i].distance \in Nat \cup {NoDistance}
      /\ hits[j].distance \in Nat \cup {NoDistance}
      /\ hits[k].distance \in Nat \cup {NoDistance}
  BY <1>1 DEF Hits
<1>. QED  BY <1>2, <1>3 DEF Before, Closer, NoDistance

LEMMA Places ==
  ASSUME NEW n \in Nat
  PROVE  IsFiniteSet(1..n) /\ Cardinality(1..n) = n
<1>1. 1 \in Int /\ n \in Int
  OBVIOUS
<1>2. Cardinality(1..n) = IF 1 > n THEN 0 ELSE n - 1 + 1
  BY <1>1, FS_Interval
<1>3. IsFiniteSet(1..n)
  BY <1>1, FS_Interval
<1>. QED  BY <1>2, <1>3

LEMMA RankTyped ==
  ASSUME NEW hits \in Seq(Hits), NEW i \in 1..Len(hits)
  PROVE  /\ Rank(hits, i) \in 1..Len(hits)
         /\ IsFiniteSet(Earlier(hits, i)) /\ Cardinality(Earlier(hits, i)) \in Nat
<1>. DEFINE others == (1..Len(hits)) \ {i}
<1>1. Len(hits) \in Nat /\ IsFiniteSet(1..Len(hits)) /\ Cardinality(1..Len(hits)) = Len(hits)
  BY Places
<1>2. IsFiniteSet(others) /\ Cardinality(others) = Len(hits) - 1
  <2>1. /\ IsFiniteSet(others)
        /\ Cardinality(others) = IF i \in 1..Len(hits) THEN Cardinality(1..Len(hits)) - 1
                                 ELSE Cardinality(1..Len(hits))
    BY <1>1, FS_RemoveElement, Zenon
  <2>. QED  BY <1>1, <2>1
<1>3. Earlier(hits, i) \in SUBSET others
  BY BeforeOrder DEF Earlier
<1>4. IsFiniteSet(Earlier(hits, i)) /\ Cardinality(Earlier(hits, i)) <= Len(hits) - 1
  BY <1>2, <1>3, FS_Subset
<1>5. Cardinality(Earlier(hits, i)) \in Nat
  BY <1>4, FS_CardinalityType
<1>. QED  BY <1>4, <1>5 DEF Rank

\* Who stands before another has the smaller rank.
LEMMA RankGrows ==
  ASSUME NEW hits \in Seq(Hits), NEW i \in 1..Len(hits), NEW j \in 1..Len(hits),
         Before(hits, i, j)
  PROVE  Rank(hits, i) < Rank(hits, j)
<1>1. i \notin Earlier(hits, i) /\ i \in Earlier(hits, j)
  BY BeforeOrder DEF Earlier
<1>2. Earlier(hits, i) \cup {i} \in SUBSET Earlier(hits, j)
  <2>1. ASSUME NEW k \in Earlier(hits, i) PROVE k \in Earlier(hits, j)
    BY <2>1, BeforeOrder DEF Earlier
  <2>. QED  BY <1>1, <2>1
<1>3. Cardinality(Earlier(hits, i) \cup {i}) = Cardinality(Earlier(hits, i)) + 1
  BY <1>1, RankTyped, FS_AddElement
<1>4. Cardinality(Earlier(hits, i) \cup {i}) <= Cardinality(Earlier(hits, j))
  BY <1>2, RankTyped, FS_Subset
<1>5. Cardinality(Earlier(hits, i)) \in Nat /\ Cardinality(Earlier(hits, j)) \in Nat
  BY RankTyped
<1>. QED  BY <1>3, <1>4, <1>5 DEF Rank

LEMMA RankUnique ==
  ASSUME NEW hits \in Seq(Hits), NEW i \in 1..Len(hits), NEW j \in 1..Len(hits),
         Rank(hits, i) = Rank(hits, j)
  PROVE  i = j
<1>. SUFFICES ASSUME i # j PROVE FALSE
  OBVIOUS
<1>1. Before(hits, i, j) \/ Before(hits, j, i)
  BY BeforeOrder
<1>2. Rank(hits, i) < Rank(hits, j) \/ Rank(hits, j) < Rank(hits, i)
  BY <1>1, RankGrows
<1>3. Rank(hits, i) \in 1..Len(hits) /\ Rank(hits, j) \in 1..Len(hits)
  BY RankTyped
<1>. QED  BY <1>2, <1>3

\* Every position is somebody's: n different ranks up to n leave none out.
LEMMA PositionTaken ==
  ASSUME NEW hits \in Seq(Hits), NEW p \in 1..Len(hits)
  PROVE  Position(hits, p) \in 1..Len(hits) /\ Rank(hits, Position(hits, p)) = p
<1>. DEFINE places == 1..Len(hits)
            free == places \ {p}
<1>1. SUFFICES ASSUME ~\E i \in places : Rank(hits, i) = p PROVE FALSE
  BY DEF Position
<1>2. IsFiniteSet(places) /\ Cardinality(places) = Len(hits) /\ Len(hits) \in Nat
  BY Places
<1>3. IsFiniteSet(free) /\ Cardinality(free) < Cardinality(places)
  <2>1. p \in places
    OBVIOUS
  <2>. HIDE DEF places
  <2>2. IsFiniteSet(free) /\ Cardinality(free) = Cardinality(places) - 1
    BY <1>2, <2>1, FS_RemoveElement
  <2>. QED  BY <1>2, <2>2
<1>. DEFINE rank == [i \in places |-> Rank(hits, i)]
<1>4. rank \in [places -> free]
  BY <1>1, RankTyped
<1>5. \A i \in places : rank[i] = Rank(hits, i)
  OBVIOUS
<1>. HIDE DEF rank, free
<1>6. PICK i, j \in places : i # j /\ rank[i] = rank[j]
  BY <1>2, <1>3, <1>4, FS_PigeonHole
<1>. QED  BY <1>5, <1>6, RankUnique

\* Whoever has the smaller position stands before the other.
LEMMA PositionsOrdered ==
  ASSUME NEW hits \in Seq(Hits), NEW p \in 1..Len(hits), NEW q \in 1..Len(hits), p < q
  PROVE  Before(hits, Position(hits, p), Position(hits, q))
<1>. DEFINE i == Position(hits, p)
            j == Position(hits, q)
<1>1. i \in 1..Len(hits) /\ Rank(hits, i) = p
  BY PositionTaken
<1>2. j \in 1..Len(hits) /\ Rank(hits, j) = q
  BY PositionTaken
<1>. HIDE DEF i, j
<1>3. ~(q < p) /\ p # q
  OBVIOUS
<1>4. ~Before(hits, j, i)
  BY <1>1, <1>2, <1>3, RankGrows
<1>5. i # j
  BY <1>1, <1>2, <1>3
<1>6. Before(hits, i, j)
  BY <1>1, <1>2, <1>4, <1>5, BeforeOrder
<1>. QED  BY <1>6 DEF i, j

LEMMA PositionOfRank ==
  ASSUME NEW hits \in Seq(Hits), NEW i \in 1..Len(hits)
  PROVE  Rank(hits, i) \in 1..Len(hits) /\ Position(hits, Rank(hits, i)) = i
<1>. DEFINE p == Rank(hits, i)
<1>1. p \in 1..Len(hits)
  BY RankTyped
<1>2. Position(hits, p) \in 1..Len(hits) /\ Rank(hits, Position(hits, p)) = p
  <2>. HIDE DEF p
  <2>. QED  BY <1>1, PositionTaken
<1>3. Position(hits, p) = i
  BY <1>2, RankUnique
<1>. QED  BY <1>1, <1>3

\* The least of a set of naturals that has one.
LEMMA MinIs ==
  ASSUME NEW S \in SUBSET Nat, NEW m \in S, \A n \in S : m <= n
  PROVE  Min(S) = m
<1>1. Min(S) \in S /\ \A n \in S : Min(S) <= n
  BY DEF Min
<1>2. Min(S) <= m /\ m <= Min(S) /\ m \in Nat /\ Min(S) \in Nat
  BY <1>1
<1>. QED  BY <1>2

-----------------------------------------------------------------------------
\* Types.

LatestTyped == latest \in [DocIds -> Seq(Texts)]

Typed == TypeOK /\ LatestTyped /\ Measured /\ Keeps(best, found)

\* Once phrasings are searched the query is one of them, and if it was
\* handled without a hit the collection was empty then.
Asked ==
  /\ pc \in {"idle", "expand"} => next = 1
  /\ pc \notin {"idle", "expand"} => Contains(variations, Query)
  /\ pc = "query" => next <= Len(variations)
  /\ \A i \in 1..Len(variations) :
       i < next /\ variations[i] = Query => sawEmpty \/ best # <<>>

\* An answer is a list of hits, as many as were asked for.
LEMMA AnswerHits ==
  ASSUME Typed, wanted > 0, NEW phrasing \in Phrasings, NEW hits \in Answers(phrasing)
  PROVE  /\ wanted \in Nat /\ DOMAIN hits = 1..wanted /\ Len(hits) = wanted
         /\ \A i \in 1..wanted : hits[i] \in Hits
<1>. DEFINE away(id) == Distance[phrasing][collection[id]]
<1>1. PICK s \in [1..wanted -> DOMAIN collection], measured \in BOOLEAN :
        hits = [i \in 1..wanted |-> [text |-> collection[s[i]],
                                     distance |-> IF measured THEN away(s[i]) ELSE NoDistance]]
  BY DEF Answers
<1>2. wanted \in Nat
  BY DEF Typed, TypeOK
<1>3. DOMAIN hits = 1..wanted /\ Len(hits) = wanted
  BY <1>1, <1>2
<1>4. ASSUME NEW i \in 1..wanted PROVE hits[i] \in Hits
  <2>1. s[i] \in DOMAIN collection
    BY <1>1
  <2>2. collection[s[i]] \in Texts
    BY <2>1 DEF Typed, TypeOK
  <2>3. away(s[i]) \in Nat
    BY <2>2, KnowledgeAssumption DEF KnowledgeAssumption, Phrasings
  <2>4. hits[i] = [text |-> collection[s[i]],
                   distance |-> IF measured THEN away(s[i]) ELSE NoDistance]
    BY <1>1
  <2>. HIDE DEF away
  <2>. QED  BY <2>2, <2>3, <2>4 DEF Hits
<1>. QED  BY <1>2, <1>3, <1>4

\* The dict after one more answer.
LEMMA RetrieveKeeps ==
  ASSUME Typed, Retrieve, variations[next] \in Phrasings
  PROVE  /\ Keeps(best', found')
         /\ found' # {}
<1>0. wanted > 0
  BY DEF Retrieve
<1>1. PICK hits \in Answers(variations[next]) :
        /\ best' = FoldLeft(Merge, best, hits)
        /\ found' = found \cup {hits[i] : i \in 1..Len(hits)}
  BY DEF Retrieve
<1>2. /\ wanted \in Nat /\ DOMAIN hits = 1..wanted /\ Len(hits) = wanted
      /\ \A i \in 1..wanted : hits[i] \in Hits
  BY <1>0, <1>1, AnswerHits
<1>3. Keeps(MergeAll(best, hits), found \cup {hits[i] : i \in 1..wanted})
  BY <1>2, AnswerMerged DEF Typed
<1>4. best' = MergeAll(best, hits)
  BY <1>1 DEF MergeAll
<1>5. hits[1] \in found'
  BY <1>0, <1>1, <1>2
<1>. QED  BY <1>1, <1>2, <1>3, <1>4, <1>5

\* What is narrowed is texts, at most TopK of them unless it is negative.
LEMMA NarrowedTyped ==
  ASSUME Typed, NEW texts \in Narrowed
  PROVE  texts \in Seq(Texts) /\ (TopK >= 0 => Len(texts) <= TopK)
<1>. DEFINE all == [i \in 1..Len(Candidates) |-> Candidates[i].text]
            size == Len(AtMost(TopK, all))
<1>1. best \in Seq(Hits) /\ TopK \in Int
  BY KnowledgeAssumption DEF Typed, TypeOK, KnowledgeAssumption
<1>2. all \in Seq(Texts)
  <2>1. Len(Candidates) = Len(best) /\ Len(best) \in Nat
    BY <1>1, CandidatesSorted
  <2>2. ASSUME NEW p \in 1..Len(best) PROVE Candidates[p].text \in Texts
    <3>1. Candidates[p] = best[Position(best, p)]
      BY CandidatesSorted
    <3>2. best[Position(best, p)] \in Hits
      BY <1>1, PositionTaken
    <3>. QED  BY <3>1, <3>2 DEF Hits
  <2>. QED  BY <2>1, <2>2
<1>3. texts \in {[i \in 1..size |-> all[s[i]]] : s \in [1..size -> 1..Len(all)]}
      \/ texts = AtMost(TopK, all)
  BY DEF Narrowed
<1>. HIDE DEF all
<1>4. AtMost(TopK, all) \in Seq(Texts) /\ (TopK >= 0 => size <= TopK) /\ size \in Nat
  <2>1. PICK cut \in Int : cut = IF TopK < 0 THEN Len(all) + TopK
                                ELSE IF Len(all) < TopK THEN Len(all) ELSE TopK
    BY <1>1, <1>2
  <2>2. AtMost(TopK, all) = SubSeq(all, 1, cut)
    BY <2>1 DEF AtMost
  <2>3. cut <= Len(all) /\ (TopK >= 0 => cut \in 0..TopK)
    BY <1>1, <1>2, <2>1
  <2>4. CASE cut >= 0
    <3>1. SubSeq(all, 1, cut) \in Seq(Texts) /\ Len(SubSeq(all, 1, cut)) = cut
      BY <1>2, <2>1, <2>3, <2>4
    <3>. QED  BY <2>1, <2>2, <2>3, <2>4, <3>1
  <2>5. CASE cut < 0
    <3>1. SubSeq(all, 1, cut) = <<>>
      BY <1>2, <2>1, <2>5
    <3>2. <<>> \in Seq(Texts) /\ Len(<<>>) = 0
      OBVIOUS
    <3>3. AtMost(TopK, all) = <<>>
      BY <2>2, <3>1
    <3>4. size = 0
      BY <3>2, <3>3
    <3>. QED  BY <3>2, <3>3, <3>4
  <2>. QED  BY <2>1, <2>4, <2>5
<1>. HIDE DEF size
<1>5. CASE texts = AtMost(TopK, all)
  BY <1>4, <1>5 DEF size
<1>6. CASE texts \in {[i \in 1..size |-> all[s[i]]] : s \in [1..size -> 1..Len(all)]}
  <2>1. PICK s \in [1..size -> 1..Len(all)] : texts = [i \in 1..size |-> all[s[i]]]
    BY <1>6
  <2>2. \A i \in 1..size : all[s[i]] \in Texts
    BY <1>2, <2>1
  <2>. QED  BY <1>4, <2>1, <2>2
<1>. QED  BY <1>3, <1>5, <1>6

LEMMA IngestTyped == Typed /\ Ingest => TypeOK' /\ LatestTyped'
<1>. SUFFICES ASSUME Typed, Ingest PROVE TypeOK' /\ LatestTyped'
  OBVIOUS
<1>1. PICK d \in DocIds, stored \in Seq(Texts) :
        /\ Len(stored) <= MaxChunks
        /\ collection' = Upsert(d, stored)
        /\ latest' = [latest EXCEPT ![d] = stored]
  BY IngestStores
<1>2. /\ ingests < MaxIngests /\ ingests' = ingests + 1
      /\ UNCHANGED <<pc, variations, next, wanted, best, context, outcome, found, sawEmpty>>
  BY IngestStores
<1>3. DOMAIN collection' = DOMAIN collection \cup NewIds(d, stored)
  BY <1>1, UpsertStores
<1>4. NewIds(d, stored) \subseteq ChunkIds
  BY <1>1, KnowledgeAssumption DEF NewIds, ChunkIds, KnowledgeAssumption
<1>5. ASSUME NEW id \in DOMAIN collection' PROVE collection'[id] \in Texts
  <2>1. collection'[id] = IF id \in NewIds(d, stored) THEN stored[id[2]] ELSE collection[id]
    BY <1>1, <1>5 DEF Upsert
  <2>2. CASE id \in NewIds(d, stored)
    BY <2>1, <2>2 DEF NewIds
  <2>3. CASE id \notin NewIds(d, stored)
    BY <1>3, <1>5, <2>1, <2>3 DEF Typed, TypeOK
  <2>. QED  BY <2>2, <2>3
<1>6. LatestTyped'
  BY <1>1 DEF Typed, LatestTyped
<1>7. \A e \in DocIds : latest'[e] \in Seq(Texts) /\ Len(latest'[e]) <= MaxChunks
  BY <1>1 DEF Typed, LatestTyped, TypeOK
<1>8. ingests' \in 0..MaxIngests
  BY <1>2, KnowledgeAssumption DEF Typed, TypeOK, KnowledgeAssumption
<1>9. DOMAIN collection' \subseteq ChunkIds
  BY <1>3, <1>4 DEF Typed, TypeOK
<1>. QED  BY <1>2, <1>5, <1>6, <1>7, <1>8, <1>9 DEF Typed, TypeOK

LEMMA ExpandTyped ==
  ASSUME Typed, Expand
  PROVE  variations' \in Seq(Phrasings) /\ Contains(variations', Query)
<1>1. PICK suggested \in SeqOf(Phrasings, MaxRewrites) :
        variations' = IF Contains(suggested, Query)
                      THEN suggested
                      ELSE <<Query>> \o suggested
  BY DEF Expand
<1>2. suggested \in Seq(Phrasings)
  <2>1. PICK m \in 0..MaxRewrites : suggested \in [1..m -> Phrasings]
    BY <1>1 DEF SeqOf
  <2>. QED  BY <2>1, KnowledgeAssumption DEF KnowledgeAssumption
<1>3. Query \in Phrasings
  BY DEF Phrasings
<1>4. CASE Contains(suggested, Query)
  BY <1>1, <1>2, <1>4
<1>5. CASE ~Contains(suggested, Query)
  <2>1. variations' = <<Query>> \o suggested /\ <<Query>> \in Seq(Phrasings)
    BY <1>1, <1>3, <1>5
  <2>2. variations' \in Seq(Phrasings) /\ Len(variations') \in Nat \ {0} /\ variations'[1] = Query
    BY <1>2, <2>1
  <2>. QED  BY <2>2 DEF Contains
<1>. QED  BY <1>4, <1>5

\* What a search step leaves alone of what the types are about.
LEMMA SearchLeavesStore == Search => UNCHANGED <<collection, latest, ingests>>
BY DEF Search, Ask, Expand, Count, Retrieve, FoundNothing, Narrow, Generate, SearchRaises, store

LEMMA SearchTyped == Typed /\ Asked /\ Search => TypeOK' /\ LatestTyped'
<1>. SUFFICES ASSUME Typed, Asked, Search PROVE TypeOK' /\ LatestTyped'
  OBVIOUS
<1>1. UNCHANGED <<collection, latest, ingests>>
  BY SearchLeavesStore
<1>2. LatestTyped'
  BY <1>1 DEF Typed, LatestTyped
<1>3. CASE Ask
  <2>1. <<Query>> \in Seq(Phrasings)
    BY DEF Phrasings
  <2>2. variations' \in Seq(Phrasings)
    <3>1. variations' = variations \/ variations' = <<Query>>
      BY <1>3 DEF Ask
    <3>. QED  BY <2>1, <3>1 DEF Typed, TypeOK
  <2>3. pc' \in {"expand", "search"}
    BY <1>3 DEF Ask
  <2>. QED  BY <1>1, <1>2, <1>3, <2>2, <2>3 DEF Ask, Typed, TypeOK
<1>4. CASE Expand
  BY <1>1, <1>2, <1>4, ExpandTyped DEF Expand, Typed, TypeOK
<1>5. CASE Count
  <2>1. Cardinality(DOMAIN collection) \in Nat
    BY FS_CardinalityType DEF Typed, Measured
  <2>2. wanted' \in Int /\ (wanted' > 0 => wanted' <= CandidatePool)
    <3>1. \/ wanted' = wanted
          \/ /\ wanted' = Capped(Cardinality(DOMAIN collection))
             /\ Cardinality(DOMAIN collection) # 0
      BY <1>5 DEF Count
    <3>. QED  BY <2>1, <3>1, CapFits DEF Typed, TypeOK
  <2>3. next' \in Nat \ {0} /\ pc' \in {"search", "query"}
    <3>1. next' = next \/ next' = next + 1
      BY <1>5 DEF Count
    <3>2. pc' = pc \/ pc' = "query"
      BY <1>5 DEF Count
    <3>. QED  BY <1>5, <3>1, <3>2 DEF Count, Typed, TypeOK
  <2>4. sawEmpty' \in BOOLEAN
    <3>1. sawEmpty' = sawEmpty \/ sawEmpty' = (sawEmpty \/ variations[next] = Query)
      BY <1>5 DEF Count
    <3>. QED  BY <3>1 DEF Typed, TypeOK
  <2>. QED  BY <1>1, <1>2, <1>5, <2>2, <2>3, <2>4 DEF Count, Typed, TypeOK
<1>6. CASE Retrieve
  <2>1. variations[next] \in Phrasings => Keeps(best', found')
    BY <1>6, RetrieveKeeps
  <2>2. variations[next] \in Phrasings
    BY <1>6 DEF Retrieve, Asked, Typed, TypeOK
  <2>. QED  BY <1>1, <1>2, <1>6, <2>1, <2>2 DEF Retrieve, Typed, TypeOK, Keeps
<1>7. CASE FoundNothing
  BY <1>1, <1>2, <1>7 DEF FoundNothing, Typed, TypeOK
<1>8. CASE Narrow
  BY <1>1, <1>2, <1>8, NarrowedTyped DEF Narrow, Typed, TypeOK
<1>9. CASE Generate
  BY <1>1, <1>2, <1>9 DEF Generate, Typed, TypeOK
<1>10. CASE SearchRaises
  BY <1>1, <1>2, <1>10 DEF SearchRaises, Typed, TypeOK
<1>. QED  BY <1>3, <1>4, <1>5, <1>6, <1>7, <1>8, <1>9, <1>10 DEF Search

LEMMA AskedPreserved == Typed /\ Asked /\ [Next]_vars => Asked'
<1>. SUFFICES ASSUME Typed, Asked, [Next]_vars PROVE Asked'
  OBVIOUS
<1>0. next \in Nat \ {0} /\ variations \in Seq(Phrasings)
  BY DEF Typed, TypeOK
<1>1. CASE Ingest
  <2>1. UNCHANGED <<pc, variations, next, best, sawEmpty>>
    BY <1>1, IngestStores
  <2>. QED  BY <2>1 DEF Asked, Contains
<1>2. CASE Ask
  <2>1. next' = 1 /\ pc' \in {"expand", "search"}
    BY <1>2 DEF Ask, Asked
  <2>2. pc' = "search" => variations' = <<Query>>
    BY <1>2 DEF Ask
  <2>3. \A i \in 1..Len(variations') : ~(i < next')
    BY <2>1
  <2>4. Contains(<<Query>>, Query)
    BY DEF Contains
  <2>. QED  BY <2>1, <2>2, <2>3, <2>4 DEF Asked
<1>3. CASE Expand
  <2>1. next' = 1 /\ pc' = "search"
    BY <1>3 DEF Expand, Asked
  <2>2. Contains(variations', Query)
    BY <1>3, ExpandTyped
  <2>3. \A i \in 1..Len(variations') : ~(i < next')
    BY <2>1
  <2>. QED  BY <2>1, <2>2, <2>3 DEF Asked
<1>4. CASE Count
  <2>1. UNCHANGED <<variations, best>> /\ next <= Len(variations) /\ pc = "search"
    BY <1>4 DEF Count
  <2>2. CASE pc' = "query"
    <3>1. UNCHANGED <<next, sawEmpty>>
      BY <1>4, <2>1, <2>2 DEF Count
    <3>. QED  BY <2>1, <2>2, <3>1 DEF Asked, Contains
  <2>3. CASE pc' # "query"
    <3>1. next' = next + 1 /\ pc' = "search" /\ sawEmpty' = (sawEmpty \/ variations[next] = Query)
      BY <1>4, <2>1, <2>3 DEF Count
    <3>2. Contains(variations', Query)
      BY <2>1 DEF Asked
    <3>3. ASSUME NEW i \in 1..Len(variations), i < next + 1, variations[i] = Query
          PROVE  sawEmpty' \/ best' # <<>>
      <4>1. CASE i = next
        BY <3>1, <3>3, <4>1
      <4>2. CASE i # next
        <5>1. i < next
          BY <1>0, <3>3, <4>2
        <5>2. sawEmpty \/ best # <<>>
          BY <3>3, <5>1 DEF Asked
        <5>. QED  BY <2>1, <3>1, <5>2
      <4>. QED  BY <4>1, <4>2
    <3>. QED  BY <2>1, <3>1, <3>2, <3>3 DEF Asked
  <2>. QED  BY <2>2, <2>3
<1>5. CASE Retrieve
  <2>1. UNCHANGED <<variations, sawEmpty>> /\ pc = "query" /\ pc' = "search"
    BY <1>5 DEF Retrieve
  <2>2. variations[next] \in Phrasings
    BY <1>0, <2>1 DEF Asked
  <2>3. Keeps(best', found') /\ found' # {}
    BY <1>5, <2>2, RetrieveKeeps
  <2>4. best' # <<>>
    BY <2>3 DEF Keeps
  <2>5. Contains(variations', Query)
    BY <2>1 DEF Asked
  <2>. QED  BY <2>1, <2>4, <2>5 DEF Asked
<1>6. CASE FoundNothing \/ Narrow \/ Generate \/ SearchRaises
  <2>1. /\ UNCHANGED <<variations, next, best, sawEmpty>>
        /\ pc \notin {"idle", "expand"} /\ pc' \in {"generate", "done"}
    BY <1>6 DEF FoundNothing, Narrow, Generate, SearchRaises
  <2>. QED  BY <2>1 DEF Asked, Contains
<1>7. CASE Terminated \/ UNCHANGED vars
  <2>1. UNCHANGED <<pc, variations, next, best, sawEmpty>>
    BY <1>7 DEF Terminated, vars, search
  <2>. QED  BY <2>1 DEF Asked, Contains
<1>. QED  BY <1>1, <1>2, <1>3, <1>4, <1>5, <1>6, <1>7 DEF Next, Search

LEMMA KeepsPreserved == Typed /\ Asked /\ [Next]_vars => Keeps(best, found)'
<1>. SUFFICES ASSUME Typed, Asked, [Next]_vars PROVE Keeps(best', found')
  BY DEF Keeps
<1>1. CASE Retrieve
  <2>1. variations[next] \in Phrasings
    BY <1>1 DEF Retrieve, Asked, Typed, TypeOK
  <2>. QED  BY <1>1, <2>1, RetrieveKeeps
<1>2. CASE ~Retrieve
  <2>1. CASE Ingest
    BY <2>1, IngestStores DEF Typed
  <2>2. CASE ~Ingest
    <3>1. UNCHANGED <<best, found>>
      BY <1>2, <2>2 DEF Next, Search, Ask, Expand, Count, FoundNothing, Narrow, Generate,
                        SearchRaises, Terminated, vars, search
    <3>. QED  BY <3>1 DEF Typed
  <2>. QED  BY <2>1, <2>2
<1>. QED  BY <1>1, <1>2

\* What every reachable state satisfies, and every step preserves.
Sound == Typed /\ Asked /\ NoResultsMeansEmpty

LEMMA SoundPreserved == Sound /\ [Next]_vars => Sound'
<1>. SUFFICES ASSUME Sound, [Next]_vars PROVE Sound'
  OBVIOUS
<1>1. Measured' /\ Asked' /\ Keeps(best, found)'
  BY MeasuredPreserved, AskedPreserved, KeepsPreserved DEF Sound, Typed
<1>2. TypeOK' /\ LatestTyped'
  <2>1. CASE Ingest
    BY <2>1, IngestTyped DEF Sound
  <2>2. CASE Search
    BY <2>2, SearchTyped DEF Sound
  <2>3. CASE UNCHANGED vars
    BY <2>3 DEF Sound, Typed, TypeOK, LatestTyped, vars, store, search
  <2>. QED  BY <2>1, <2>2, <2>3 DEF Next, Terminated
<1>3. NoResultsMeansEmpty'
  <2>1. CASE FoundNothing
    <3>1. pc = "search" /\ next > Len(variations) /\ best = <<>> /\ UNCHANGED sawEmpty
      BY <2>1 DEF FoundNothing
    <3>2. PICK i \in 1..Len(variations) : variations[i] = Query
      BY <3>1 DEF Sound, Asked, Contains
    <3>3. i < next
      BY <3>1 DEF Sound, Typed, TypeOK
    <3>. QED  BY <3>1, <3>2, <3>3 DEF Sound, Asked, NoResultsMeansEmpty
  <2>2. CASE Ingest
    BY <2>2, IngestStores DEF Sound, NoResultsMeansEmpty
  <2>3. CASE Ask \/ Expand \/ Retrieve \/ Narrow \/ UNCHANGED vars
    <3>1. UNCHANGED <<outcome, sawEmpty>>
      BY <2>3 DEF Ask, Expand, Retrieve, Narrow, vars, search
    <3>. QED  BY <3>1 DEF Sound, NoResultsMeansEmpty
  <2>4. CASE Count
    <3>1. outcome' = outcome /\ (sawEmpty => sawEmpty')
      BY <2>4 DEF Count, Sound, Typed, TypeOK
    <3>. QED  BY <3>1 DEF Sound, NoResultsMeansEmpty
  <2>5. CASE Generate \/ SearchRaises
    <3>1. outcome' # "no_results"
      BY <2>5 DEF Generate, SearchRaises
    <3>. QED  BY <3>1 DEF NoResultsMeansEmpty
  <2>. QED  BY <2>1, <2>2, <2>3, <2>4, <2>5 DEF Next, Search, Terminated
<1>. QED  BY <1>1, <1>2, <1>3 DEF Sound, Typed

LEMMA SoundInit == Init => Sound
<1>. SUFFICES ASSUME Init PROVE Sound
  OBVIOUS
<1>1. DOMAIN collection = {} /\ IsFiniteSet(DOMAIN collection)
  BY FS_EmptySet DEF Init
<1>2. LatestTyped /\ \A d \in DocIds : latest[d] = <<>> /\ Len(latest[d]) <= MaxChunks
  BY KnowledgeAssumption DEF Init, LatestTyped, KnowledgeAssumption
<1>3. TypeOK
  <2>1. DOMAIN collection \subseteq ChunkIds /\ \A id \in DOMAIN collection : collection[id] \in Texts
    BY <1>1
  <2>2. \A d \in DocIds : latest[d] \in Seq(Texts) /\ Len(latest[d]) <= MaxChunks
    BY <1>2 DEF LatestTyped
  <2>3. ingests \in 0..MaxIngests /\ wanted = 0 /\ next \in Nat \ {0}
    BY KnowledgeAssumption DEF Init, KnowledgeAssumption
  <2>4. context \in Seq(Texts) /\ (TopK >= 0 => Len(context) <= TopK)
    <3>1. context = <<>> /\ <<>> \in Seq(Texts) /\ Len(<<>>) = 0
      BY DEF Init
    <3>. QED  BY <3>1, KnowledgeAssumption DEF KnowledgeAssumption
  <2>5. variations \in Seq(Phrasings) /\ best \in Seq(Hits) /\ \A hit \in found : hit \in Hits
    BY DEF Init
  <2>6. /\ pc \in {"idle", "expand", "search", "query", "generate", "done"}
        /\ outcome \in {"none", "no_results", "answered", "blank_answer", "raised"}
        /\ sawEmpty \in BOOLEAN
    BY DEF Init
  <2>. QED  BY <2>1, <2>2, <2>3, <2>4, <2>5, <2>6 DEF TypeOK
<1>4. Measured
  BY <1>1 DEF Init, Measured, QueryWithinCollection
<1>5. Keeps(best, found)
  BY DEF Init, Keeps
<1>6. Asked /\ NoResultsMeansEmpty
  BY DEF Init, Asked, NoResultsMeansEmpty
<1>. QED  BY <1>2, <1>3, <1>4, <1>5, <1>6 DEF Sound, Typed

LEMMA Soundness == Spec => []Sound
BY SoundInit, SoundPreserved, PTL DEF Spec

\* Types of the collection and of the search's local state.
THEOREM TypeCorrect == Spec => []TypeOK
<1>1. Sound => TypeOK
  BY DEF Sound, Typed
<1>. QED  BY <1>1, Soundness, PTL

\* "No relevant document" is reported only if the collection was empty when
\* the agent's own words were searched (answer_from_knowledge).
THEOREM NothingFoundMeansEmpty == Spec => []NoResultsMeansEmpty
<1>1. Sound => NoResultsMeansEmpty
  BY DEF Sound
<1>. QED  BY <1>1, Soundness, PTL

-----------------------------------------------------------------------------
\* The merged list.

Texting == [i \in 1..Len(Candidates) |-> Candidates[i].text]

DistancesOf(text) == {h.distance : h \in {g \in found : g.text = text}} \ {NoDistance}

Away(text) == IF DistancesOf(text) = {} THEN NoDistance ELSE Min(DistancesOf(text))

\* A text's hit in the dict is at the distance of its closest hit.
LEMMA KeptIsClosest ==
  ASSUME Keeps(best, found), NEW k \in 1..Len(best)
  PROVE  best[k].distance = Away(best[k].text)
<1>. DEFINE kept == best[k]
            text == kept.text
<1>1. kept \in found /\ kept \in Hits /\ kept.distance \in Nat \cup {NoDistance}
  BY DEF Keeps, Hits
<1>2. ASSUME NEW h \in found, h.text = text
      PROVE  ~Closer(h, kept) /\ h.distance \in Nat \cup {NoDistance}
  <2>1. PICK i \in 1..Len(best) : best[i].text = h.text /\ ~Closer(h, best[i])
    BY DEF Keeps
  <2>2. i = k
    BY <1>2, <2>1 DEF Keeps
  <2>. QED  BY <2>1, <2>2 DEF Keeps, Hits
<1>. HIDE DEF kept, text
<1>3. DistancesOf(text) \in SUBSET Nat
  BY <1>2 DEF DistancesOf
<1>4. CASE DistancesOf(text) = {}
  <2>1. kept.distance \notin DistancesOf(text) /\ kept.text = text
    BY <1>4 DEF text, kept
  <2>2. kept.distance = NoDistance
    BY <1>1, <2>1 DEF DistancesOf
  <2>. QED  BY <1>4, <2>2 DEF Away, text, kept
<1>5. CASE DistancesOf(text) # {}
  <2>1. ASSUME NEW m \in DistancesOf(text) PROVE kept.distance # NoDistance /\ kept.distance <= m
    <3>1. PICK h \in found : h.text = text /\ h.distance = m /\ m # NoDistance
      BY DEF DistancesOf
    <3>2. ~Closer(h, kept)
      BY <1>2, <3>1
    <3>3. m \in Nat
      BY <1>3
    <3>. QED  BY <1>1, <3>1, <3>2, <3>3 DEF Closer
  <2>2. kept.distance \in DistancesOf(text)
    <3>1. kept.distance # NoDistance /\ kept.text = text
      BY <1>5, <2>1 DEF text, kept
    <3>. QED  BY <1>1, <3>1 DEF DistancesOf
  <2>3. Min(DistancesOf(text)) = kept.distance
    BY <1>3, <2>1, <2>2, MinIs
  <2>. QED  BY <1>5, <2>3 DEF Away, text, kept
<1>. QED  BY <1>4, <1>5

LEMMA MergedInOrder ==
  ASSUME Keeps(best, found)
  PROVE  /\ ToSet(Texting) = {hit.text : hit \in found}
         /\ IsInjective(Texting)
         /\ \A i \in 1..Len(Texting) : Candidates[i].distance = Away(Texting[i])
         /\ \A i, j \in 1..Len(Texting) : i < j =>
              \/ Away(Texting[j]) = NoDistance
              \/ Away(Texting[i]) # NoDistance /\ Away(Texting[i]) <= Away(Texting[j])
<1>. DEFINE places == 1..Len(best)
            at(p) == Position(best, p)
<1>1. best \in Seq(Hits) /\ Len(best) \in Nat
  BY DEF Keeps
<1>2. /\ DOMAIN Candidates = places /\ Len(Candidates) = Len(best)
      /\ DOMAIN Texting = places /\ Len(Texting) = Len(best)
  BY <1>1, CandidatesSorted DEF Texting
<1>3. ASSUME NEW p \in places
      PROVE  /\ at(p) \in places
             /\ Candidates[p] = best[at(p)] /\ Texting[p] = best[at(p)].text
             /\ best[at(p)] \in found /\ best[at(p)] \in Hits
  <2>1. at(p) \in places
    BY <1>1, PositionTaken
  <2>2. Candidates[p] = best[at(p)] /\ Texting[p] = Candidates[p].text
    BY <1>2, CandidatesSorted DEF Texting
  <2>. QED  BY <2>1, <2>2 DEF Keeps
<1>4. ToSet(Texting) = {hit.text : hit \in found}
  <2>1. ASSUME NEW p \in places PROVE Texting[p] \in {hit.text : hit \in found}
    BY <1>3
  <2>2. ASSUME NEW hit \in found PROVE \E p \in places : Texting[p] = hit.text
    <3>1. PICK i \in places : best[i].text = hit.text
      BY DEF Keeps
    <3>2. Rank(best, i) \in places /\ at(Rank(best, i)) = i
      BY <1>1, PositionOfRank
    <3>. QED  BY <1>3, <3>1, <3>2
  <2>. QED  BY <1>2, <2>1, <2>2 DEF ToSet
<1>5. IsInjective(Texting)
  <2>1. ASSUME NEW p \in places, NEW q \in places, Texting[p] = Texting[q] PROVE p = q
    <3>1. at(p) = at(q)
      <4>1. /\ at(p) \in places /\ at(q) \in places
            /\ best[at(p)].text = best[at(q)].text
        BY <1>3, <2>1
      <4>. HIDE DEF at
      <4>. QED  BY <4>1 DEF Keeps
    <3>2. Rank(best, at(p)) = p
      BY <1>1, PositionTaken
    <3>3. Rank(best, at(q)) = q
      BY <1>1, PositionTaken
    <3>. QED  BY <3>1, <3>2, <3>3
  <2>. QED  BY <1>2, <2>1 DEF IsInjective
<1>6. ASSUME NEW p \in places
      PROVE  Candidates[p].distance = Away(Texting[p])
  BY <1>3, KeptIsClosest
<1>7. ASSUME NEW p \in places, NEW q \in places, p < q
      PROVE  \/ Away(Texting[q]) = NoDistance
             \/ Away(Texting[p]) # NoDistance /\ Away(Texting[p]) <= Away(Texting[q])
  <2>1. Before(best, at(p), at(q))
    BY <1>1, <1>7, PositionsOrdered
  <2>. DEFINE a == best[at(p)]
              b == best[at(q)]
  <2>2. a \in Hits /\ b \in Hits
    BY <1>3
  <2>3. ~Closer(b, a)
    <3>1. Closer(a, b) \/ ~Closer(b, a)
      BY <2>1 DEF Before
    <3>. HIDE DEF a, b
    <3>. QED  BY <2>2, <3>1, CloserOrder
  <2>4. a.distance = Away(Texting[p]) /\ b.distance = Away(Texting[q])
    BY <1>3, <1>6
  <2>. HIDE DEF a, b
  <2>5. a.distance \in Nat \cup {NoDistance} /\ b.distance \in Nat \cup {NoDistance}
    BY <2>2 DEF Hits
  <2>. QED  BY <2>3, <2>4, <2>5 DEF Closer, NoDistance
<1>. QED  BY <1>2, <1>4, <1>5, <1>6, <1>7

\* Every text any phrasing found is a candidate once, at the smallest
\* distance it was found at, closest first (retrieve_with_variations).
THEOREM MergeIsSound == Spec => []MergedClosestFirst
<1>1. Sound => MergedClosestFirst
  <2>. SUFFICES ASSUME Sound PROVE MergedClosestFirst
    OBVIOUS
  <2>1. Keeps(best, found)
    BY DEF Sound, Typed
  <2>. QED  BY <2>1, MergedInOrder DEF MergedClosestFirst, Texting, Away, DistancesOf
<1>. QED  BY <1>1, Soundness, PTL
=============================================================================
