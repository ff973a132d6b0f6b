--------------------------- MODULE KnowledgeBase ---------------------------
(***************************************************************************)
(* One tenant's knowledge base (app/core/rag): documents are ingested into *)
(* a vector collection while an agent's search_knowledge reads it.         *)
(*                                                                         *)
(* Ingestion runs on the event loop, so two never overlap, and its upsert  *)
(* is the store's single call.  A search runs on a worker thread and asks  *)
(* the collection twice per phrasing of its query, first for its size and  *)
(* then for its closest chunks: an ingestion may fall between any two of   *)
(* those calls.                                                            *)
(*                                                                         *)
(* An embedding is abstracted to a table of distances, a chunk to its      *)
(* text, and the store answers with any chunks it holds, closest first:    *)
(* its index is approximate.                                               *)
(***************************************************************************)
EXTENDS Integers, Sequences, FiniteSets, SequencesExt

CONSTANTS
  DocIds,         \* the doc_ids the tenant posts
  Texts,          \* what a chunk can say
  Blank,          \* the text of a document that has none (a scanned PDF)
  Query,          \* what the agent asks
  Rewrites,       \* other phrasings the model may suggest
  Distance,       \* Distance[phrasing][text]
  CandidatePool,  \* RAG_CANDIDATE_POOL, any integer
  TopK,           \* RAG_TOP_K, any integer
  UseExpansion,   \* RAG_USE_EXPANSION
  UseRerank,      \* RAG_USE_RERANK
  MaxChunks,      \* bound: chunks of one document
  MaxRewrites,    \* bound: phrasings in one expansion
  MaxIngests      \* bound: ingestions

ASSUME KnowledgeAssumption ==
  /\ Blank \in Texts
  /\ Query \notin Rewrites
  /\ Distance \in [{Query} \cup Rewrites -> [Texts -> Nat]]
  /\ CandidatePool \in Int /\ TopK \in Int
  /\ UseExpansion \in BOOLEAN /\ UseRerank \in BOOLEAN
  /\ MaxChunks \in Nat \ {0} /\ MaxRewrites \in Nat /\ MaxIngests \in Nat

VARIABLES
  collection,   \* the tenant's collection: chunk id -> text
  latest,       \* history: the chunks of each document's last ingestion
  ingests,      \* ingestions so far, up to MaxIngests
  pc,           \* where the search is
  variations,   \* retrieve_with_variations' query_variations
  next,         \* the phrasing it handles next
  wanted,       \* retrieve_with_metadata's n_results for the next query
  best,         \* its dict of best hits, in insertion order
  context,      \* the chunks the answer is generated from
  outcome,      \* what answer_from_knowledge returned or raised
  found,        \* history: every hit the store returned
  sawEmpty      \* history: the query itself met an empty collection

store == <<collection, latest, ingests>>
search == <<pc, variations, next, wanted, best, context, outcome>>
vars == <<store, search, found, sawEmpty>>

-----------------------------------------------------------------------------
ChunkIds == DocIds \X (1..MaxChunks)

Phrasings == {Query} \cup Rewrites

\* A distance the store left out of its answer.
NoDistance == -1

Hits == [text : Texts, distance : Nat \cup {NoDistance}]

\* Mutant: `hit["distance"] or inf`, which takes a perfect match for a
\* missing distance.
CloserFalsy(a, b) ==
  /\ a.distance \notin {NoDistance, 0}
  /\ b.distance \in {NoDistance, 0} \/ a.distance < b.distance

\* _distance_key(a) < _distance_key(b): a missing distance is infinite.
Closer(a, b) ==
  /\ a.distance # NoDistance
  /\ b.distance = NoDistance \/ a.distance < b.distance

\* s[:n], where a negative n counts from the end.
AtMost(n, s) ==
  SubSeq(s, 1, IF n < 0 THEN Len(s) + n ELSE IF Len(s) < n THEN Len(s) ELSE n)

Init ==
  /\ collection = <<>>
  /\ latest = [d \in DocIds |-> <<>>]
  /\ ingests = 0
  /\ pc = "idle"
  /\ variations = <<>>
  /\ next = 1
  /\ wanted = 0
  /\ best = <<>>
  /\ context = <<>>
  /\ outcome = "none"
  /\ found = {}
  /\ sawEmpty = FALSE

-----------------------------------------------------------------------------
\* Ingestion.

NewIds(d, chunks) == {d} \X (1..Len(chunks))

\* Mutant: the store's add, which leaves an id it already has alone.
UpsertAdd(d, chunks) ==
  [id \in DOMAIN collection \cup NewIds(d, chunks) |->
     IF id \in DOMAIN collection THEN collection[id] ELSE chunks[id[2]]]

\* Mutant: the document's old chunks are deleted before the new ones come.
UpsertReplacing(d, chunks) ==
  [id \in {old \in DOMAIN collection : old[1] # d} \cup NewIds(d, chunks) |->
     IF id \in NewIds(d, chunks) THEN chunks[id[2]] ELSE collection[id]]

\* collection.upsert: the ids are the document's, numbered from its first
\* chunk on; ids the new version does not reach are not touched.
Upsert(d, chunks) ==
  [id \in DOMAIN collection \cup NewIds(d, chunks) |->
     IF id \in NewIds(d, chunks) THEN chunks[id[2]] ELSE collection[id]]

\* A document without a sentence is one chunk, its own text.
Ingest ==
  /\ ingests < MaxIngests
  /\ \E d \in DocIds, chunks \in SeqOf(Texts \ {Blank}, MaxChunks) :
       LET stored == IF chunks = <<>> THEN <<Blank>> ELSE chunks
       IN  /\ collection' = Upsert(d, stored)
           /\ latest' = [latest EXCEPT ![d] = stored]
  /\ ingests' = ingests + 1
  /\ UNCHANGED <<search, found, sawEmpty>>

-----------------------------------------------------------------------------
\* The search.

Ask ==
  /\ pc = "idle"
  /\ IF UseExpansion
     THEN pc' = "expand" /\ UNCHANGED variations
     ELSE pc' = "search" /\ variations' = <<Query>>
  /\ UNCHANGED <<store, next, wanted, best, context, outcome, found, sawEmpty>>

\* Mutant: the model's phrasings are searched, and only those.
ExpandOnlyRewrites ==
  /\ pc = "expand"
  /\ variations' \in SeqOf(Phrasings, MaxRewrites)
  /\ pc' = "search"
  /\ UNCHANGED <<store, next, wanted, best, context, outcome, found, sawEmpty>>

\* The model answers with phrasings, or with nothing usable, or not at all;
\* the query itself goes first unless the model listed it.
Expand ==
  /\ pc = "expand"
  /\ \E suggested \in SeqOf(Phrasings, MaxRewrites) :
       variations' = IF Contains(suggested, Query)
                     THEN suggested
                     ELSE <<Query>> \o suggested
  /\ pc' = "search"
  /\ UNCHANGED <<store, next, wanted, best, context, outcome, found, sawEmpty>>

\* Mutant: max for min.
CappedAbove(count) == IF CandidatePool < count THEN count ELSE CandidatePool

\* min(n_results, count)
Capped(count) == IF CandidatePool < count THEN CandidatePool ELSE count

Count ==
  /\ pc = "search"
  /\ next <= Len(variations)
  /\ LET count == Cardinality(DOMAIN collection)
     IN  IF count = 0
         THEN /\ next' = next + 1
              /\ sawEmpty' = (sawEmpty \/ variations[next] = Query)
              /\ UNCHANGED <<pc, wanted>>
         ELSE /\ pc' = "query"
              /\ wanted' = Capped(count)
              /\ UNCHANGED <<next, sawEmpty>>
  /\ UNCHANGED <<store, variations, best, context, outcome, found>>

\* One hit enters the dict: new, or closer than the one already there.
Merge(hits, hit) ==
  LET same == {i \in 1..Len(hits) : hits[i].text = hit.text}
      closer == {i \in same : Closer(hit, hits[i])}
  IN  IF same = {}
      THEN Append(hits, hit)
      ELSE [i \in 1..Len(hits) |-> IF i \in closer THEN hit ELSE hits[i]]

\* The store's answer to one phrasing: `wanted` chunks, closest first, with
\* their distances or without.
Answers(phrasing) ==
  LET away(id) == Distance[phrasing][collection[id]]
      orders == {s \in [1..wanted -> DOMAIN collection] :
                   \A i, j \in 1..wanted : i < j =>
                     s[i] # s[j] /\ away(s[i]) <= away(s[j])}
  IN  {[i \in 1..wanted |-> [text |-> collection[s[i]],
                             distance |-> IF measured THEN away(s[i]) ELSE NoDistance]] :
         s \in orders, measured \in BOOLEAN}

\* The store refuses to be asked for no chunk, or for fewer (SearchRaises).
Retrieve ==
  /\ pc = "query"
  /\ wanted > 0
  /\ \E hits \in Answers(variations[next]) :
       /\ best' = FoldLeft(Merge, best, hits)
       /\ found' = found \cup {hits[i] : i \in 1..Len(hits)}
  /\ next' = next + 1
  /\ pc' = "search"
  /\ UNCHANGED <<store, variations, wanted, context, outcome, sawEmpty>>

\* The stable sort of the dict's values.
Candidates ==
  LET before(i, j) == \/ Closer(best[i], best[j])
                      \/ ~Closer(best[j], best[i]) /\ i < j
      rank(i) == 1 + Cardinality({j \in 1..Len(best) : before(j, i)})
  IN  [p \in 1..Len(best) |-> best[CHOOSE i \in 1..Len(best) : rank(i) = p]]

\* The candidates' texts, narrowed to TopK: the closest, or those a
\* cross-encoder prefers, in its order.
Narrowed ==
  LET texts == [i \in 1..Len(Candidates) |-> Candidates[i].text]
      size == Len(AtMost(TopK, texts))
  IN  IF UseRerank
      THEN {[i \in 1..size |-> texts[s[i]]] :
              s \in {s \in [1..size -> 1..Len(texts)] :
                       \A i, j \in 1..size : i # j => s[i] # s[j]}}
      ELSE {AtMost(TopK, texts)}

\* Mutant: a search that found nothing is made again.
FoundNothingRetries ==
  /\ pc = "search" /\ next > Len(variations)
  /\ best = <<>>
  /\ next' = 1
  /\ UNCHANGED <<store, pc, variations, wanted, best, context, outcome, found, sawEmpty>>

FoundNothing ==
  /\ pc = "search" /\ next > Len(variations)
  /\ best = <<>>
  /\ pc' = "done"
  /\ outcome' = "no_results"
  /\ UNCHANGED <<store, variations, next, wanted, best, context, found, sawEmpty>>

Narrow ==
  /\ pc = "search" /\ next > Len(variations)
  /\ best # <<>>
  /\ context' \in Narrowed
  /\ pc' = "generate"
  /\ UNCHANGED <<store, variations, next, wanted, best, outcome, found, sawEmpty>>

\* The model answers from the context, possibly with no text at all, which
\* search_knowledge reports the way it reports NO_RESULTS.
Generate ==
  /\ pc = "generate"
  /\ pc' = "done"
  /\ outcome' \in {"answered", "blank_answer"}
  /\ UNCHANGED <<store, variations, next, wanted, best, context, found, sawEmpty>>

\* The store, a model on this machine or the provider raises, anywhere but in
\* the expansion; search_knowledge turns it into an ERROR for the agent.
SearchRaises ==
  /\ pc \in {"search", "query", "generate"}
  /\ pc' = "done"
  /\ outcome' = "raised"
  /\ UNCHANGED <<store, variations, next, wanted, best, context, found, sawEmpty>>

Search == Ask \/ Expand \/ Count \/ Retrieve \/ FoundNothing \/ Narrow \/ Generate \/ SearchRaises

Terminated == pc = "done" /\ UNCHANGED vars

Next == Ingest \/ Search \/ Terminated

\* The thread that searches is scheduled and its calls return or raise.
\* Nobody has to post documents, nor to start a search.
Spec == Init /\ [][Next]_vars /\ WF_vars(Search /\ pc # "idle")

-----------------------------------------------------------------------------
\* Properties.

\* Types of the collection and of the search's local state.
TypeOK ==
  /\ DOMAIN collection \subseteq ChunkIds
  /\ \A id \in DOMAIN collection : collection[id] \in Texts
  /\ \A d \in DocIds : latest[d] \in Seq(Texts) /\ Len(latest[d]) <= MaxChunks
  /\ ingests \in 0..MaxIngests
  /\ pc \in {"idle", "expand", "search", "query", "generate", "done"}
  /\ variations \in Seq(Phrasings)
  /\ next \in Nat \ {0}
  /\ wanted \in Int /\ (wanted > 0 => wanted <= CandidatePool)
  /\ best \in Seq(Hits)
  /\ context \in Seq(Texts) /\ (TopK >= 0 => Len(context) <= TopK)
  /\ outcome \in {"none", "no_results", "answered", "blank_answer", "raised"}
  /\ \A hit \in found : hit \in Hits
  /\ sawEmpty \in BOOLEAN

\* Whatever is ingested between count() and query(), the store is never asked
\* for more chunks than it holds, and for none only if RAG_CANDIDATE_POOL, which
\* config.py does not check, is not positive (retrieve_with_metadata).
QueryWithinCollection ==
  pc = "query" => /\ wanted <= Cardinality(DOMAIN collection)
                  /\ CandidatePool > 0 => wanted > 0

\* Every text any phrasing found is a candidate once, at the smallest
\* distance it was found at, closest first and unmeasured last, in whatever
\* order the phrasings met it (retrieve_with_variations).
MergedClosestFirst ==
  pc = "generate" =>
    LET texts == [i \in 1..Len(Candidates) |-> Candidates[i].text]
        measured(text) == {h.distance : h \in {g \in found : g.text = text}} \ {NoDistance}
        away(text) == IF measured(text) = {} THEN NoDistance ELSE Min(measured(text))
    IN  /\ ToSet(texts) = {hit.text : hit \in found}
        /\ IsInjective(texts)
        /\ \A i \in 1..Len(texts) : Candidates[i].distance = away(texts[i])
        /\ \A i, j \in 1..Len(texts) : i < j =>
             \/ away(texts[j]) = NoDistance
             \/ away(texts[i]) # NoDistance /\ away(texts[i]) <= away(texts[j])

\* "No relevant document" is reported only if the collection was empty when
\* the agent's own words were searched, whatever the expansion did.
NoResultsMeansEmpty == outcome = "no_results" => sawEmpty

\* The last version of a document is searchable in full, under its own
\* chunk numbers, whatever versions were there before (ingest).
LatestVersionIndexed ==
  \A d \in DocIds : \A i \in 1..Len(latest[d]) :
    /\ <<d, i>> \in DOMAIN collection
    /\ collection[<<d, i>>] = latest[d][i]

\* A search that was started ends, with an answer or an error.
SearchEnds == pc = "expand" \/ pc = "search" ~> pc = "done"

-----------------------------------------------------------------------------
\* What the documentation says, and the code does not do.

\* README: "Re-posting the same `doc_id` replaces that document's chunks."
OldVersionGone ==
  \A d \in DocIds : \A id \in DOMAIN collection : id[1] = d => id[2] <= Len(latest[d])
=============================================================================
