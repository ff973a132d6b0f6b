------------------------------ MODULE Chunker ------------------------------
(***************************************************************************)
(* app/core/rag/chunker.py: a document is grouped into chunks of sentences *)
(* that belong together, and what is too long is split structurally.       *)
(*                                                                         *)
(* Whether a sentence is similar enough to the group it may join is left   *)
(* open: an embedding decides it.  A text is made of letters, a mark that  *)
(* ends a sentence, blanks and newlines.  The overlap of recursive_chunk,  *)
(* for which no caller in the application asks, is left out, and so is     *)
(* chunk_by_paragraph, which nothing calls.                                *)
(***************************************************************************)
EXTENDS Splitting, SequencesExt

CONSTANTS
  Texts,      \* the texts that may be chunked
  MaxLength   \* max_length

TextSymbols == {"x", ".", " ", "newline"}

ASSUME ChunkAssumption ==
  Texts \subseteq Seq(TextSymbols) /\ MaxLength \in Nat \ {0}

VARIABLES
  text,      \* what is chunked
  entry,     \* the function that is called
  waiting,   \* the sentences not looked at yet
  current,   \* current_chunk, its sentences joined by blanks
  chunks,    \* chunks, and in the end final_chunks
  chunked    \* the function has returned

chunkVars == <<text, entry, waiting, current, chunks, chunked>>

-----------------------------------------------------------------------------
White(symbol) == symbol \in {" ", "newline"}

\* str.strip
Strip(t) ==
  LET ink == {i \in 1..Len(t) : ~White(t[i])}
  IN  IF ink = {} THEN <<>>
      ELSE SubSeq(t, CHOOSE i \in ink : \A j \in ink : i <= j,
                     CHOOSE i \in ink : \A j \in ink : j <= i)

\* The maximal runs of white space.
Spaces(t) ==
  {run \in (1..Len(t)) \X (1..Len(t)) :
     /\ run[1] <= run[2]
     /\ \A k \in run[1]..run[2] : White(t[k])
     /\ run[1] = 1 \/ ~White(t[run[1] - 1])
     /\ run[2] = Len(t) \/ ~White(t[run[2] + 1])}

SentenceGaps(t) == {space \in Spaces(t) : space[1] > 1 /\ t[space[1] - 1] = "."}

\* re.split(r"(?<=[.!?])\s+", t)
Sentences(t) == Split(t, SentenceGaps(t))

\* From the first newline of a run of white space to its last.
ParagraphGaps(t) ==
  {gap \in (1..Len(t)) \X (1..Len(t)) :
     /\ gap[1] < gap[2] /\ t[gap[1]] = "newline" /\ t[gap[2]] = "newline"
     /\ \E space \in Spaces(t) :
          /\ space[1] <= gap[1] /\ gap[2] <= space[2]
          /\ \A k \in space[1]..space[2] : t[k] = "newline" => k \in gap[1]..gap[2]}

\* re.split(r"\n\s*\n", t)
Paragraphs(t) == Split(t, ParagraphGaps(t))

\* current += " " + part if current else part
Join(group, part) ==
  IF group = <<>> THEN part ELSE group \o <<" ">> \o part

\* Extending a list by each of these in turn.
Concat(lists) == FoldLeft(\o, <<>>, lists)

\* Mutant: every piece but the first starts one symbol too late.
HardSplitGaps(t) ==
  [n \in 1..(Len(t) + MaxLength - 1) \div MaxLength |->
     SubSeq(t, (n - 1) * MaxLength + (IF n = 1 THEN 1 ELSE 2),
               IF n * MaxLength < Len(t) THEN n * MaxLength ELSE Len(t))]

\* _hard_split
HardSplit(t) ==
  [n \in 1..(Len(t) + MaxLength - 1) \div MaxLength |->
     SubSeq(t, (n - 1) * MaxLength + 1,
               IF n * MaxLength < Len(t) THEN n * MaxLength ELSE Len(t))]

\* The loop of _split_and_recurse: parts are grouped while they fit.
AddPart(grouped, part) ==
  IF Len(grouped.last) + Len(part) + 1 <= MaxLength
  THEN [grouped EXCEPT !.last = Join(@, part)]
  ELSE [closed |-> Append(grouped.closed, grouped.last), last |-> part]

\* The groups that _split_and_recurse chunks in turn.  A first part that does
\* not fit closes an empty group, which becomes an empty chunk.
Groups(parts) ==
  LET grouped == FoldLeft(AddPart, [closed |-> <<>>, last |-> <<>>], parts)
  IN  IF grouped.last = <<>> THEN grouped.closed
      ELSE Append(grouped.closed, grouped.last)

\* The parts into which recursive_chunk splits what does not fit.
Parts(t) == IF Len(Paragraphs(t)) > 1 THEN Paragraphs(t) ELSE Sentences(t)

\* recursive_chunk
RecursiveChunk[whole \in Seq(TextSymbols)] ==
  LET t == Strip(whole)
      groups == Groups(Parts(t))
  IN  IF Len(t) <= MaxLength THEN <<t>>
      ELSE IF Len(Parts(t)) > 1
      THEN Concat([i \in 1..Len(groups) |-> RecursiveChunk[groups[i]]])
      ELSE HardSplit(t)

\* The end of semantic_chunk: oversized chunks are split structurally.
SplitOversized(groups) ==
  Concat([i \in 1..Len(groups) |->
            IF Len(groups[i]) > MaxLength THEN RecursiveChunk[groups[i]]
            ELSE <<groups[i]>>])

-----------------------------------------------------------------------------
ChunkInit ==
  /\ text \in Texts
  /\ entry \in {"semantic_chunk", "recursive_chunk"}
  /\ waiting = Sentences(Strip(text))
  /\ current = <<>> /\ chunks = <<>> /\ chunked = FALSE

\* recursive_chunk, called on its own.
ChunkRecursively ==
  /\ entry = "recursive_chunk" /\ ~chunked
  /\ chunks' = RecursiveChunk[text]
  /\ chunked' = TRUE
  /\ UNCHANGED <<text, entry, waiting, current>>

\* The next sentence of semantic_chunk.
Sentence ==
  /\ entry = "semantic_chunk" /\ waiting # <<>>
  /\ waiting' = Tail(waiting)
  /\ UNCHANGED <<text, entry, chunked>>

\* Only an empty text has an empty sentence.
SkipEmpty ==
  /\ Sentence
  /\ Head(waiting) = <<>>
  /\ UNCHANGED <<current, chunks>>

StartGroup ==
  /\ Sentence
  /\ Head(waiting) # <<>> /\ current = <<>>
  /\ current' = Head(waiting)
  /\ UNCHANGED chunks

\* It is similar to the group, and fits.
JoinGroup ==
  /\ Sentence
  /\ Head(waiting) # <<>> /\ current # <<>>
  /\ Len(Join(current, Head(waiting))) <= MaxLength
  /\ current' = Join(current, Head(waiting))
  /\ UNCHANGED chunks

\* It is not similar, or does not fit: it starts the next group.
CloseGroup ==
  /\ Sentence
  /\ Head(waiting) # <<>> /\ current # <<>>
  /\ chunks' = Append(chunks, current)
  /\ current' = Head(waiting)

\* The last group, and what is oversized.
ReturnChunks ==
  /\ entry = "semantic_chunk" /\ waiting = <<>> /\ ~chunked
  /\ chunks' = SplitOversized(IF current = <<>> THEN chunks
                              ELSE Append(chunks, current))
  /\ current' = <<>>
  /\ chunked' = TRUE
  /\ UNCHANGED <<text, entry, waiting>>

ChunkNext ==
  \/ ChunkRecursively
  \/ SkipEmpty \/ StartGroup \/ JoinGroup \/ CloseGroup \/ ReturnChunks

ChunkSpec == ChunkInit /\ [][ChunkNext]_chunkVars

-----------------------------------------------------------------------------
AddInk(ink, symbol) == IF White(symbol) THEN ink ELSE Append(ink, symbol)

\* What of a text is not white space.
Ink(t) == FoldLeft(AddInk, <<>>, t)

\* "Recursively splits text into chunks no longer than max_length", and what
\* becomes of the text then: whatever the similarities are, no chunk is longer
\* and nothing but white space is lost, moved or repeated; semantic_chunk keeps
\* every sentence whole that fits a chunk, and makes an empty chunk only of a
\* text with a sentence that does not.
ChunksAreSound ==
  chunked =>
    /\ \A i \in 1..Len(chunks) : Len(chunks[i]) <= MaxLength
    /\ Ink(Concat(chunks)) = Ink(text)
    /\ entry = "semantic_chunk" =>
         LET sentences == Sentences(Strip(text))
             fits(i) == Len(sentences[i]) <= MaxLength
         IN  /\ \A i \in 1..Len(sentences) :
                  fits(i) /\ sentences[i] # <<>> =>
                    \E j \in 1..Len(chunks) :
                      \E k \in 0..Len(chunks[j]) - Len(sentences[i]) :
                        SubSeq(chunks[j], k + 1, k + Len(sentences[i])) = sentences[i]
             /\ (\A i \in 1..Len(sentences) : fits(i)) =>
                  \A j \in 1..Len(chunks) : chunks[j] # <<>>
=============================================================================
