----------------------------- MODULE TextProofs -----------------------------
(***************************************************************************)
(* What TLAPS proves about the two passes over text.                       *)
(*                                                                         *)
(* The parser of event streams, for every body and every way to cut it, is *)
(* compared with its reference symbol by symbol: after each prefix of the  *)
(* body, both have the same events, and what the parser holds splits into  *)
(* the lines that the reference has not turned into an event yet.          *)
(*                                                                         *)
(* The chunker, for every text and every max_length, is followed by what   *)
(* of a text is not white space: splitting, grouping and cutting keep it,  *)
(* so recursive_chunk does, by induction on the length of the text, and    *)
(* semantic_chunk before and after each sentence.                          *)
(***************************************************************************)
EXTENDS SSEParser, Chunker, FiniteSetTheorems, SequenceTheorems, TLAPS

BodyTexts == Seq(BodySymbols)

-----------------------------------------------------------------------------
\* Folds over sequences, one element more at a time.

AddNormalised(s, i, v) == Normalise(v, s[i])
AddCut(s, i, v) == CutSymbol(v, s[i])
AddLine(s, i, v) == ReadLine(v, s[i])
AddField(s, i, v) == ReadField(v, s[i])

NormFold == INSTANCE SetRecursion WITH Step <- AddNormalised, Choose <- Max
CutFold == INSTANCE SetRecursion WITH Step <- AddCut, Choose <- Max
LineFold == INSTANCE SetRecursion WITH Step <- AddLine, Choose <- Max
FieldFold == INSTANCE SetRecursion WITH Step <- AddField, Choose <- Max

NoNorm == [text |-> <<>>, return |-> FALSE]
NoCut == [events |-> <<>>, left |-> <<>>]
NoField == [event |-> "message", data |-> <<>>]

Norm(t) == FoldLeft(Normalise, NoNorm, t)
Fields(lines) == FoldLeft(ReadField, NoField, lines)

\* Appending does not touch what is there.
LEMMA Appended ==
  ASSUME NEW S, NEW s \in Seq(S), NEW x
  PROVE  /\ Len(s) \in Nat /\ DOMAIN s = 1..Len(s)
         /\ Len(Append(s, x)) = Len(s) + 1 /\ DOMAIN Append(s, x) = 1..(Len(s) + 1)
         /\ \A i \in 1..Len(s) : Append(s, x)[i] = s[i]
         /\ Append(s, x)[Len(s) + 1] = x
OBVIOUS

LEMMA NormNone == Norm(<<>>) = NoNorm
<1>1. Norm(<<>>) = NormFold!Folded(<<>>, NoNorm, {})
  BY DEF Norm, FoldLeft, MapThenFoldSet, NormFold!Folded, NormFold!Folding, AddNormalised
<1>. QED  BY <1>1, NormFold!FoldedEmpty

LEMMA NormOne ==
  ASSUME NEW S, NEW s \in Seq(S), NEW x
  PROVE  Norm(Append(s, x)) = Normalise(Norm(s), x)
<1>. DEFINE more == Append(s, x)
<1>1. DOMAIN s = 1..Len(s) /\ DOMAIN more = 1..Len(more) /\ more[Len(s) + 1] = x
  BY Appended
<1>2. NormFold!ChoosesLast
  BY DEF NormFold!ChoosesLast, Max
<1>3. NormFold!StepsAgree(more, s, Len(s))
  BY Appended DEF NormFold!StepsAgree, AddNormalised
<1>. HIDE DEF more
<1>4. Norm(s) = NormFold!Folded(s, NoNorm, 1..Len(s))
  BY <1>1 DEF Norm, FoldLeft, MapThenFoldSet, NormFold!Folded, NormFold!Folding, AddNormalised
<1>5. Norm(more) = NormFold!Folded(more, NoNorm, 1..Len(more))
  BY <1>1 DEF Norm, FoldLeft, MapThenFoldSet, NormFold!Folded, NormFold!Folding, AddNormalised
<1>6. NormFold!Folded(more, NoNorm, 1..Len(more))
        = AddNormalised(more, Len(s) + 1, NormFold!Folded(s, NoNorm, 1..Len(s)))
  BY <1>2, <1>3, NormFold!FoldedMore DEF more
<1>. QED  BY <1>1, <1>4, <1>5, <1>6 DEF AddNormalised, more

LEMMA CutNone == CutFrames(<<>>) = NoCut
<1>1. CutFrames(<<>>) = CutFold!Folded(<<>>, NoCut, {})
  BY DEF CutFrames, NoCut, FoldLeft, MapThenFoldSet, CutFold!Folded, CutFold!Folding, AddCut
<1>. QED  BY <1>1, CutFold!FoldedEmpty

LEMMA CutOne ==
  ASSUME NEW S, NEW s \in Seq(S), NEW x
  PROVE  CutFrames(Append(s, x)) = CutSymbol(CutFrames(s), x)
<1>. DEFINE more == Append(s, x)
<1>1. DOMAIN s = 1..Len(s) /\ DOMAIN more = 1..Len(more) /\ more[Len(s) + 1] = x
  BY Appended
<1>2. CutFold!ChoosesLast
  BY DEF CutFold!ChoosesLast, Max
<1>3. CutFold!StepsAgree(more, s, Len(s))
  BY Appended DEF CutFold!StepsAgree, AddCut
<1>. HIDE DEF more
<1>4. CutFrames(s) = CutFold!Folded(s, NoCut, 1..Len(s))
  BY <1>1 DEF CutFrames, NoCut, FoldLeft, MapThenFoldSet, CutFold!Folded, CutFold!Folding, AddCut
<1>5. CutFrames(more) = CutFold!Folded(more, NoCut, 1..Len(more))
  BY <1>1 DEF CutFrames, NoCut, FoldLeft, MapThenFoldSet, CutFold!Folded, CutFold!Folding, AddCut
<1>6. CutFold!Folded(more, NoCut, 1..Len(more))
        = AddCut(more, Len(s) + 1, CutFold!Folded(s, NoCut, 1..Len(s)))
  BY <1>2, <1>3, CutFold!FoldedMore DEF more
<1>. QED  BY <1>1, <1>4, <1>5, <1>6 DEF AddCut, more

LEMMA ReadNone == Read(<<>>) = NoRead
<1>1. Read(<<>>) = LineFold!Folded(<<>>, NoRead, {})
  BY DEF Read, FoldLeft, MapThenFoldSet, LineFold!Folded, LineFold!Folding, AddLine
<1>. QED  BY <1>1, LineFold!FoldedEmpty

LEMMA ReadOne ==
  ASSUME NEW S, NEW s \in Seq(S), NEW x
  PROVE  Read(Append(s, x)) = ReadLine(Read(s), x)
<1>. DEFINE more == Append(s, x)
<1>1. DOMAIN s = 1..Len(s) /\ DOMAIN more = 1..Len(more) /\ more[Len(s) + 1] = x
  BY Appended
<1>2. LineFold!ChoosesLast
  BY DEF LineFold!ChoosesLast, Max
<1>3. LineFold!StepsAgree(more, s, Len(s))
  BY Appended DEF LineFold!StepsAgree, AddLine
<1>. HIDE DEF more
<1>4. Read(s) = LineFold!Folded(s, NoRead, 1..Len(s))
  BY <1>1 DEF Read, FoldLeft, MapThenFoldSet, LineFold!Folded, LineFold!Folding, AddLine
<1>5. Read(more) = LineFold!Folded(more, NoRead, 1..Len(more))
  BY <1>1 DEF Read, FoldLeft, MapThenFoldSet, LineFold!Folded, LineFold!Folding, AddLine
<1>6. LineFold!Folded(more, NoRead, 1..Len(more))
        = AddLine(more, Len(s) + 1, LineFold!Folded(s, NoRead, 1..Len(s)))
  BY <1>2, <1>3, LineFold!FoldedMore DEF more
<1>. QED  BY <1>1, <1>4, <1>5, <1>6 DEF AddLine, more

LEMMA FieldsNone == Fields(<<>>) = NoField
<1>1. Fields(<<>>) = FieldFold!Folded(<<>>, NoField, {})
  BY DEF Fields, FoldLeft, MapThenFoldSet, FieldFold!Folded, FieldFold!Folding, AddField
<1>. QED  BY <1>1, FieldFold!FoldedEmpty

LEMMA FieldsOne ==
  ASSUME NEW S, NEW s \in Seq(S), NEW x
  PROVE  Fields(Append(s, x)) = ReadField(Fields(s), x)
<1>. DEFINE more == Append(s, x)
<1>1. DOMAIN s = 1..Len(s) /\ DOMAIN more = 1..Len(more) /\ more[Len(s) + 1] = x
  BY Appended
<1>2. FieldFold!ChoosesLast
  BY DEF FieldFold!ChoosesLast, Max
<1>3. FieldFold!StepsAgree(more, s, Len(s))
  BY Appended DEF FieldFold!StepsAgree, AddField
<1>. HIDE DEF more
<1>4. Fields(s) = FieldFold!Folded(s, NoField, 1..Len(s))
  BY <1>1 DEF Fields, FoldLeft, MapThenFoldSet, FieldFold!Folded, FieldFold!Folding, AddField
<1>5. Fields(more) = FieldFold!Folded(more, NoField, 1..Len(more))
  BY <1>1 DEF Fields, FoldLeft, MapThenFoldSet, FieldFold!Folded, FieldFold!Folding, AddField
<1>6. FieldFold!Folded(more, NoField, 1..Len(more))
        = AddField(more, Len(s) + 1, FieldFold!Folded(s, NoField, 1..Len(s)))
  BY <1>2, <1>3, FieldFold!FoldedMore DEF more
<1>. QED  BY <1>1, <1>4, <1>5, <1>6 DEF AddField, more


\* Induction over sequences.
LEMMA SequenceInduction ==
  ASSUME NEW S, NEW G, <<>> \in G, \A s \in Seq(S) : s \in G => \A x \in S : Append(s, x) \in G
  PROVE  \A s \in Seq(S) : s \in G
<1>. SUFFICES ASSUME NEW s \in Seq(S), s \notin G PROVE FALSE
  OBVIOUS
<1>. DEFINE wrong == {k \in 0..Len(s) : SubSeq(s, 1, k) \notin G}
<1>1. Len(s) \in wrong
  <2>1. SubSeq(s, 1, Len(s)) = s /\ Len(s) \in 0..Len(s)
    BY SubSeqFull
  <2>. QED  BY <2>1
<1>2. PICK k \in wrong : \A m \in wrong : k <= m
  <2>1. wrong \in SUBSET Nat
    OBVIOUS
  <2>. HIDE DEF wrong
  <2>. QED  BY <1>1, <2>1, NormFold!LeastNatural
<1>3. k \in 0..Len(s) /\ SubSeq(s, 1, k) \notin G
  BY <1>2
<1>4. k # 0
  <2>1. SubSeq(s, 1, 0) = <<>>
    BY SubSeqEmpty
  <2>. QED  BY <1>3, <2>1
<1>5. k - 1 \in 0..Len(s) /\ SubSeq(s, 1, k - 1) \in G
  BY <1>2, <1>3, <1>4
<1>6. SubSeq(s, 1, k - 1) \in Seq(S) /\ s[k] \in S
  BY <1>3, <1>4
<1>7. SubSeq(s, 1, k) = Append(SubSeq(s, 1, k - 1), s[k])
  BY <1>3, <1>4
<1>. QED  BY <1>3, <1>5, <1>6, <1>7

-----------------------------------------------------------------------------
\* Splitting a text that grows.

Spans(n) == {span \in (1..n) \X (1..n) : span[1] <= span[2]}

\* The gaps lie in a text of that length, in whatever order they are listed.
Fits(n, gaps) ==
  /\ IsFiniteSet(gaps) /\ gaps \subseteq Spans(n)
  /\ InOrderOfText(gaps) \in Seq(Spans(n))

\* A gap after all the others is the last one.
LEMMA OrderMore ==
  ASSUME NEW n \in Nat, NEW gaps, Fits(n, gaps), NEW g \in Nat \X Nat, g[1] = n + 1
  PROVE  InOrderOfText(gaps \cup {g}) = Append(InOrderOfText(gaps), g)
<1>. DEFINE size == Cardinality(gaps)
            more == gaps \cup {g}
            before(S, gap) == {h \in S : h[1] < gap[1]}
<1>1. /\ IsFiniteSet(gaps) /\ size \in Nat
      /\ \A h \in gaps : h[1] \in 1..n
  BY FS_CardinalityType DEF Fits, Spans
<1>2. g \notin gaps /\ \A h \in gaps : h[1] < g[1]
  BY <1>1
<1>3. Cardinality(more) = size + 1
  BY <1>1, <1>2, FS_AddElement
<1>4. \A gap \in gaps : before(more, gap) = before(gaps, gap)
  BY <1>1, <1>2
<1>5. before(more, g) = gaps
  BY <1>2
<1>6. ASSUME NEW gap \in gaps PROVE Cardinality(before(gaps, gap)) < size
  <2>. DEFINE lower == before(gaps, gap)
  <2>1. lower \in SUBSET gaps /\ lower # gaps
    <3>1. gap \notin lower
      BY <1>1
    <3>. QED  BY <3>1
  <2>. HIDE DEF lower
  <2>2. IsFiniteSet(lower) /\ Cardinality(lower) <= size /\ Cardinality(lower) # size
    BY <1>1, <2>1, FS_Subset
  <2>3. Cardinality(lower) \in Nat
    BY <2>2, FS_CardinalityType
  <2>. QED  BY <1>1, <2>2, <2>3 DEF lower
<1>. HIDE DEF size
<1>. DEFINE nth(S, k) == CHOOSE gap \in S : Cardinality(before(S, gap)) = k - 1
<1>7. ASSUME NEW k \in 1..size PROVE nth(more, k) = nth(gaps, k)
  <2>1. \A gap : (gap \in more /\ Cardinality(before(more, gap)) = k - 1)
                 <=> (gap \in gaps /\ Cardinality(before(gaps, gap)) = k - 1)
    <3>1. size # k - 1
      BY <1>1
    <3>2. Cardinality(before(more, g)) = size
      BY <1>5 DEF size
    <3>. QED  BY <1>4, <3>1, <3>2
  <2>. HIDE DEF before, more
  <2>. QED  BY <2>1
<1>8. nth(more, size + 1) = g
  <2>1. Cardinality(before(more, g)) = (size + 1) - 1
    <3>1. (size + 1) - 1 = size
      BY <1>1
    <3>. QED  BY <1>5, <3>1 DEF size
  <2>2. \A gap \in more : Cardinality(before(more, gap)) = (size + 1) - 1 => gap = g
    BY <1>1, <1>4, <1>6 DEF size
  <2>3. g \in more
    OBVIOUS
  <2>. HIDE DEF before, more
  <2>. QED  BY <2>1, <2>2, <2>3
<1>9. /\ InOrderOfText(gaps) = [k \in 1..size |-> nth(gaps, k)]
      /\ InOrderOfText(more) = [k \in 1..(size + 1) |-> nth(more, k)]
  BY <1>3 DEF InOrderOfText, size
<1>. HIDE DEF nth, more, before
<1>10. InOrderOfText(gaps) \in Seq(Spans(n)) /\ Len(InOrderOfText(gaps)) = size
  BY <1>1, <1>9 DEF Fits
<1>11. \A k \in 1..size : InOrderOfText(more)[k] = InOrderOfText(gaps)[k]
  BY <1>1, <1>7, <1>9
<1>12. InOrderOfText(more)[size + 1] = g
  BY <1>1, <1>8, <1>9
<1>13. InOrderOfText(more) = Append(InOrderOfText(gaps), g)
  <2>. DEFINE o == InOrderOfText(gaps)
              p == InOrderOfText(more)
  <2>1. o \in Seq(Spans(n)) /\ Len(o) = size /\ \A k \in 1..size : p[k] = o[k]
    BY <1>10, <1>11
  <2>2. p = [k \in 1..(size + 1) |-> p[k]] /\ p[size + 1] = g
    BY <1>9, <1>12
  <2>. HIDE DEF o, p
  <2>3. Len(Append(o, g)) = size + 1 /\ Append(o, g) \in Seq(Spans(n) \cup {g})
    BY <2>1
  <2>4. ASSUME NEW k \in 1..(size + 1) PROVE Append(o, g)[k] = p[k]
    <3>1. CASE k = size + 1
      BY <2>1, <2>2, <3>1
    <3>2. CASE k # size + 1
      <4>1. k \in 1..size
        BY <1>1, <3>2
      <4>. QED  BY <2>1, <4>1
    <3>. QED  BY <3>1, <3>2
  <2>5. p \in Seq(Spans(n) \cup {g}) /\ Len(p) = size + 1
    <3>1. \A k \in 1..(size + 1) : p[k] \in Spans(n) \cup {g}
      <4>1. \A k \in 1..(size + 1) : Append(o, g)[k] \in Spans(n) \cup {g}
        BY <2>3
      <4>. QED  BY <2>4, <4>1
    <3>. DEFINE T == Spans(n) \cup {g}
    <3>2. \A k \in 1..(size + 1) : p[k] \in T
      BY <3>1
    <3>. HIDE DEF T
    <3>3. [k \in 1..(size + 1) |-> p[k]] \in Seq(T) /\ Len([k \in 1..(size + 1) |-> p[k]]) = size + 1
      BY <1>1, <3>2
    <3>. QED  BY <2>2, <3>3 DEF T
  <2>. QED  BY <2>3, <2>4, <2>5, SeqEqual DEF o, p
<1>. QED  BY <1>13 DEF more

\* The pieces of a text, their places given by the gaps in order.
StartOf(gaps, i) == IF i = 1 THEN 1 ELSE InOrderOfText(gaps)[i - 1][2] + 1

LEMMA GapPlaces ==
  ASSUME NEW n \in Nat, NEW gaps, Fits(n, gaps)
  PROVE  /\ Len(InOrderOfText(gaps)) \in Nat
         /\ \A i \in 1..Len(InOrderOfText(gaps)) :
              /\ InOrderOfText(gaps)[i] \in Spans(n)
              /\ InOrderOfText(gaps)[i][1] - 1 \in 0..(n - 1)
              /\ InOrderOfText(gaps)[i][2] \in 1..n
         /\ \A i \in 1..(Len(InOrderOfText(gaps)) + 1) : StartOf(gaps, i) \in 1..(n + 1)
<1>. DEFINE o == InOrderOfText(gaps)
<1>1. o \in Seq(Spans(n)) /\ Len(o) \in Nat
  BY DEF Fits
<1>2. \A span \in Spans(n) : span[1] \in 1..n /\ span[2] \in 1..n
  BY DEF Spans
<1>. HIDE DEF o
<1>3. ASSUME NEW i \in 1..Len(o)
      PROVE  o[i] \in Spans(n) /\ o[i][1] - 1 \in 0..(n - 1) /\ o[i][2] \in 1..n
  <2>1. o[i] \in Spans(n)
    BY <1>1
  <2>2. o[i][1] \in 1..n /\ o[i][2] \in 1..n
    BY <1>2, <2>1
  <2>. QED  BY <2>1, <2>2
<1>4. ASSUME NEW i \in 1..(Len(o) + 1) PROVE StartOf(gaps, i) \in 1..(n + 1)
  <2>1. CASE i = 1
    BY <2>1 DEF StartOf
  <2>2. CASE i # 1
    <3>1. i - 1 \in 1..Len(o)
      BY <1>1, <2>2
    <3>2. o[i - 1][2] \in 1..n
      BY <1>3, <3>1
    <3>. QED  BY <2>2, <3>2 DEF StartOf, o
  <2>. QED  BY <2>1, <2>2
<1>. QED  BY <1>1, <1>3, <1>4 DEF o

LEMMA SplitPieces ==
  ASSUME NEW S, NEW whole \in Seq(S), NEW gaps, Fits(Len(whole), gaps)
  PROVE  LET o == InOrderOfText(gaps)
             pieces == Split(whole, gaps)
         IN  /\ pieces \in Seq(Seq(S)) /\ Len(pieces) = Len(o) + 1
             /\ \A i \in 1..Len(o) : pieces[i] = SubSeq(whole, StartOf(gaps, i), o[i][1] - 1)
             /\ pieces[Len(o) + 1] = SubSeq(whole, StartOf(gaps, Len(o) + 1), Len(whole))
<1>. DEFINE o == InOrderOfText(gaps)
            n == Len(o)
            end(i) == IF i > n THEN Len(whole) ELSE o[i][1] - 1
            pieces == Split(whole, gaps)
<1>0. /\ Len(whole) \in Nat /\ Len(InOrderOfText(gaps)) \in Nat
      /\ \A i \in 1..Len(InOrderOfText(gaps)) : InOrderOfText(gaps)[i][1] - 1 \in 0..(Len(whole) - 1)
      /\ \A i \in 1..(Len(InOrderOfText(gaps)) + 1) : StartOf(gaps, i) \in 1..(Len(whole) + 1)
  <2>1. Len(whole) \in Nat
    OBVIOUS
  <2>. QED  BY <2>1, GapPlaces
<1>1. n \in Nat /\ Len(whole) \in Nat
  BY <1>0
<1>2. pieces = [i \in 1..n + 1 |-> SubSeq(whole, StartOf(gaps, i), end(i))]
  BY DEF Split, StartOf
<1>3. ASSUME NEW i \in 1..(n + 1)
      PROVE  SubSeq(whole, StartOf(gaps, i), end(i)) \in Seq(S)
  <2>1. StartOf(gaps, i) \in 1..(Len(whole) + 1)
    BY <1>0
  <2>2. end(i) \in 0..Len(whole)
    <3>1. CASE i > n
      BY <3>1
    <3>2. CASE ~(i > n)
      <4>1. i \in 1..n
        BY <1>1, <3>2
      <4>2. o[i][1] - 1 \in 0..(Len(whole) - 1)
        BY <1>0, <4>1
      <4>. QED  BY <1>1, <3>2, <4>2
    <3>. QED  BY <3>1, <3>2
  <2>. HIDE DEF end
  <2>3. \A j \in StartOf(gaps, i)..end(i) : whole[j] \in S
    BY <2>1, <2>2
  <2>4. StartOf(gaps, i) \in Int /\ end(i) \in Int
    BY <2>1, <2>2
  <2>. QED  BY <2>3, <2>4, SubSeqProperties
<1>4. \A i \in 1..n : end(i) = o[i][1] - 1
  BY <1>1
<1>5. end(n + 1) = Len(whole)
  BY <1>1
<1>. HIDE DEF o, n, end, pieces
<1>6. pieces \in Seq(Seq(S)) /\ Len(pieces) = n + 1
  BY <1>1, <1>2, <1>3
<1>7. ASSUME NEW i \in 1..n
      PROVE  pieces[i] = SubSeq(whole, StartOf(gaps, i), o[i][1] - 1)
  <2>1. i \in 1..n + 1
    BY <1>1
  <2>2. pieces[i] = SubSeq(whole, StartOf(gaps, i), end(i))
    BY <1>2, <2>1
  <2>. QED  BY <1>4, <2>2
<1>8. pieces[n + 1] = SubSeq(whole, StartOf(gaps, n + 1), Len(whole))
  <2>1. n + 1 \in 1..n + 1
    BY <1>1
  <2>2. pieces[n + 1] = SubSeq(whole, StartOf(gaps, n + 1), end(n + 1))
    BY <1>2, <2>1
  <2>. QED  BY <1>5, <2>2
<1>. QED  BY <1>6, <1>7, <1>8 DEF o, n, pieces

\* A longer text that begins with this one.
Extends(longer, whole) ==
  Len(whole) <= Len(longer) /\ \A i \in 1..Len(whole) : longer[i] = whole[i]

LEMMA SameBeginning ==
  ASSUME NEW S, NEW whole \in Seq(S), NEW longer \in Seq(S), Extends(longer, whole),
         NEW a \in Nat, a # 0, NEW b \in Nat, b <= Len(whole)
  PROVE  SubSeq(longer, a, b) = SubSeq(whole, a, b)
<1>1. \A i \in a..b : longer[i] = whole[i] /\ whole[i] \in S
  BY DEF Extends
<1>2. /\ SubSeq(longer, a, b) \in Seq(S) /\ SubSeq(whole, a, b) \in Seq(S)
      /\ Len(SubSeq(longer, a, b)) = Len(SubSeq(whole, a, b))
  BY <1>1, SubSeqProperties
<1>3. ASSUME NEW i \in 1..Len(SubSeq(whole, a, b))
      PROVE  SubSeq(longer, a, b)[i] = SubSeq(whole, a, b)[i]
  <2>1. i \in 1..(b - a + 1) /\ a + i - 1 \in a..b
    BY SubSeqProperties, <1>1
  <2>. QED  BY <1>1, <2>1, SubSeqProperties
<1>. QED  BY <1>2, <1>3, SeqEqual

LEMMA OneMore ==
  ASSUME NEW S, NEW whole \in Seq(S), NEW x \in S
  PROVE  /\ Append(whole, x) \in Seq(S) /\ Len(Append(whole, x)) = Len(whole) + 1
         /\ Extends(Append(whole, x), whole)
         /\ Front(Append(whole, x)) = whole /\ Last(Append(whole, x)) = x
         /\ Append(whole, x) # <<>>
<1>1. /\ Append(whole, x) \in Seq(S) /\ Len(Append(whole, x)) = Len(whole) + 1
      /\ \A i \in 1..Len(whole) : Append(whole, x)[i] = whole[i]
      /\ Append(whole, x)[Len(whole) + 1] = x
      /\ Append(whole, x) # <<>>
  BY AppendProperties
<1>2. Extends(Append(whole, x), whole)
  BY <1>1 DEF Extends
<1>3. SubSeq(Append(whole, x), 1, Len(whole)) = SubSeq(whole, 1, Len(whole))
  BY <1>1, <1>2, SameBeginning
<1>4. SubSeq(whole, 1, Len(whole)) = whole
  BY SubSeqFull
<1>5. (Len(whole) + 1) - 1 = Len(whole)
  OBVIOUS
<1>. QED  BY <1>1, <1>2, <1>3, <1>4, <1>5 DEF Front, Last

\* A symbol that ends no line lengthens the last piece.
LEMMA SplitExtend ==
  ASSUME NEW S, NEW whole \in Seq(S), NEW gaps, Fits(Len(whole), gaps), NEW x \in S
  PROVE  Split(Append(whole, x), gaps) =
           Append(Front(Split(whole, gaps)), Append(Last(Split(whole, gaps)), x))
<1>. DEFINE o == InOrderOfText(gaps)
            n == Len(o)
            more == Append(whole, x)
            old == Split(whole, gaps)
            new == Split(more, gaps)
<1>1. more \in Seq(S) /\ Len(more) = Len(whole) + 1 /\ Extends(more, whole)
  BY OneMore
<1>2. Fits(Len(more), gaps)
  <2>1. Spans(Len(whole)) \subseteq Spans(Len(whole) + 1)
    BY DEF Spans
  <2>. QED  BY <1>1, <2>1 DEF Fits
<1>3. /\ old \in Seq(Seq(S)) /\ Len(old) = n + 1 /\ n \in Nat
      /\ \A i \in 1..n : old[i] = SubSeq(whole, StartOf(gaps, i), o[i][1] - 1)
      /\ old[n + 1] = SubSeq(whole, StartOf(gaps, n + 1), Len(whole))
  BY SplitPieces, GapPlaces
<1>4. /\ new \in Seq(Seq(S)) /\ Len(new) = n + 1
      /\ \A i \in 1..n : new[i] = SubSeq(more, StartOf(gaps, i), o[i][1] - 1)
      /\ new[n + 1] = SubSeq(more, StartOf(gaps, n + 1), Len(more))
  <2>. HIDE DEF more
  <2>. QED  BY <1>1, <1>2, SplitPieces
<1>5. ASSUME NEW i \in 1..n PROVE new[i] = old[i]
  <2>1. StartOf(gaps, i) \in Nat \ {0} /\ o[i][1] - 1 \in Nat /\ o[i][1] - 1 <= Len(whole)
    <3>1. i \in 1..(n + 1)
      BY <1>3
    <3>2. StartOf(gaps, i) \in 1..(Len(whole) + 1) /\ o[i][1] - 1 \in 0..(Len(whole) - 1)
      BY <3>1, GapPlaces
    <3>. QED  BY <3>2
  <2>2. SubSeq(more, StartOf(gaps, i), o[i][1] - 1) = SubSeq(whole, StartOf(gaps, i), o[i][1] - 1)
    <3>. DEFINE a == StartOf(gaps, i)
                b == o[i][1] - 1
    <3>1. a \in Nat /\ a # 0 /\ b \in Nat /\ b <= Len(whole)
      BY <2>1
    <3>. HIDE DEF more, a, b
    <3>2. SubSeq(more, a, b) = SubSeq(whole, a, b)
      BY <1>1, <3>1, SameBeginning
    <3>. QED  BY <3>2 DEF a, b
  <2>. QED  BY <1>3, <1>4, <2>2
<1>6. new[n + 1] = Append(old[n + 1], x)
  <2>. DEFINE a == StartOf(gaps, n + 1)
              m == Len(whole)
  <2>1. a \in 1..(m + 1) /\ m \in Nat
    <3>1. n + 1 \in 1..(n + 1)
      BY <1>3
    <3>. QED  BY <3>1, GapPlaces
  <2>2. SubSeq(more, a, m + 1) = Append(SubSeq(more, a, m), more[m + 1])
    <3>1. more[m + 1] = x
      BY AppendProperties
    <3>. HIDE DEF a, more, m
    <3>2. SubSeq(more, a, m) \in Seq(S) /\ SubSeq(more, a, m + 1) \in Seq(S)
      <4>1. \A i \in a..(m + 1) : more[i] \in S
        BY <1>1, <2>1 DEF m
      <4>. QED  BY <2>1, <4>1, SubSeqProperties
    <3>. QED  BY <1>1, <2>1, <3>1, <3>2, SubSeqProperties, AppendProperties, SeqEqual DEF m
  <2>3. SubSeq(more, a, m) = SubSeq(whole, a, m)
    <3>1. a \in Nat /\ a # 0 /\ m \in Nat /\ m <= Len(whole)
      BY <2>1
    <3>. HIDE DEF a, more, m
    <3>. QED  BY <1>1, <3>1, SameBeginning
  <2>4. more[m + 1] = x
    BY AppendProperties
  <2>. QED  BY <1>1, <1>3, <1>4, <2>2, <2>3, <2>4
<1>. HIDE DEF o, n, more, old, new
<1>7. Front(old) \in Seq(Seq(S)) /\ Len(Front(old)) = n /\ \A i \in 1..n : Front(old)[i] = old[i]
  BY <1>3, SubSeqProperties DEF Front
<1>8. Append(old[n + 1], x) \in Seq(S)
  <2>1. n + 1 \in 1..Len(old) /\ old \in Seq(Seq(S))
    BY <1>3
  <2>2. old[n + 1] \in Seq(S)
    BY <2>1
  <2>. QED  BY <2>2, AppendProperties
<1>9. new = Append(Front(old), Append(old[n + 1], x))
  <2>. DEFINE q == Append(Front(old), Append(old[n + 1], x))
  <2>1. /\ q \in Seq(Seq(S)) /\ Len(q) = n + 1
        /\ \A i \in 1..n : q[i] = old[i]
        /\ q[n + 1] = Append(old[n + 1], x)
    BY <1>7, <1>8, AppendProperties
  <2>. HIDE DEF q
  <2>2. ASSUME NEW i \in 1..(n + 1) PROVE new[i] = q[i]
    <3>1. CASE i = n + 1
      BY <1>6, <2>1, <3>1
    <3>2. CASE i # n + 1
      <4>1. n \in Nat
        BY <1>3
      <4>2. i \in 1..n
        BY <3>2, <4>1
      <4>. QED  BY <1>5, <2>1, <4>2
    <3>. QED  BY <3>1, <3>2
  <2>3. new = q
    BY <1>4, <2>1, <2>2, SeqEqual
  <2>. QED  BY <2>3 DEF q
<1>. QED  BY <1>3, <1>9 DEF Last, old, new, more

\* A line end adds an empty piece, whether it takes one symbol or two.
LEMMA SplitMore ==
  ASSUME NEW S, NEW whole \in Seq(S), NEW gaps, Fits(Len(whole), gaps),
         NEW more \in Seq(S), Extends(more, whole), NEW last \in Nat, last = Len(more),
         Len(whole) + 1 <= last
  PROVE  /\ Split(more, gaps \cup {<<Len(whole) + 1, last>>}) = Append(Split(whole, gaps), <<>>)
         /\ Fits(last, gaps \cup {<<Len(whole) + 1, last>>})
<1>. DEFINE m == Len(whole) + 1
            g == <<m, last>>
            wider == gaps \cup {g}
            o == InOrderOfText(gaps)
            p == InOrderOfText(wider)
            n == Len(o)
            old == Split(whole, gaps)
            new == Split(more, wider)
<1>1. p = Append(o, g)
  <2>1. Len(whole) \in Nat /\ g \in Nat \X Nat /\ g[1] = Len(whole) + 1
    OBVIOUS
  <2>2. \A h \in Nat \X Nat : h[1] = Len(whole) + 1 =>
          InOrderOfText(gaps \cup {h}) = Append(InOrderOfText(gaps), h)
    BY <2>1, OrderMore
  <2>. HIDE DEF g
  <2>. QED  BY <2>1, <2>2
<1>2. /\ n \in Nat /\ o \in Seq(Spans(last)) /\ g \in Spans(last)
      /\ \A i \in 1..n : o[i][1] - 1 \in 0..(Len(whole) - 1)
      /\ \A i \in 1..(n + 1) : StartOf(gaps, i) \in 1..m
  <2>1. Spans(Len(whole)) \subseteq Spans(last)
    BY DEF Spans
  <2>2. o \in Seq(Spans(Len(whole)))
    BY DEF Fits
  <2>3. g \in Spans(last)
    BY DEF Spans
  <2>. QED  BY <2>1, <2>2, <2>3, GapPlaces
<1>3. Fits(last, wider)
  <2>1. IsFiniteSet(wider)
    BY FS_AddElement DEF Fits
  <2>2. wider \subseteq Spans(last)
    <3>1. Spans(Len(whole)) \subseteq Spans(last)
      BY DEF Spans
    <3>. QED  BY <1>2, <3>1 DEF Fits
  <2>3. p \in Seq(Spans(last))
    <3>. HIDE DEF g, o, p
    <3>. QED  BY <1>1, <1>2, AppendProperties
  <2>. QED  BY <2>1, <2>2, <2>3 DEF Fits
<1>4. /\ Len(p) = n + 1 /\ p[n + 1] = g
      /\ \A i \in 1..n : p[i] = o[i]
  <2>. HIDE DEF g, o, p
  <2>. QED  BY <1>1, <1>2, AppendProperties DEF n
<1>5. /\ \A i \in 1..(n + 1) : StartOf(wider, i) = StartOf(gaps, i)
      /\ StartOf(wider, n + 2) = last + 1
  <2>1. ASSUME NEW i \in 1..(n + 1) PROVE StartOf(wider, i) = StartOf(gaps, i)
    <3>1. i = 1 \/ i - 1 \in 1..n
      BY <1>2
    <3>. HIDE DEF wider, n, o, p
    <3>. QED  BY <1>4, <3>1 DEF StartOf, o, p
  <2>2. n + 2 # 1 /\ (n + 2) - 1 = n + 1 /\ g[2] = last
    BY <1>2
  <2>. HIDE DEF wider, n, o, g
  <2>. QED  BY <1>4, <2>1, <2>2 DEF StartOf
<1>6. /\ old \in Seq(Seq(S)) /\ Len(old) = n + 1
      /\ \A i \in 1..n : old[i] = SubSeq(whole, StartOf(gaps, i), o[i][1] - 1)
      /\ old[n + 1] = SubSeq(whole, StartOf(gaps, n + 1), Len(whole))
  BY SplitPieces
<1>7. /\ new \in Seq(Seq(S)) /\ Len(new) = (n + 1) + 1
      /\ \A i \in 1..(n + 1) : new[i] = SubSeq(more, StartOf(wider, i), p[i][1] - 1)
      /\ new[(n + 1) + 1] = SubSeq(more, StartOf(wider, (n + 1) + 1), last)
  <2>1. Fits(Len(more), wider)
    BY <1>3
  <2>. HIDE DEF wider
  <2>2. /\ new \in Seq(Seq(S)) /\ Len(new) = Len(p) + 1
        /\ \A i \in 1..Len(p) : new[i] = SubSeq(more, StartOf(wider, i), p[i][1] - 1)
        /\ new[Len(p) + 1] = SubSeq(more, StartOf(wider, Len(p) + 1), Len(more))
    BY <2>1, SplitPieces
  <2>. HIDE DEF new, p, n
  <2>. QED  BY <1>4, <2>2
<1>8. ASSUME NEW i \in 1..n PROVE new[i] = old[i]
  <2>. DEFINE a == StartOf(gaps, i)
              b == o[i][1] - 1
  <2>1. i \in 1..(n + 1)
    BY <1>2
  <2>2. a \in Nat /\ a # 0 /\ b \in Nat /\ b <= Len(whole)
    BY <1>2, <2>1
  <2>3. new[i] = SubSeq(more, a, b)
    BY <1>4, <1>5, <1>7, <2>1
  <2>4. old[i] = SubSeq(whole, a, b)
    BY <1>6
  <2>. HIDE DEF a, b, new, old
  <2>5. SubSeq(more, a, b) = SubSeq(whole, a, b)
    BY <2>2, SameBeginning
  <2>. QED  BY <2>3, <2>4, <2>5
<1>9. new[n + 1] = old[n + 1]
  <2>. DEFINE a == StartOf(gaps, n + 1)
  <2>1. n + 1 \in 1..(n + 1)
    BY <1>2
  <2>2. a \in Nat /\ a # 0 /\ Len(whole) \in Nat /\ Len(whole) <= Len(whole)
    BY <1>2, <2>1
  <2>3. p[n + 1][1] - 1 = Len(whole)
    <3>1. g[1] - 1 = Len(whole)
      OBVIOUS
    <3>. HIDE DEF g, p, n
    <3>. QED  BY <1>4, <3>1
  <2>4. new[n + 1] = SubSeq(more, a, Len(whole))
    BY <1>5, <1>7, <2>1, <2>3
  <2>5. old[n + 1] = SubSeq(whole, a, Len(whole))
    BY <1>6
  <2>. HIDE DEF a, new, old
  <2>6. SubSeq(more, a, Len(whole)) = SubSeq(whole, a, Len(whole))
    BY <2>2, SameBeginning
  <2>. QED  BY <2>4, <2>5, <2>6
<1>10. new[(n + 1) + 1] = <<>>
  <2>1. (n + 1) + 1 = n + 2
    BY <1>2
  <2>2. SubSeq(more, last + 1, last) = <<>>
    BY SubSeqEmpty
  <2>. QED  BY <1>5, <1>7, <2>1, <2>2
<1>11. new = Append(old, <<>>)
  <2>. DEFINE q == Append(old, <<>>)
  <2>1. <<>> \in Seq(S)
    OBVIOUS
  <2>. HIDE DEF new, old, n
  <2>2. /\ q \in Seq(Seq(S)) /\ Len(q) = (n + 1) + 1
        /\ \A i \in 1..(n + 1) : q[i] = old[i]
        /\ q[(n + 1) + 1] = <<>>
    BY <1>6, <2>1, AppendProperties
  <2>. HIDE DEF q
  <2>3. ASSUME NEW i \in 1..((n + 1) + 1) PROVE new[i] = q[i]
    <3>1. n \in Nat
      BY <1>2
    <3>2. CASE i = (n + 1) + 1
      BY <1>10, <2>2, <3>2
    <3>3. CASE i = n + 1
      <4>1. n + 1 \in 1..(n + 1)
        BY <3>1
      <4>. QED  BY <1>9, <2>2, <3>3, <4>1
    <3>4. CASE i # n + 1 /\ i # (n + 1) + 1
      <4>1. i \in 1..n /\ i \in 1..(n + 1)
        BY <3>1, <3>4
      <4>. QED  BY <1>8, <2>2, <4>1
    <3>. QED  BY <3>2, <3>3, <3>4
  <2>4. new = q
    BY <1>7, <2>2, <2>3, SeqEqual
  <2>. QED  BY <2>4 DEF q
<1>. QED  BY <1>3, <1>11

-----------------------------------------------------------------------------
\* The lines of a text that grows.

AtIs(t, i, symbol) == i \in 1..Len(t) /\ t[i] = symbol

EndsIn(t, symbol) == t # <<>> /\ Last(t) = symbol

PairsIn(t) == {j \in 1..Len(t) : AtIs(t, j, CR) /\ AtIs(t, j + 1, NL)}

AloneIn(t) == {j \in 1..Len(t) : \/ AtIs(t, j, CR) /\ ~AtIs(t, j + 1, NL)
                                 \/ AtIs(t, j, NL) /\ ~AtIs(t, j - 1, CR)}

LEMMA LineEndsAre ==
  ASSUME NEW t
  PROVE  LineEnds(t) = {<<i, i + 1>> : i \in PairsIn(t)} \cup {<<i, i>> : i \in AloneIn(t)}
BY DEF LineEnds, PairsIn, AloneIn, AtIs

LEMMA SymbolsOfMore ==
  ASSUME NEW t \in BodyTexts, NEW c \in BodySymbols
  PROVE  /\ Append(t, c) \in BodyTexts /\ Len(Append(t, c)) = Len(t) + 1 /\ Len(t) \in Nat
         /\ \A symbol : \A i \in Int :
              AtIs(Append(t, c), i, symbol) <=> AtIs(t, i, symbol) \/ (i = Len(t) + 1 /\ c = symbol)
         /\ \A symbol : \A i \in Int : AtIs(t, i, symbol) => i \in 1..Len(t)
         /\ \A symbol : EndsIn(t, symbol) <=> AtIs(t, Len(t), symbol)
<1>. DEFINE more == Append(t, c)
<1>1. /\ more \in BodyTexts /\ Len(more) = Len(t) + 1 /\ Len(t) \in Nat
      /\ \A i \in 1..Len(t) : more[i] = t[i]
      /\ more[Len(t) + 1] = c
  BY AppendProperties DEF BodyTexts
<1>. HIDE DEF more
<1>2. ASSUME NEW symbol, NEW i \in Int
      PROVE  AtIs(more, i, symbol) <=> AtIs(t, i, symbol) \/ (i = Len(t) + 1 /\ c = symbol)
  <2>1. CASE i = Len(t) + 1
    BY <1>1, <2>1 DEF AtIs
  <2>2. CASE i # Len(t) + 1
    <3>1. i \in 1..Len(more) <=> i \in 1..Len(t)
      BY <1>1, <2>2
    <3>. QED  BY <1>1, <2>2, <3>1 DEF AtIs
  <2>. QED  BY <2>1, <2>2
<1>3. ASSUME NEW symbol PROVE EndsIn(t, symbol) <=> AtIs(t, Len(t), symbol)
  <2>1. t = <<>> <=> Len(t) = 0
    BY EmptySeq DEF BodyTexts
  <2>. QED  BY <1>1, <2>1 DEF EndsIn, AtIs, Last
<1>. QED  BY <1>1, <1>2, <1>3 DEF AtIs, more

LEMMA LineEndsPlain ==
  ASSUME NEW t \in BodyTexts, NEW c \in BodySymbols, c \notin {NL, CR}
  PROVE  LineEnds(Append(t, c)) = LineEnds(t)
<1>. DEFINE more == Append(t, c)
<1>1. PairsIn(more) = PairsIn(t)
  BY SymbolsOfMore DEF PairsIn
<1>2. AloneIn(more) = AloneIn(t)
  BY SymbolsOfMore DEF AloneIn
<1>. QED  BY <1>1, <1>2, LineEndsAre

LEMMA LineEndsAlone ==
  ASSUME NEW t \in BodyTexts, NEW c \in {NL, CR}, c = NL => ~EndsIn(t, CR)
  PROVE  LineEnds(Append(t, c)) = LineEnds(t) \cup {<<Len(t) + 1, Len(t) + 1>>}
<1>. DEFINE more == Append(t, c)
            m == Len(t) + 1
<1>0. c \in BodySymbols /\ NL # CR
  BY DEF BodySymbols, NL, CR
<1>1. PairsIn(more) = PairsIn(t)
  BY <1>0, SymbolsOfMore DEF PairsIn
<1>2. AloneIn(more) = AloneIn(t) \cup {m}
  BY <1>0, SymbolsOfMore DEF AloneIn
<1>3. LineEnds(more) = {<<i, i + 1>> : i \in PairsIn(t)} \cup {<<i, i>> : i \in AloneIn(t) \cup {m}}
  BY <1>1, <1>2, LineEndsAre
<1>4. LineEnds(t) = {<<i, i + 1>> : i \in PairsIn(t)} \cup {<<i, i>> : i \in AloneIn(t)}
  BY LineEndsAre
<1>. QED  BY <1>3, <1>4

LEMMA LineEndsPair ==
  ASSUME NEW t \in BodyTexts
  PROVE  LineEnds(Append(Append(t, CR), NL)) = LineEnds(t) \cup {<<Len(t) + 1, Len(t) + 2>>}
<1>. DEFINE one == Append(t, CR)
            two == Append(one, NL)
            m == Len(t) + 1
<1>0. NL \in BodySymbols /\ CR \in BodySymbols /\ NL # CR
  BY DEF BodySymbols, NL, CR
<1>1. one \in BodyTexts /\ Len(one) = m /\ m \in Nat
  BY <1>0, SymbolsOfMore
<1>2. /\ Len(two) = m + 1
      /\ \A symbol : \A i \in Int :
           AtIs(two, i, symbol) <=> \/ AtIs(t, i, symbol)
                                    \/ i = m /\ symbol = CR
                                    \/ i = m + 1 /\ symbol = NL
      /\ \A symbol : \A i \in Int : AtIs(t, i, symbol) => i \in 1..(m - 1)
  <2>1. \A symbol : \A i \in Int :
          AtIs(one, i, symbol) <=> AtIs(t, i, symbol) \/ (i = m /\ CR = symbol)
    BY <1>0, SymbolsOfMore
  <2>2. /\ Len(two) = Len(one) + 1
        /\ \A symbol : \A i \in Int :
             AtIs(two, i, symbol) <=> AtIs(one, i, symbol) \/ (i = Len(one) + 1 /\ NL = symbol)
    <3>. HIDE DEF one
    <3>. QED  BY <1>0, <1>1, SymbolsOfMore
  <2>3. \A symbol : \A i \in Int : AtIs(t, i, symbol) => i \in 1..(m - 1)
    <3>1. m - 1 = Len(t)
      BY <1>1
    <3>. QED  BY <3>1 DEF AtIs
  <2>. HIDE DEF one, two
  <2>. QED  BY <1>1, <2>1, <2>2, <2>3
<1>. HIDE DEF two, m
<1>3. PairsIn(two) = PairsIn(t) \cup {m}
  BY <1>0, <1>1, <1>2 DEF PairsIn, m
<1>4. AloneIn(two) = AloneIn(t)
  BY <1>0, <1>1, <1>2 DEF AloneIn, m
<1>5. LineEnds(two) = {<<i, i + 1>> : i \in PairsIn(t) \cup {m}} \cup {<<i, i>> : i \in AloneIn(t)}
  BY <1>3, <1>4, LineEndsAre
<1>6. LineEnds(t) = {<<i, i + 1>> : i \in PairsIn(t)} \cup {<<i, i>> : i \in AloneIn(t)}
  BY LineEndsAre
<1>7. LineEnds(two) = LineEnds(t) \cup {<<m, m + 1>>}
  BY <1>5, <1>6
<1>8. m + 1 = Len(t) + 2
  BY <1>1 DEF m
<1>. QED  BY <1>7, <1>8 DEF two, m

LEMMA NewLinesMore ==
  ASSUME NEW t \in BodyTexts, NEW c \in BodySymbols
  PROVE  NewLines(Append(t, c)) = IF c = NL THEN NewLines(t) \cup {<<Len(t) + 1, Len(t) + 1>>}
                                  ELSE NewLines(t)
<1>. DEFINE more == Append(t, c)
            in(s) == {j \in 1..Len(s) : s[j] = NL}
<1>1. \A s : NewLines(s) = {<<i, i>> : i \in in(s)}
  BY DEF NewLines
<1>2. /\ Len(more) = Len(t) + 1 /\ Len(t) \in Nat
      /\ \A i \in 1..Len(t) : more[i] = t[i]
      /\ more[Len(t) + 1] = c
  BY AppendProperties DEF BodyTexts
<1>. HIDE DEF more
<1>3. in(more) = IF c = NL THEN in(t) \cup {Len(t) + 1} ELSE in(t)
  <2>1. \A i \in 1..(Len(t) + 1) : i \in 1..Len(t) \/ i = Len(t) + 1
    BY <1>2
  <2>. QED  BY <1>2, <2>1
<1>. HIDE DEF in
<1>4. NewLines(more) = {<<i, i>> : i \in in(more)} /\ NewLines(t) = {<<i, i>> : i \in in(t)}
  BY <1>1
<1>. QED  BY <1>3, <1>4 DEF more

LEMMA FrontAndLast ==
  ASSUME NEW S, NEW s \in Seq(S), s # <<>>
  PROVE  /\ Front(s) \in Seq(S) /\ Last(s) \in S
         /\ s = Append(Front(s), Last(s)) /\ Len(Front(s)) + 1 = Len(s)
<1>1. Len(s) \in Nat /\ Len(s) # 0
  BY EmptySeq
<1>2. Front(s) \in Seq(S) /\ Len(Front(s)) = Len(s) - 1
      /\ \A i \in 1..(Len(s) - 1) : Front(s)[i] = s[i]
  <2>. DEFINE n == Len(s) - 1
  <2>1. n \in Nat /\ \A i \in 1..n : s[i] \in S /\ 1 + i - 1 = i
    BY <1>1
  <2>2. n - 1 + 1 = n /\ 1 \in Nat
    BY <2>1
  <2>. HIDE DEF n
  <2>3. SubSeq(s, 1, n) \in Seq(S) /\ Len(SubSeq(s, 1, n)) = n
        /\ \A i \in 1..n : SubSeq(s, 1, n)[i] = s[i]
    BY <2>1, <2>2, SubSeqProperties
  <2>. QED  BY <2>3 DEF Front, n
<1>3. Last(s) \in S
  BY <1>1 DEF Last
<1>. DEFINE q == Append(Front(s), Last(s))
<1>4. /\ q \in Seq(S) /\ Len(q) = Len(s)
      /\ \A i \in 1..(Len(s) - 1) : q[i] = s[i]
      /\ q[Len(s)] = s[Len(s)]
  BY <1>1, <1>2, <1>3, AppendProperties DEF Last
<1>. HIDE DEF q
<1>5. \A i \in 1..Len(s) : q[i] = s[i]
  <2>1. \A i \in 1..Len(s) : i = Len(s) \/ i \in 1..(Len(s) - 1)
    BY <1>1
  <2>. QED  BY <1>4, <2>1
<1>6. s = q
  BY <1>4, <1>5, SeqEqual
<1>. QED  BY <1>1, <1>2, <1>3, <1>6 DEF q

LEMMA NoGaps ==
  /\ LineEnds(<<>>) = {} /\ NewLines(<<>>) = {} /\ Fits(0, {})
  /\ Split(<<>>, {}) = <<(<<>>)>>
<1>1. LineEnds(<<>>) = {} /\ NewLines(<<>>) = {}
  BY DEF LineEnds, NewLines
<1>2. InOrderOfText({}) = <<>>
  BY FS_EmptySet DEF InOrderOfText
<1>3. Fits(0, {})
  <2>1. IsFiniteSet({})
    BY FS_EmptySet
  <2>2. <<>> \in Seq(Spans(0))
    OBVIOUS
  <2>. QED  BY <1>2, <2>1, <2>2 DEF Fits
<1>4. Split(<<>>, {}) = <<(<<>>)>>
  <2>1. <<>> \in BodyTexts /\ Len(<<>>) = 0
    BY DEF BodyTexts
  <2>2. /\ Split(<<>>, {}) \in Seq(BodyTexts) /\ Len(Split(<<>>, {})) = 1
        /\ Split(<<>>, {})[1] = SubSeq(<<>>, StartOf({}, 1), 0)
    <3>. DEFINE e == <<>>
                none == {}
    <3>1. e \in Seq(BodySymbols) /\ Fits(Len(e), none) /\ Len(e) = 0
      BY <1>3
    <3>2. Len(InOrderOfText(none)) = 0
      BY <1>2
    <3>. HIDE DEF e, none
    <3>3. /\ Split(e, none) \in Seq(Seq(BodySymbols)) /\ Len(Split(e, none)) = 0 + 1
          /\ Split(e, none)[0 + 1] = SubSeq(e, StartOf(none, 0 + 1), Len(e))
      BY <3>1, <3>2, SplitPieces
    <3>. QED  BY <3>1, <3>3 DEF e, none, BodyTexts
  <2>3. SubSeq(<<>>, StartOf({}, 1), 0) = <<>>
    BY SubSeqEmpty DEF StartOf
  <2>4. Split(<<>>, {})[1] = <<>>
    BY <2>2, <2>3
  <2>. DEFINE q == Split(<<>>, {})
  <2>5. q \in Seq(BodyTexts) /\ Len(q) = 1 /\ q[1] = <<>>
    BY <2>2, <2>4
  <2>. HIDE DEF q
  <2>6. q = <<(<<>>)>>
    BY <2>5
  <2>. QED  BY <2>6 DEF q
<1>. QED  BY <1>1, <1>3, <1>4

LEMMA SplitAtEnd ==
  ASSUME NEW t \in BodyTexts, NEW gaps, Fits(Len(t), gaps), NEW c \in BodySymbols
  PROVE  LET wider == gaps \cup {<<Len(t) + 1, Len(t) + 1>>}
         IN  /\ Split(Append(t, c), wider) = Append(Split(t, gaps), <<>>)
             /\ Fits(Len(t) + 1, wider)
<1>. DEFINE more == Append(t, c)
            m == Len(t) + 1
<1>1. /\ t \in Seq(BodySymbols) /\ more \in Seq(BodySymbols) /\ Extends(more, t)
      /\ m \in Nat /\ m = Len(more) /\ Len(t) + 1 <= m
  BY OneMore DEF BodyTexts
<1>. HIDE DEF more, m
<1>2. Split(more, gaps \cup {<<Len(t) + 1, m>>}) = Append(Split(t, gaps), <<>>)
  BY <1>1, SplitMore
<1>3. Fits(m, gaps \cup {<<Len(t) + 1, m>>})
  BY <1>1, SplitMore
<1>. QED  BY <1>2, <1>3 DEF more, m

LEMMA LineEndsFit == \A t \in BodyTexts : Fits(Len(t), LineEnds(t))
<1>. DEFINE fits(t) == Fits(Len(t), LineEnds(t))
            G == {t \in BodyTexts : fits(t) /\ (t # <<>> => fits(Front(t)))}
<1>1. <<>> \in G
  <2>1. fits(<<>>)
    <3>1. Len(<<>>) = 0
      OBVIOUS
    <3>. QED  BY <3>1, NoGaps
  <2>. QED  BY <2>1 DEF BodyTexts
<1>2. ASSUME NEW t \in BodyTexts, t \in G, NEW c \in BodySymbols PROVE Append(t, c) \in G
  <2>. DEFINE more == Append(t, c)
  <2>1. /\ more \in BodyTexts /\ more # <<>> /\ Front(more) = t
        /\ Len(more) = Len(t) + 1 /\ Extends(more, t) /\ Len(t) \in Nat
    BY OneMore, AppendProperties DEF BodyTexts
  <2>2. fits(t) /\ (t # <<>> => fits(Front(t)))
    BY <1>2
  <2>3. CASE c \notin {NL, CR}
    <3>1. LineEnds(more) = LineEnds(t)
      BY <2>3, LineEndsPlain
    <3>2. Fits(Len(t) + 1, LineEnds(t))
      <4>1. Spans(Len(t)) \subseteq Spans(Len(t) + 1)
        BY <2>1 DEF Spans
      <4>. QED  BY <2>2, <4>1 DEF Fits
    <3>. QED  BY <2>1, <2>2, <3>1, <3>2
  <2>4. CASE c \in {NL, CR} /\ (c = NL => ~EndsIn(t, CR))
    <3>1. LineEnds(more) = LineEnds(t) \cup {<<Len(t) + 1, Len(t) + 1>>}
      BY <2>4, LineEndsAlone
    <3>2. Fits(Len(t) + 1, LineEnds(t) \cup {<<Len(t) + 1, Len(t) + 1>>})
      BY <2>2, SplitAtEnd
    <3>. QED  BY <2>1, <2>2, <3>1, <3>2
  <2>5. CASE c = NL /\ EndsIn(t, CR)
    <3>. DEFINE before == Front(t)
    <3>1. t # <<>> /\ before \in BodyTexts /\ t = Append(before, CR) /\ Len(before) + 1 = Len(t)
      BY <2>5, FrontAndLast DEF EndsIn, BodyTexts
    <3>2. LineEnds(more) = LineEnds(before) \cup {<<Len(before) + 1, Len(before) + 2>>}
      BY <2>5, <3>1, LineEndsPair
    <3>. DEFINE m == Len(before) + 2
    <3>3. m \in Nat /\ m = Len(more) /\ Len(before) + 1 <= m /\ Extends(more, before)
      <4>1. Len(before) \in Nat
        BY <3>1 DEF BodyTexts
      <4>2. Extends(t, before)
        <5>1. CR \in BodySymbols
          BY DEF BodySymbols
        <5>. HIDE DEF before
        <5>. QED  BY <3>1, <5>1, OneMore DEF BodyTexts
      <4>3. \A i \in 1..Len(before) : i \in 1..Len(t)
        BY <3>1, <4>1
      <4>. HIDE DEF more, before
      <4>. QED  BY <2>1, <3>1, <4>1, <4>2, <4>3 DEF Extends
    <3>4. fits(before)
      BY <2>2, <3>1
    <3>. HIDE DEF m, more, before
    <3>5. Fits(m, LineEnds(before) \cup {<<Len(before) + 1, m>>})
      BY <2>1, <3>1, <3>3, <3>4, SplitMore DEF BodyTexts
    <3>. QED  BY <2>1, <2>2, <3>2, <3>3, <3>5 DEF m, more, before
  <2>. QED  BY <2>3, <2>4, <2>5
<1>3. \A t \in BodyTexts : t \in G
  <2>. HIDE DEF G
  <2>. QED  BY <1>1, <1>2, SequenceInduction DEF BodyTexts
<1>. QED  BY <1>3

LEMMA NewLinesFit == \A t \in BodyTexts : Fits(Len(t), NewLines(t))
<1>. DEFINE fits(t) == Fits(Len(t), NewLines(t))
            G == {t \in BodyTexts : fits(t)}
<1>1. <<>> \in G
  <2>1. fits(<<>>)
    <3>1. Len(<<>>) = 0
      OBVIOUS
    <3>. QED  BY <3>1, NoGaps
  <2>. QED  BY <2>1 DEF BodyTexts
<1>2. ASSUME NEW t \in BodyTexts, t \in G, NEW c \in BodySymbols PROVE Append(t, c) \in G
  <2>. DEFINE more == Append(t, c)
  <2>1. more \in BodyTexts /\ Len(more) = Len(t) + 1 /\ Extends(more, t) /\ Len(t) \in Nat
    BY OneMore DEF BodyTexts
  <2>2. fits(t)
    BY <1>2
  <2>3. CASE c # NL
    <3>1. NewLines(more) = NewLines(t)
      BY <2>3, NewLinesMore
    <3>2. Fits(Len(t) + 1, NewLines(t))
      <4>1. Spans(Len(t)) \subseteq Spans(Len(t) + 1)
        BY <2>1 DEF Spans
      <4>. QED  BY <2>2, <4>1 DEF Fits
    <3>. QED  BY <2>1, <3>1, <3>2
  <2>4. CASE c = NL
    <3>1. NewLines(more) = NewLines(t) \cup {<<Len(t) + 1, Len(t) + 1>>}
      BY <2>4, NewLinesMore
    <3>2. Fits(Len(t) + 1, NewLines(t) \cup {<<Len(t) + 1, Len(t) + 1>>})
      BY <2>2, SplitAtEnd
    <3>. QED  BY <2>1, <3>1, <3>2
  <2>. QED  BY <2>3, <2>4
<1>3. \A t \in BodyTexts : t \in G
  <2>. HIDE DEF G
  <2>. QED  BY <1>1, <1>2, SequenceInduction DEF BodyTexts
<1>. QED  BY <1>3

-----------------------------------------------------------------------------
\* The lines of the reference and of dispatch, one symbol more at a time.

Rows(t) == Split(t, NewLines(t))

LEMMA LinesType ==
  ASSUME NEW t \in BodyTexts
  PROVE  /\ Lines(t) \in Seq(BodyTexts) /\ Lines(t) # <<>>
         /\ Front(Lines(t)) \in Seq(BodyTexts) /\ Last(Lines(t)) \in BodyTexts
         /\ Lines(t) = Append(Front(Lines(t)), Last(Lines(t)))
<1>1. Fits(Len(t), LineEnds(t)) /\ Len(t) \in Nat
  BY LineEndsFit DEF BodyTexts
<1>2. /\ Lines(t) \in Seq(BodyTexts)
      /\ Len(Lines(t)) = Len(InOrderOfText(LineEnds(t))) + 1
      /\ Len(InOrderOfText(LineEnds(t))) \in Nat
  BY <1>1, SplitPieces, GapPlaces DEF Lines, BodyTexts
<1>3. Lines(t) # <<>>
  BY <1>2
<1>. QED  BY <1>2, <1>3, FrontAndLast

LEMMA RowsType ==
  ASSUME NEW t \in BodyTexts
  PROVE  /\ Rows(t) \in Seq(BodyTexts) /\ Rows(t) # <<>>
         /\ Front(Rows(t)) \in Seq(BodyTexts) /\ Last(Rows(t)) \in BodyTexts
         /\ Rows(t) = Append(Front(Rows(t)), Last(Rows(t)))
<1>1. Fits(Len(t), NewLines(t)) /\ Len(t) \in Nat
  BY NewLinesFit DEF BodyTexts
<1>2. /\ Rows(t) \in Seq(BodyTexts)
      /\ Len(Rows(t)) = Len(InOrderOfText(NewLines(t))) + 1
      /\ Len(InOrderOfText(NewLines(t))) \in Nat
  BY <1>1, SplitPieces, GapPlaces DEF Rows, BodyTexts
<1>3. Rows(t) # <<>>
  BY <1>2
<1>. QED  BY <1>2, <1>3, FrontAndLast

LEMMA EmptyText ==
  /\ Lines(<<>>) = <<(<<>>)>> /\ Rows(<<>>) = <<(<<>>)>>
  /\ Front(<<(<<>>)>>) = <<>> /\ Last(<<(<<>>)>>) = <<>>
<1>1. Front(<<(<<>>)>>) = <<>>
  <2>1. Len(<<(<<>>)>>) - 1 = 0
    OBVIOUS
  <2>. QED  BY <2>1, SubSeqEmpty DEF Front
<1>. QED  BY <1>1, NoGaps DEF Lines, Rows, Last

LEMMA LinesPlain ==
  ASSUME NEW t \in BodyTexts, NEW c \in BodySymbols, c \notin {NL, CR}
  PROVE  Lines(Append(t, c)) = Append(Front(Lines(t)), Append(Last(Lines(t)), c))
<1>1. LineEnds(Append(t, c)) = LineEnds(t)
  BY LineEndsPlain
<1>2. Fits(Len(t), LineEnds(t))
  BY LineEndsFit
<1>. QED  BY <1>1, <1>2, SplitExtend DEF Lines, BodyTexts

LEMMA LinesAlone ==
  ASSUME NEW t \in BodyTexts, NEW c \in {NL, CR}, c = NL => ~EndsIn(t, CR)
  PROVE  Lines(Append(t, c)) = Append(Lines(t), <<>>)
<1>1. c \in BodySymbols
  BY DEF BodySymbols
<1>2. LineEnds(Append(t, c)) = LineEnds(t) \cup {<<Len(t) + 1, Len(t) + 1>>}
  BY LineEndsAlone
<1>3. Fits(Len(t), LineEnds(t))
  BY LineEndsFit
<1>. QED  BY <1>1, <1>2, <1>3, SplitAtEnd DEF Lines

LEMMA LinesPair ==
  ASSUME NEW t \in BodyTexts, EndsIn(t, CR)
  PROVE  Lines(Append(t, NL)) = Lines(t)
<1>. DEFINE before == Front(t)
            more == Append(t, NL)
            m == Len(before) + 2
<1>1. t # <<>> /\ before \in BodyTexts /\ t = Append(before, CR) /\ Len(before) + 1 = Len(t)
  BY FrontAndLast DEF EndsIn, BodyTexts
<1>. HIDE DEF before
<1>2. NL \in BodySymbols /\ CR \in BodySymbols /\ CR # NL
  BY DEF BodySymbols, NL, CR
<1>3. LineEnds(more) = LineEnds(before) \cup {<<Len(before) + 1, m>>}
  BY <1>1, LineEndsPair
<1>4. /\ more \in BodyTexts /\ Len(more) = Len(t) + 1 /\ Len(before) \in Nat /\ Len(t) \in Nat
      /\ Extends(more, t) /\ Extends(t, before)
  <2>1. more \in BodyTexts /\ Len(more) = Len(t) + 1 /\ Extends(more, t)
    BY <1>2, OneMore DEF BodyTexts
  <2>2. Extends(t, before)
    BY <1>1, <1>2, OneMore DEF BodyTexts
  <2>3. Len(before) \in Nat /\ Len(t) \in Nat
    BY <1>1 DEF BodyTexts
  <2>. QED  BY <2>1, <2>2, <2>3
<1>5. /\ m \in Nat /\ m = Len(more) /\ Len(before) + 1 <= m /\ Extends(more, before)
  <2>1. \A i \in 1..Len(before) : i \in 1..Len(t)
    BY <1>1, <1>4
  <2>. HIDE DEF more
  <2>. QED  BY <1>1, <1>4, <2>1 DEF Extends
<1>. HIDE DEF more, m
<1>6. Split(more, LineEnds(before) \cup {<<Len(before) + 1, m>>})
        = Append(Split(before, LineEnds(before)), <<>>)
  <2>1. Fits(Len(before), LineEnds(before)) /\ before \in Seq(BodySymbols) /\ more \in Seq(BodySymbols)
    BY <1>1, <1>4, LineEndsFit DEF BodyTexts
  <2>. QED  BY <1>5, <2>1, SplitMore
<1>7. Lines(t) = Append(Lines(before), <<>>)
  BY <1>1, <1>2, LinesAlone
<1>. QED  BY <1>3, <1>6, <1>7 DEF Lines, more

LEMMA RowsPlain ==
  ASSUME NEW t \in BodyTexts, NEW c \in BodySymbols, c # NL
  PROVE  Rows(Append(t, c)) = Append(Front(Rows(t)), Append(Last(Rows(t)), c))
<1>1. NewLines(Append(t, c)) = NewLines(t)
  BY NewLinesMore
<1>2. Fits(Len(t), NewLines(t))
  BY NewLinesFit
<1>. QED  BY <1>1, <1>2, SplitExtend DEF Rows, BodyTexts

LEMMA RowsEnd ==
  ASSUME NEW t \in BodyTexts
  PROVE  Rows(Append(t, NL)) = Append(Rows(t), <<>>)
<1>1. NL \in BodySymbols
  BY DEF BodySymbols
<1>2. NewLines(Append(t, NL)) = NewLines(t) \cup {<<Len(t) + 1, Len(t) + 1>>}
  BY <1>1, NewLinesMore
<1>3. Fits(Len(t), NewLines(t))
  BY NewLinesFit
<1>. QED  BY <1>1, <1>2, <1>3, SplitAtEnd DEF Rows

-----------------------------------------------------------------------------
\* What a frame's lines make.

Frames == [event : {"message"} \cup BodyTexts, data : Seq(BodyTexts)]

LEMMA SymbolsDiffer == NL # CR /\ NL \in BodySymbols /\ CR \in BodySymbols
BY DEF NL, CR, BodySymbols

LEMMA FieldsType == \A lines \in Seq(BodyTexts) : Fields(lines) \in Frames
<1>. DEFINE G == {lines \in Seq(BodyTexts) : Fields(lines) \in Frames}
<1>1. <<>> \in G
  <2>1. NoField \in Frames
    BY DEF NoField, Frames
  <2>. QED  BY <2>1, FieldsNone
<1>2. ASSUME NEW lines \in Seq(BodyTexts), lines \in G, NEW line \in BodyTexts
      PROVE  Append(lines, line) \in G
  <2>1. Append(lines, line) \in Seq(BodyTexts)
    BY AppendProperties
  <2>2. line # <<>> => Tail(line) \in BodyTexts
    BY HeadTailProperties DEF BodyTexts
  <2>3. Fields(lines) \in Frames
    BY <1>2
  <2>4. ReadField(Fields(lines), line) \in Frames
    <3>. DEFINE frame == Fields(lines)
    <3>1. frame.data \in Seq(BodyTexts) /\ frame.event \in {"message"} \cup BodyTexts
          /\ frame = [event |-> frame.event, data |-> frame.data]
      BY <2>3 DEF Frames
    <3>. HIDE DEF frame
    <3>2. CASE StartsWith("e", line)
      <4>1. Tail(line) \in BodyTexts
        BY <2>2, <3>2 DEF StartsWith
      <4>2. ReadField(frame, line) = [event |-> Tail(line), data |-> frame.data]
        BY <3>1, <3>2 DEF ReadField
      <4>. QED  BY <3>1, <4>1, <4>2 DEF Frames, frame
    <3>3. CASE ~StartsWith("e", line) /\ StartsWith("d", line)
      <4>1. Tail(line) \in BodyTexts
        BY <2>2, <3>3 DEF StartsWith
      <4>2. ReadField(frame, line) = [event |-> frame.event, data |-> Append(frame.data, Tail(line))]
        BY <3>1, <3>3 DEF ReadField
      <4>3. Append(frame.data, Tail(line)) \in Seq(BodyTexts)
        BY <3>1, <4>1, AppendProperties
      <4>. QED  BY <3>1, <4>2, <4>3 DEF Frames, frame
    <3>4. CASE ~StartsWith("e", line) /\ ~StartsWith("d", line)
      BY <2>3, <3>4 DEF ReadField, frame
    <3>. QED  BY <3>2, <3>3, <3>4
  <2>. QED  BY <2>1, <2>4, FieldsOne
<1>3. \A lines \in Seq(BodyTexts) : lines \in G
  <2>. HIDE DEF G
  <2>. QED  BY <1>1, <1>2, SequenceInduction
<1>. QED  BY <1>3

\* The events of a frame are those of its fields, and an empty line has none.
LEMMA EventsAre ==
  ASSUME NEW lines
  PROVE  EventsOfFrame(lines) = IF Fields(lines).data = <<>> THEN <<>> ELSE <<Fields(lines)>>
BY DEF EventsOfFrame, Fields, NoField

LEMMA EventsType ==
  ASSUME NEW lines \in Seq(BodyTexts)
  PROVE  EventsOfFrame(lines) \in Seq(Frames)
<1>1. Fields(lines) \in Frames
  BY FieldsType
<1>2. <<Fields(lines)>> \in Seq(Frames)
  BY <1>1
<1>3. <<>> \in Seq(Frames)
  OBVIOUS
<1>. QED  BY <1>2, <1>3, EventsAre

LEMMA EmptyLine ==
  ASSUME NEW lines \in Seq(BodyTexts)
  PROVE  /\ Fields(Append(lines, <<>>)) = Fields(lines)
         /\ EventsOfFrame(Append(lines, <<>>)) = EventsOfFrame(lines)
<1>1. Fields(Append(lines, <<>>)) = ReadField(Fields(lines), <<>>)
  BY FieldsOne
<1>2. Fields(Append(lines, <<>>)) = Fields(lines)
  BY <1>1 DEF ReadField, StartsWith
<1>. QED  BY <1>2, EventsAre

LEMMA NoEvents == EventsOfFrame(<<>>) = <<>>
BY EventsAre, FieldsNone DEF NoField

-----------------------------------------------------------------------------
\* The parser, one symbol more at a time.

Scan(t) == CutFrames(Norm(t).text)

LEMMA NormType ==
  \A t \in BodyTexts : /\ Norm(t).text \in BodyTexts
                   /\ Norm(t) = [text |-> Norm(t).text, return |-> Norm(t).return]
                   /\ Norm(t).return = EndsIn(t, CR)
<1>. DEFINE G == {t \in BodyTexts : /\ Norm(t).text \in BodyTexts
                               /\ Norm(t) = [text |-> Norm(t).text, return |-> Norm(t).return]
                               /\ Norm(t).return = EndsIn(t, CR)}
<1>1. <<>> \in G
  <2>1. <<>> \in BodyTexts
    BY DEF BodyTexts
  <2>2. EndsIn(<<>>, CR) = FALSE
    BY DEF EndsIn
  <2>3. /\ Norm(<<>>).text = <<>> /\ Norm(<<>>).return = FALSE
        /\ Norm(<<>>) = [text |-> Norm(<<>>).text, return |-> Norm(<<>>).return]
    BY NormNone DEF NoNorm
  <2>. QED  BY <2>1, <2>2, <2>3
<1>2. ASSUME NEW t \in BodyTexts, t \in G, NEW c \in BodySymbols PROVE Append(t, c) \in G
  <2>1. Append(t, c) \in BodyTexts /\ Append(t, c) # <<>> /\ Last(Append(t, c)) = c
    BY OneMore, AppendProperties DEF BodyTexts
  <2>2. Norm(Append(t, c)) = Normalise(Norm(t), c)
    BY NormOne DEF BodyTexts
  <2>3. Append(Norm(t).text, IF c = CR THEN NL ELSE c) \in BodyTexts
    BY <1>2, SymbolsDiffer, AppendProperties DEF BodyTexts
  <2>4. EndsIn(Append(t, c), CR) = (c = CR)
    BY <2>1 DEF EndsIn
  <2>. DEFINE new == Norm(Append(t, c))
  <2>5. new.text \in BodyTexts
    BY <1>2, <2>2, <2>3 DEF Normalise
  <2>6. new.return = (c = CR) /\ new = [text |-> new.text, return |-> new.return]
    BY <2>2 DEF Normalise
  <2>. HIDE DEF new
  <2>7. new.return = EndsIn(Append(t, c), CR)
    BY <2>4, <2>6
  <2>. QED  BY <2>1, <2>5, <2>6, <2>7 DEF new
<1>3. \A t \in BodyTexts : t \in G
  <2>. HIDE DEF G
  <2>. QED  BY <1>1, <1>2, SequenceInduction DEF BodyTexts
<1>. QED  BY <1>3

\* A newline after a return adds nothing; a return counts as a newline.
LEMMA ScanOne ==
  ASSUME NEW t \in BodyTexts, NEW c \in BodySymbols
  PROVE  Scan(Append(t, c)) =
           IF c = NL /\ Norm(t).return THEN Scan(t)
           ELSE CutSymbol(Scan(t), IF c = CR THEN NL ELSE c)
<1>. DEFINE symbol == IF c = CR THEN NL ELSE c
            whole == Norm(t).text
<1>1. Norm(Append(t, c)) = Normalise(Norm(t), c)
  BY NormOne DEF BodyTexts
<1>2. CASE c = NL /\ Norm(t).return
  BY <1>1, <1>2 DEF Normalise, Scan
<1>3. CASE ~(c = NL /\ Norm(t).return)
  <2>1. Norm(Append(t, c)).text = Append(whole, symbol)
    BY <1>1, <1>3 DEF Normalise
  <2>2. whole \in Seq(BodySymbols)
    BY NormType DEF BodyTexts
  <2>. HIDE DEF whole, symbol
  <2>3. CutFrames(Append(whole, symbol)) = CutSymbol(CutFrames(whole), symbol)
    BY <2>2, CutOne
  <2>. QED  BY <1>3, <2>1, <2>3 DEF Scan, whole, symbol
<1>. QED  BY <1>2, <1>3

\* A newline right after another cuts a frame off.
LEMMA CutSymbolIs ==
  ASSUME NEW ev, NEW left \in BodyTexts, NEW symbol \in BodySymbols
  PROVE  CutSymbol([events |-> ev, left |-> left], symbol) =
           IF symbol = NL /\ EndsIn(left, NL)
           THEN [events |-> ev \o EventsOfFrame(Rows(Front(left))), left |-> <<>>]
           ELSE [events |-> ev, left |-> Append(left, symbol)]
<1>. DEFINE more == Append(left, symbol)
            n == Len(more)
<1>1. /\ Len(left) \in Nat /\ n = Len(left) + 1 /\ more[n] = symbol
      /\ \A i \in 1..Len(left) : more[i] = left[i]
      /\ more \in BodyTexts /\ Extends(more, left)
  BY AppendProperties, OneMore DEF BodyTexts
<1>2. EndsIn(left, NL) <=> Len(left) > 0 /\ left[Len(left)] = NL
  BY <1>1, EmptySeq DEF EndsIn, Last, BodyTexts
<1>. HIDE DEF more
<1>3. (n > 1 /\ more[n - 1] = NL /\ more[n] = NL) <=> (symbol = NL /\ EndsIn(left, NL))
  <2>1. n - 1 = Len(left) /\ (n > 1 <=> Len(left) > 0)
    BY <1>1
  <2>2. Len(left) > 0 => Len(left) \in 1..Len(left)
    BY <1>1
  <2>. HIDE DEF n
  <2>. QED  BY <1>1, <1>2, <2>1, <2>2
<1>4. EndsIn(left, NL) => SubSeq(more, 1, n - 2) = Front(left)
  <2>. SUFFICES ASSUME EndsIn(left, NL) PROVE SubSeq(more, 1, n - 2) = Front(left)
    OBVIOUS
  <2>. DEFINE b == Len(left) - 1
  <2>1. n - 2 = b /\ b \in Nat /\ b <= Len(left)
    BY <1>1, <1>2
  <2>2. left \in Seq(BodySymbols) /\ more \in Seq(BodySymbols)
    BY <1>1 DEF BodyTexts
  <2>. HIDE DEF b, n
  <2>3. SubSeq(more, 1, b) = SubSeq(left, 1, b)
    BY <1>1, <2>1, <2>2, SameBeginning
  <2>. QED  BY <2>1, <2>3 DEF Front, b
<1>. HIDE DEF n
<1>5. CutSymbol([events |-> ev, left |-> left], symbol) =
        IF n > 1 /\ more[n - 1] = NL /\ more[n] = NL
        THEN [events |-> ev \o Dispatched(SubSeq(more, 1, n - 2)), left |-> <<>>]
        ELSE [events |-> ev, left |-> more]
  <2>. DEFINE cut == [events |-> ev, left |-> left]
  <2>1. cut.events = ev /\ cut.left = left /\ \A l : [cut EXCEPT !.left = l] = [events |-> ev, left |-> l]
    OBVIOUS
  <2>2. CutSymbol(cut, symbol) =
          IF n > 1 /\ more[n - 1] = NL /\ more[n] = NL
          THEN [events |-> cut.events \o Dispatched(SubSeq(more, 1, n - 2)), left |-> <<>>]
          ELSE [cut EXCEPT !.left = more]
    <3>1. Append(cut.left, symbol) = more
      BY DEF more
    <3>. HIDE DEF cut
    <3>. QED  BY <3>1 DEF CutSymbol, n
  <2>. HIDE DEF cut
  <2>3. CutSymbol(cut, symbol) =
        IF n > 1 /\ more[n - 1] = NL /\ more[n] = NL
        THEN [events |-> ev \o Dispatched(SubSeq(more, 1, n - 2)), left |-> <<>>]
        ELSE [events |-> ev, left |-> more]
    BY <2>1, <2>2
  <2>. QED  BY <2>3 DEF cut
<1>6. \A frame : Dispatched(frame) = EventsOfFrame(Rows(frame))
  BY DEF Dispatched, Rows
<1>. QED  BY <1>3, <1>4, <1>5, <1>6 DEF more

\* A text that the parser would hold back as it is.
Settled(left) ==
  /\ Norm(left) = [text |-> left, return |-> FALSE]
  /\ CutFrames(left) = [events |-> <<>>, left |-> left]

LEMMA SettledNone == Settled(<<>>)
BY NormNone, CutNone DEF NoNorm, NoCut, Settled

LEMMA SettledMore ==
  ASSUME NEW left \in BodyTexts, Settled(left), NEW symbol \in BodySymbols, symbol # CR,
         symbol = NL => ~EndsIn(left, NL)
  PROVE  Settled(Append(left, symbol))
<1>1. Norm(Append(left, symbol)) = Normalise(Norm(left), symbol)
  BY NormOne DEF BodyTexts
<1>2. CutFrames(Append(left, symbol)) = CutSymbol(CutFrames(left), symbol)
  BY CutOne DEF BodyTexts
<1>3. Normalise([text |-> left, return |-> FALSE], symbol)
        = [text |-> Append(left, symbol), return |-> FALSE]
  BY DEF Normalise
<1>4. CutSymbol([events |-> <<>>, left |-> left], symbol) = [events |-> <<>>, left |-> Append(left, symbol)]
  BY CutSymbolIs
<1>. QED  BY <1>1, <1>2, <1>3, <1>4 DEF Settled

-----------------------------------------------------------------------------
\* Parser and reference, one symbol more at a time.

\* With all lines but the last read, both have the same events, and the lines
\* of what the parser has left make the same frame; an empty line more or
\* less makes no difference to it.
Agreed(ev, left, lines, frame) ==
  /\ ev \in Seq(Frames) /\ left \in BodyTexts
  /\ lines \in Seq(BodyTexts) /\ lines # <<>> /\ frame \in Seq(BodyTexts)
  /\ Read(Front(lines)) = [events |-> ev, frame |-> frame]
  /\ Last(lines) = Last(Rows(left))
  /\ Fields(frame) = Fields(Front(Rows(left)))
  /\ Last(lines) = <<>> <=> left = <<>> \/ EndsIn(left, NL)
  /\ Settled(left)

LEMMA AgreedNone == Agreed(<<>>, <<>>, <<(<<>>)>>, <<>>)
<1>1. /\ <<>> \in Seq(Frames) /\ <<>> \in BodyTexts /\ <<>> \in Seq(BodyTexts)
      /\ <<(<<>>)>> \in Seq(BodyTexts) /\ <<(<<>>)>> # <<>>
  BY DEF BodyTexts
<1>2. Read(Front(<<(<<>>)>>)) = [events |-> <<>>, frame |-> <<>>]
  BY EmptyText, ReadNone DEF NoRead
<1>. QED  BY <1>1, <1>2, EmptyText, SettledNone DEF Agreed

LEMMA AgreedPlain ==
  ASSUME NEW ev, NEW left, NEW lines, NEW frame, Agreed(ev, left, lines, frame),
         NEW c \in BodySymbols, c \notin {NL, CR}
  PROVE  Agreed(ev, Append(left, c), Append(Front(lines), Append(Last(lines), c)), frame)
<1>. DEFINE longer == Append(Last(lines), c)
            lines2 == Append(Front(lines), longer)
            left2 == Append(left, c)
            rows == Rows(left)
<1>1. /\ left \in BodyTexts /\ lines \in Seq(BodyTexts) /\ lines # <<>> /\ Last(lines) = Last(rows)
  BY DEF Agreed
<1>2. Front(lines) \in Seq(BodyTexts) /\ Last(lines) \in BodyTexts
  BY <1>1, FrontAndLast
<1>3. longer \in BodyTexts /\ longer # <<>>
  BY <1>2, AppendProperties DEF BodyTexts
<1>4. lines2 \in Seq(BodyTexts) /\ lines2 # <<>> /\ Front(lines2) = Front(lines) /\ Last(lines2) = longer
  <2>. HIDE DEF longer
  <2>. QED  BY <1>2, <1>3, OneMore, AppendProperties
<1>5. left2 \in BodyTexts /\ left2 # <<>> /\ Last(left2) = c
  BY <1>1, OneMore, AppendProperties DEF BodyTexts
<1>6. Front(Rows(left2)) = Front(rows) /\ Last(Rows(left2)) = longer
  <2>1. Rows(left2) = Append(Front(rows), longer)
    BY <1>1, RowsPlain
  <2>2. Front(rows) \in Seq(BodyTexts)
    BY <1>1, RowsType
  <2>. HIDE DEF longer, rows, left2
  <2>. QED  BY <1>3, <2>1, <2>2, OneMore
<1>7. Settled(left2)
  BY <1>1, SettledMore DEF Agreed
<1>8. ~EndsIn(left2, NL)
  BY <1>5 DEF EndsIn
<1>. HIDE DEF longer, lines2, left2, rows
<1>9. Agreed(ev, left2, lines2, frame)
  BY <1>1, <1>3, <1>4, <1>5, <1>6, <1>7, <1>8 DEF Agreed, rows
<1>. QED  BY <1>9 DEF longer, lines2, left2

\* What reading the last line does, when it is empty and when it is not.
LEMMA LastLineRead ==
  ASSUME NEW ev, NEW left, NEW lines, NEW frame, Agreed(ev, left, lines, frame)
  PROVE  Read(lines) = IF Last(lines) = <<>>
                       THEN [events |-> ev \o EventsOfFrame(frame), frame |-> <<>>]
                       ELSE [events |-> ev, frame |-> Append(frame, Last(lines))]
<1>1. /\ lines \in Seq(BodyTexts) /\ lines # <<>>
      /\ Read(Front(lines)) = [events |-> ev, frame |-> frame]
  BY DEF Agreed
<1>2. Front(lines) \in Seq(BodyTexts) /\ lines = Append(Front(lines), Last(lines))
  BY <1>1, FrontAndLast
<1>3. Read(lines) = ReadLine([events |-> ev, frame |-> frame], Last(lines))
  BY <1>1, <1>2, ReadOne
<1>. QED  BY <1>3 DEF ReadLine

LEMMA AgreedEnd ==
  ASSUME NEW ev, NEW left, NEW lines, NEW frame, Agreed(ev, left, lines, frame)
  PROVE  \E ev2, left2, frame2 :
           /\ CutSymbol([events |-> ev, left |-> left], NL) = [events |-> ev2, left |-> left2]
           /\ Agreed(ev2, left2, Append(lines, <<>>), frame2)
<1>. DEFINE lines2 == Append(lines, <<>>)
            rows == Rows(left)
            more == Append(left, NL)
<1>1. /\ ev \in Seq(Frames) /\ left \in BodyTexts /\ lines \in Seq(BodyTexts) /\ lines # <<>>
      /\ frame \in Seq(BodyTexts) /\ Last(lines) = Last(rows)
      /\ Fields(frame) = Fields(Front(rows)) /\ Settled(left)
      /\ Last(lines) = <<>> <=> left = <<>> \/ EndsIn(left, NL)
  BY DEF Agreed
<1>2. <<>> \in BodyTexts /\ <<>> \in Seq(BodyTexts)
  BY DEF BodyTexts
<1>3. lines2 \in Seq(BodyTexts) /\ lines2 # <<>> /\ Front(lines2) = lines /\ Last(lines2) = <<>>
  BY <1>1, <1>2, OneMore, AppendProperties
<1>4. rows \in Seq(BodyTexts) /\ Front(rows) \in Seq(BodyTexts) /\ rows = Append(Front(rows), Last(rows))
  BY <1>1, RowsType
<1>5. EventsOfFrame(frame) = EventsOfFrame(Front(rows)) /\ EventsOfFrame(frame) \in Seq(Frames)
  BY <1>1, EventsAre, EventsType
<1>6. /\ more \in BodyTexts /\ more # <<>> /\ Last(more) = NL
  <2>1. left \in Seq(BodySymbols) /\ NL \in BodySymbols
    BY <1>1, SymbolsDiffer DEF BodyTexts
  <2>2. more \in Seq(BodySymbols) /\ Last(more) = NL
    BY <2>1, OneMore
  <2>3. more # <<>>
    BY <2>1, AppendProperties
  <2>. QED  BY <2>2, <2>3 DEF BodyTexts
<1>7. EndsIn(more, NL)
  BY <1>6 DEF EndsIn
<1>8. Rows(more) = Append(rows, <<>>) /\ Front(Rows(more)) = rows /\ Last(Rows(more)) = <<>>
  <2>1. Rows(more) = Append(rows, <<>>)
    BY <1>1, RowsEnd
  <2>. QED  BY <1>2, <1>4, <2>1, OneMore
<1>9. CASE EndsIn(left, NL)
  <2>. DEFINE ev2 == ev \o EventsOfFrame(Front(rows))
  <2>1. CutSymbol([events |-> ev, left |-> left], NL)
          = [events |-> ev \o EventsOfFrame(Rows(Front(left))), left |-> <<>>]
    BY <1>1, <1>9, SymbolsDiffer, CutSymbolIs
  <2>2. Front(rows) = Rows(Front(left))
    <3>. DEFINE before == Front(left)
    <3>1. before \in BodyTexts /\ left = Append(before, NL)
      BY <1>1, <1>9, FrontAndLast DEF EndsIn, BodyTexts
    <3>. HIDE DEF before
    <3>2. rows = Append(Rows(before), <<>>)
      BY <3>1, RowsEnd
    <3>3. Rows(before) \in Seq(BodyTexts)
      BY <3>1, RowsType
    <3>. QED  BY <1>2, <3>2, <3>3, OneMore DEF before
  <2>3. Read(lines) = [events |-> ev2, frame |-> <<>>]
    BY <1>1, <1>5, <1>9, LastLineRead
  <2>4. ev2 \in Seq(Frames)
    BY <1>1, <1>5, ConcatProperties
  <2>. HIDE DEF ev2, lines2, rows
  <2>5. Agreed(ev2, <<>>, lines2, <<>>)
    BY <1>2, <1>3, <2>3, <2>4, EmptyText, SettledNone DEF Agreed
  <2>. QED  BY <2>1, <2>2, <2>5 DEF ev2, lines2
<1>10. CASE ~EndsIn(left, NL)
  <2>1. CutSymbol([events |-> ev, left |-> left], NL) = [events |-> ev, left |-> more]
    BY <1>1, <1>10, SymbolsDiffer, CutSymbolIs
  <2>2. Settled(more)
    BY <1>1, <1>10, SymbolsDiffer, SettledMore
  <2>3. CASE left = <<>>
    <3>1. rows = <<(<<>>)>> /\ Front(rows) = <<>>
      BY <2>3, EmptyText
    <3>2. EventsOfFrame(frame) = <<>>
      BY <1>5, <3>1, NoEvents
    <3>3. Read(lines) = [events |-> ev, frame |-> <<>>]
      <4>1. ev \o <<>> = ev
        BY <1>1, ConcatEmptySeq
      <4>. QED  BY <1>1, <2>3, <3>2, <4>1, LastLineRead
    <3>4. Fields(<<>>) = Fields(rows)
      <4>1. rows = Append(<<>>, <<>>)
        BY <3>1
      <4>. QED  BY <1>2, <4>1, EmptyLine
    <3>. HIDE DEF lines2, rows, more
    <3>5. Agreed(ev, more, lines2, <<>>)
      BY <1>1, <1>2, <1>3, <1>6, <1>7, <1>8, <2>2, <3>3, <3>4 DEF Agreed
    <3>. QED  BY <2>1, <3>5 DEF lines2
  <2>4. CASE left # <<>>
    <3>. DEFINE frame2 == Append(frame, Last(lines))
    <3>1. Last(lines) # <<>>
      BY <1>1, <1>10, <2>4
    <3>2. Read(lines) = [events |-> ev, frame |-> frame2]
      BY <3>1, LastLineRead
    <3>3. frame2 \in Seq(BodyTexts)
      <4>1. Last(lines) \in BodyTexts
        BY <1>1, FrontAndLast
      <4>. QED  BY <1>1, <4>1, AppendProperties
    <3>4. Fields(frame2) = Fields(rows)
      <4>1. Fields(frame2) = ReadField(Fields(frame), Last(lines))
        BY <1>1, FieldsOne
      <4>2. Fields(rows) = ReadField(Fields(Front(rows)), Last(rows))
        BY <1>4, FieldsOne
      <4>. QED  BY <1>1, <4>1, <4>2
    <3>. HIDE DEF lines2, rows, more, frame2
    <3>5. Agreed(ev, more, lines2, frame2)
      BY <1>1, <1>2, <1>3, <1>6, <1>7, <1>8, <2>2, <3>2, <3>3, <3>4 DEF Agreed
    <3>. QED  BY <2>1, <3>5 DEF lines2
  <2>. QED  BY <2>3, <2>4
<1>. QED  BY <1>9, <1>10

\* The last line read too, what is left to both makes the same events.
LEMMA AgreedWhole ==
  ASSUME NEW ev, NEW left, NEW lines, NEW frame, Agreed(ev, left, lines, frame)
  PROVE  /\ Read(lines).events \o EventsOfFrame(Read(lines).frame)
               = ev \o EventsOfFrame(Rows(left))
         /\ Read(lines).events \in Seq(Frames) /\ Read(lines).frame \in Seq(BodyTexts)
<1>. DEFINE rows == Rows(left)
<1>1. /\ ev \in Seq(Frames) /\ left \in BodyTexts /\ lines \in Seq(BodyTexts) /\ lines # <<>>
      /\ frame \in Seq(BodyTexts) /\ Last(lines) = Last(rows) /\ Fields(frame) = Fields(Front(rows))
  BY DEF Agreed
<1>2. Front(rows) \in Seq(BodyTexts) /\ rows = Append(Front(rows), Last(rows)) /\ Last(lines) \in BodyTexts
  BY <1>1, RowsType, FrontAndLast
<1>3. Fields(rows) = ReadField(Fields(frame), Last(lines))
  BY <1>1, <1>2, FieldsOne
<1>. HIDE DEF rows
<1>4. CASE Last(lines) = <<>>
  <2>1. Read(lines) = [events |-> ev \o EventsOfFrame(frame), frame |-> <<>>]
    BY <1>4, LastLineRead
  <2>2. EventsOfFrame(frame) \in Seq(Frames) /\ ev \o EventsOfFrame(frame) \in Seq(Frames)
    BY <1>1, EventsType, ConcatProperties
  <2>3. EventsOfFrame(rows) = EventsOfFrame(frame)
    <3>1. Fields(rows) = Fields(frame)
      BY <1>3, <1>4 DEF ReadField, StartsWith
    <3>. QED  BY <3>1, EventsAre
  <2>4. (ev \o EventsOfFrame(frame)) \o EventsOfFrame(<<>>) = ev \o EventsOfFrame(frame)
    BY <2>2, NoEvents, ConcatEmptySeq
  <2>. QED  BY <2>1, <2>2, <2>3, <2>4 DEF rows
<1>5. CASE Last(lines) # <<>>
  <2>. DEFINE frame2 == Append(frame, Last(lines))
  <2>1. Read(lines) = [events |-> ev, frame |-> frame2]
    BY <1>5, LastLineRead
  <2>2. Fields(frame2) = Fields(rows) /\ frame2 \in Seq(BodyTexts)
    BY <1>1, <1>2, <1>3, FieldsOne, AppendProperties
  <2>. HIDE DEF frame2
  <2>3. EventsOfFrame(frame2) = EventsOfFrame(rows)
    BY <2>2, EventsAre
  <2>. QED  BY <1>1, <2>1, <2>2, <2>3 DEF rows
<1>. QED  BY <1>4, <1>5

LEMMA AgreedAlways ==
  \A t \in BodyTexts : \E ev, left, frame : /\ Scan(t) = [events |-> ev, left |-> left]
                                       /\ Agreed(ev, left, Lines(t), frame)
<1>. DEFINE agree(t) == \E ev, left, frame : /\ Scan(t) = [events |-> ev, left |-> left]
                                             /\ Agreed(ev, left, Lines(t), frame)
            G == {t \in BodyTexts : agree(t)}
<1>1. <<>> \in G
  <2>1. Scan(<<>>) = [events |-> <<>>, left |-> <<>>]
    BY NormNone, CutNone DEF Scan, NoNorm, NoCut
  <2>2. Agreed(<<>>, <<>>, Lines(<<>>), <<>>)
    BY AgreedNone, EmptyText
  <2>3. agree(<<>>)
    BY <2>1, <2>2
  <2>. QED  BY <2>3 DEF BodyTexts
<1>2. ASSUME NEW t \in BodyTexts, t \in G, NEW c \in BodySymbols PROVE Append(t, c) \in G
  <2>1. PICK ev, left, frame : /\ Scan(t) = [events |-> ev, left |-> left]
                               /\ Agreed(ev, left, Lines(t), frame)
    BY <1>2
  <2>2. Append(t, c) \in BodyTexts
    BY AppendProperties DEF BodyTexts
  <2>3. Norm(t).return <=> EndsIn(t, CR)
    BY NormType
  <2>4. CASE c \notin {NL, CR}
    <3>1. Scan(Append(t, c)) = CutSymbol([events |-> ev, left |-> left], c)
      BY <2>1, <2>4, ScanOne
    <3>2. left \in BodyTexts
      BY <2>1 DEF Agreed
    <3>3. Scan(Append(t, c)) = [events |-> ev, left |-> Append(left, c)]
      BY <2>4, <3>1, <3>2, CutSymbolIs
    <3>4. Agreed(ev, Append(left, c), Lines(Append(t, c)), frame)
      <4>. DEFINE lines == Lines(t)
      <4>1. Lines(Append(t, c)) = Append(Front(lines), Append(Last(lines), c))
        BY <2>4, LinesPlain
      <4>2. Agreed(ev, left, lines, frame)
        BY <2>1
      <4>. HIDE DEF lines
      <4>3. Agreed(ev, Append(left, c), Append(Front(lines), Append(Last(lines), c)), frame)
        BY <2>4, <4>2, AgreedPlain
      <4>. QED  BY <4>1, <4>3
    <3>5. agree(Append(t, c))
      BY <3>3, <3>4
    <3>. QED  BY <2>2, <3>5
  <2>5. CASE c \in {NL, CR} /\ ~(c = NL /\ EndsIn(t, CR))
    <3>1. Scan(Append(t, c)) = CutSymbol([events |-> ev, left |-> left], NL)
      BY <2>1, <2>3, <2>5, ScanOne
    <3>2. Lines(Append(t, c)) = Append(Lines(t), <<>>)
      BY <2>5, LinesAlone
    <3>3. \E ev2, left2, frame2 :
            /\ CutSymbol([events |-> ev, left |-> left], NL) = [events |-> ev2, left |-> left2]
            /\ Agreed(ev2, left2, Append(Lines(t), <<>>), frame2)
      BY <2>1, AgreedEnd
    <3>4. agree(Append(t, c))
      BY <3>1, <3>2, <3>3
    <3>. QED  BY <2>2, <3>4
  <2>6. CASE c = NL /\ EndsIn(t, CR)
    <3>1. Scan(Append(t, c)) = Scan(t)
      BY <2>3, <2>6, ScanOne
    <3>2. Lines(Append(t, c)) = Lines(t)
      BY <2>6, LinesPair
    <3>3. agree(Append(t, c))
      BY <2>1, <3>1, <3>2
    <3>. QED  BY <2>2, <3>3
  <2>. QED  BY <2>4, <2>5, <2>6
<1>3. \A t \in BodyTexts : t \in G
  <2>. HIDE DEF G
  <2>. QED  BY <1>1, <1>2, SequenceInduction DEF BodyTexts
<1>. QED  BY <1>3

LEMMA ScanType ==
  ASSUME NEW t \in BodyTexts
  PROVE  /\ Scan(t).events \in Seq(Frames) /\ Scan(t).left \in BodyTexts
         /\ Scan(t) = [events |-> Scan(t).events, left |-> Scan(t).left]
         /\ Settled(Scan(t).left)
<1>1. PICK ev, left, frame : /\ Scan(t) = [events |-> ev, left |-> left]
                             /\ Agreed(ev, left, Lines(t), frame)
  BY AgreedAlways
<1>2. ev \in Seq(Frames) /\ left \in BodyTexts /\ Settled(left)
  BY <1>1 DEF Agreed
<1>. QED  BY <1>1, <1>2

\* What was held back is read first: the rest of a text is scanned from there.
Continues(t, rest) ==
  Scan(t \o rest) = [events |-> Scan(t).events \o Scan(Scan(t).left \o rest).events,
                    left   |-> Scan(Scan(t).left \o rest).left]

\* The cut is not between the two symbols of a line end.
CutApart(t, rest) == EndsIn(t, CR) /\ rest # <<>> => rest[1] # NL

LEMMA ConcatMore ==
  ASSUME NEW t \in BodyTexts, NEW rest \in BodyTexts, NEW c \in BodySymbols
  PROVE  /\ t \o rest \in BodyTexts
         /\ t \o Append(rest, c) = Append(t \o rest, c)
         /\ rest # <<>> => \A symbol : EndsIn(t \o rest, symbol) <=> EndsIn(rest, symbol)
         /\ rest # <<>> => Append(rest, c)[1] = rest[1]
         /\ Append(<<>>, c)[1] = c
<1>1. t \in Seq(BodySymbols) /\ rest \in Seq(BodySymbols)
  BY DEF BodyTexts
<1>2. t \o rest \in BodyTexts /\ Len(t \o rest) = Len(t) + Len(rest)
  BY <1>1, ConcatProperties DEF BodyTexts
<1>3. t \o Append(rest, c) = Append(t \o rest, c)
  <2>. DEFINE a == t \o Append(rest, c)
              b == Append(t \o rest, c)
              more == Append(rest, c)
  <2>1. /\ more \in Seq(BodySymbols) /\ Len(more) = Len(rest) + 1
        /\ \A i \in 1..Len(rest) : more[i] = rest[i]
        /\ more[Len(rest) + 1] = c
    BY <1>1, AppendProperties
  <2>2. /\ b \in Seq(BodySymbols) /\ Len(b) = Len(t) + Len(rest) + 1
        /\ \A i \in 1..(Len(t) + Len(rest)) : b[i] = (t \o rest)[i]
        /\ b[Len(t) + Len(rest) + 1] = c
    BY <1>2, AppendProperties DEF BodyTexts
  <2>3. \A i \in 1..(Len(t) + Len(rest)) :
          (t \o rest)[i] = IF i <= Len(t) THEN t[i] ELSE rest[i - Len(t)]
    BY <1>1, ConcatProperties
  <2>. HIDE DEF more, b
  <2>4. /\ t \o more \in Seq(BodySymbols) /\ Len(t \o more) = Len(t) + Len(more)
        /\ \A i \in 1..(Len(t) + Len(more)) :
             (t \o more)[i] = IF i <= Len(t) THEN t[i] ELSE more[i - Len(t)]
    BY <1>1, <2>1, ConcatProperties
  <2>5. ASSUME NEW i \in 1..Len(b) PROVE (t \o more)[i] = b[i]
    <3>1. Len(t) \in Nat /\ Len(rest) \in Nat
      BY <1>1
    <3>2. i \in 1..(Len(t) + Len(more))
      BY <2>1, <2>2, <3>1
    <3>3. CASE i = Len(t) + Len(rest) + 1
      BY <2>1, <2>2, <2>4, <3>1, <3>2, <3>3
    <3>4. CASE i # Len(t) + Len(rest) + 1
      <4>1. i \in 1..(Len(t) + Len(rest)) /\ (i <= Len(t) \/ i - Len(t) \in 1..Len(rest))
        BY <2>2, <3>1, <3>4
      <4>. QED  BY <2>1, <2>2, <2>3, <2>4, <3>2, <4>1
    <3>. QED  BY <3>3, <3>4
  <2>6. Len(t \o more) = Len(b)
    BY <1>1, <2>1, <2>2, <2>4
  <2>7. t \o more = b
    BY <2>2, <2>4, <2>5, <2>6, SeqEqual
  <2>. QED  BY <2>7 DEF more, b
<1>4. ASSUME rest # <<>>, NEW symbol PROVE EndsIn(t \o rest, symbol) <=> EndsIn(rest, symbol)
  <2>1. Len(rest) \in Nat /\ Len(rest) # 0 /\ Len(t) \in Nat
    BY <1>1, <1>4, EmptySeq
  <2>2. (t \o rest)[Len(t) + Len(rest)] = rest[Len(rest)]
    <3>1. Len(t) + Len(rest) \in 1..(Len(t) + Len(rest)) /\ ~(Len(t) + Len(rest) <= Len(t))
          /\ Len(t) + Len(rest) - Len(t) = Len(rest)
      BY <2>1
    <3>. QED  BY <1>1, <3>1, ConcatProperties
  <2>3. t \o rest # <<>>
    BY <1>2, <2>1
  <2>. QED  BY <1>2, <1>4, <2>2, <2>3 DEF EndsIn, Last
<1>5. rest # <<>> => Append(rest, c)[1] = rest[1]
  BY <1>1, EmptySeq
<1>. QED  BY <1>2, <1>3, <1>4, <1>5

LEMMA CutFollows ==
  ASSUME NEW before \in Seq(Frames), NEW ev \in Seq(Frames), NEW left \in BodyTexts,
         NEW symbol \in BodySymbols
  PROVE  LET cut == CutSymbol([events |-> ev, left |-> left], symbol)
         IN  CutSymbol([events |-> before \o ev, left |-> left], symbol)
               = [events |-> before \o cut.events, left |-> cut.left]
<1>. DEFINE cut == CutSymbol([events |-> ev, left |-> left], symbol)
            new == CutSymbol([events |-> before \o ev, left |-> left], symbol)
<1>1. CASE symbol = NL /\ EndsIn(left, NL)
  <2>. DEFINE last == EventsOfFrame(Rows(Front(left)))
  <2>1. last \in Seq(Frames)
    <3>1. Front(left) \in BodyTexts
      BY <1>1, FrontAndLast DEF EndsIn, BodyTexts
    <3>. QED  BY <3>1, RowsType, EventsType
  <2>2. cut = [events |-> ev \o last, left |-> <<>>] /\ new = [events |-> (before \o ev) \o last, left |-> <<>>]
    BY <1>1, CutSymbolIs
  <2>. HIDE DEF last, cut, new
  <2>3. (before \o ev) \o last = before \o (ev \o last)
    BY <2>1, ConcatAssociative
  <2>4. new = [events |-> before \o cut.events, left |-> cut.left]
    BY <2>2, <2>3
  <2>. QED  BY <2>4 DEF cut, new
<1>2. CASE ~(symbol = NL /\ EndsIn(left, NL))
  <2>1. cut = [events |-> ev, left |-> Append(left, symbol)] /\ new = [events |-> before \o ev, left |-> Append(left, symbol)]
    BY <1>2, CutSymbolIs
  <2>. HIDE DEF cut, new
  <2>2. new = [events |-> before \o cut.events, left |-> cut.left]
    BY <2>1
  <2>. QED  BY <2>2 DEF cut, new
<1>. QED  BY <1>1, <1>2

LEMMA ScanContinues ==
  ASSUME NEW t \in BodyTexts
  PROVE  \A rest \in BodyTexts : CutApart(t, rest) => Continues(t, rest)
<1>. DEFINE G == {rest \in BodyTexts : CutApart(t, rest) => Continues(t, rest)}
            held == Scan(t).left
            past == Scan(t).events
<1>1. /\ past \in Seq(Frames) /\ held \in BodyTexts /\ Settled(held)
      /\ Scan(t) = [events |-> past, left |-> held]
  BY ScanType
<1>2. ~EndsIn(held, CR)
  BY <1>1, NormType DEF Settled
<1>3. <<>> \in G
  <2>1. t \o <<>> = t /\ held \o <<>> = held /\ past \o <<>> = past
    BY <1>1, ConcatEmptySeq DEF BodyTexts
  <2>2. Scan(held) = [events |-> <<>>, left |-> held]
    BY <1>1 DEF Scan, Settled
  <2>3. Continues(t, <<>>)
    BY <1>1, <2>1, <2>2 DEF Continues
  <2>. QED  BY <2>3 DEF BodyTexts
<1>4. ASSUME NEW rest \in BodyTexts, rest \in G, NEW c \in BodySymbols PROVE Append(rest, c) \in G
  <2>1. Append(rest, c) \in BodyTexts
    BY AppendProperties DEF BodyTexts
  <2>. SUFFICES ASSUME CutApart(t, Append(rest, c)) PROVE Continues(t, Append(rest, c))
    BY <2>1
  <2>2. Append(rest, c) # <<>>
    BY AppendProperties DEF BodyTexts
  <2>3. CutApart(t, rest)
    BY <2>2, ConcatMore DEF CutApart
  <2>. DEFINE one == t \o rest
              two == held \o rest
  <2>4. /\ one \in BodyTexts /\ t \o Append(rest, c) = Append(one, c)
        /\ two \in BodyTexts /\ held \o Append(rest, c) = Append(two, c)
    <3>1. \A u \in BodyTexts : u \o rest \in BodyTexts /\ u \o Append(rest, c) = Append(u \o rest, c)
      BY ConcatMore
    <3>2. t \in BodyTexts /\ held \in BodyTexts
      BY <1>1
    <3>. HIDE DEF held
    <3>. QED  BY <3>1, <3>2
  <2>5. c = NL => (EndsIn(one, CR) <=> EndsIn(two, CR))
    <3>1. CASE rest = <<>>
      <4>1. one = t /\ two = held
        BY <1>1, <3>1, ConcatEmptySeq DEF BodyTexts
      <4>2. c = NL => ~EndsIn(t, CR)
        BY <2>2, <3>1, ConcatMore DEF CutApart
      <4>. QED  BY <1>2, <4>1, <4>2
    <3>2. CASE rest # <<>>
      BY <1>1, <3>2, ConcatMore
    <3>. QED  BY <3>1, <3>2
  <2>. DEFINE ev == Scan(two).events
              left == Scan(two).left
  <2>6. Scan(one) = [events |-> past \o ev, left |-> left]
    BY <1>4, <2>3 DEF Continues
  <2>7. ev \in Seq(Frames) /\ left \in BodyTexts /\ Scan(two) = [events |-> ev, left |-> left]
    BY <2>4, ScanType
  <2>. HIDE DEF one, two
  <2>8. (Norm(one).return <=> EndsIn(one, CR)) /\ (Norm(two).return <=> EndsIn(two, CR))
    BY <2>4, NormType
  <2>. DEFINE three == Scan(Append(two, c))
  <2>9. Scan(Append(one, c)) = [events |-> past \o three.events, left |-> three.left]
    <3>1. CASE c = NL /\ EndsIn(one, CR)
      <4>1. Scan(Append(one, c)) = Scan(one) /\ three = Scan(two)
        BY <2>4, <2>5, <2>8, <3>1, ScanOne
      <4>. QED  BY <2>6, <2>7, <4>1
    <3>2. CASE ~(c = NL /\ EndsIn(one, CR))
      <4>. DEFINE symbol == IF c = CR THEN NL ELSE c
      <4>1. Scan(Append(one, c)) = CutSymbol(Scan(one), symbol) /\ three = CutSymbol(Scan(two), symbol)
        BY <2>4, <2>5, <2>8, <3>2, ScanOne
      <4>2. symbol \in BodySymbols
        BY SymbolsDiffer
      <4>. HIDE DEF symbol, three, ev, left, past
      <4>3. three = CutSymbol([events |-> ev, left |-> left], symbol)
        BY <2>7, <4>1
      <4>4. LET cut == CutSymbol([events |-> ev, left |-> left], symbol)
            IN  CutSymbol([events |-> past \o ev, left |-> left], symbol)
                  = [events |-> past \o cut.events, left |-> cut.left]
        BY <1>1, <2>7, <4>2, CutFollows
      <4>. QED  BY <2>6, <4>1, <4>3, <4>4
    <3>. QED  BY <3>1, <3>2
  <2>. QED  BY <2>4, <2>9 DEF Continues
<1>5. \A rest \in BodyTexts : rest \in G
  <2>. HIDE DEF G
  <2>. QED  BY <1>3, <1>4, SequenceInduction DEF BodyTexts
<1>. QED  BY <1>5

-----------------------------------------------------------------------------
\* push, with what it makes of the text at hand.

LEMMA NormalisedIs == \A t : Normalised(t) = Norm(t).text
BY DEF Normalised, Norm, NoNorm

LEMMA PushAll ==
  ASSUME NEW u \in BodyTexts, ~EndsIn(u, CR), NEW kept, NEW chunk, kept \o chunk = u
  PROVE  Push(kept, chunk) = [events |-> Scan(u).events, left |-> Scan(u).left]
<1>. DEFINE n == Len(u)
            last == IF n > 0 /\ u[n] = CR THEN <<CR>> ELSE <<>>
            cut == CutFrames(Normalised(SubSeq(u, 1, n - Len(last))))
<1>1. last = <<>>
  BY EmptySeq DEF EndsIn, Last, BodyTexts
<1>2. SubSeq(u, 1, n - Len(last)) = u
  <2>1. Len(<<>>) = 0 /\ n - 0 = n
    BY DEF BodyTexts
  <2>. HIDE DEF last
  <2>2. SubSeq(u, 1, n - Len(last)) = SubSeq(u, 1, Len(u))
    BY <1>1, <2>1
  <2>. QED  BY <2>2, SubSeqFull DEF BodyTexts
<1>3. cut = Scan(u)
  BY <1>2, NormalisedIs DEF Scan
<1>4. Push(kept, chunk) = [events |-> cut.events, left |-> cut.left \o last]
  BY DEF Push
<1>. HIDE DEF cut, last
<1>5. Scan(u).left \o <<>> = Scan(u).left
  BY ScanType, ConcatEmptySeq DEF BodyTexts
<1>. QED  BY <1>1, <1>3, <1>4, <1>5

LEMMA PushHolding ==
  ASSUME NEW u \in BodyTexts, NEW kept, NEW chunk, kept \o chunk = Append(u, CR)
  PROVE  Push(kept, chunk) = [events |-> Scan(u).events, left |-> Scan(u).left \o <<CR>>]
<1>. DEFINE whole == Append(u, CR)
            n == Len(whole)
            last == IF n > 0 /\ whole[n] = CR THEN <<CR>> ELSE <<>>
            cut == CutFrames(Normalised(SubSeq(whole, 1, n - Len(last))))
<1>1. Len(u) \in Nat /\ n = Len(u) + 1 /\ whole[n] = CR /\ Front(whole) = u
  BY AppendProperties, OneMore, SymbolsDiffer DEF BodyTexts
<1>. HIDE DEF whole
<1>2. last = <<CR>>
  BY <1>1
<1>3. SubSeq(whole, 1, n - Len(last)) = u
  <2>1. Len(<<CR>>) = 1
    OBVIOUS
  <2>. HIDE DEF last
  <2>. QED  BY <1>1, <1>2, <2>1 DEF Front
<1>4. cut = Scan(u)
  BY <1>3, NormalisedIs DEF Scan
<1>5. Push(kept, chunk) = [events |-> cut.events, left |-> cut.left \o last]
  BY DEF Push, whole
<1>. HIDE DEF cut, last
<1>. QED  BY <1>2, <1>4, <1>5

-----------------------------------------------------------------------------
\* The parser's states.

\* A return that ends what arrived is held back, and with it what it may mean.
Pending == fed > 0 /\ body[fed] = CR
HeldReturn == IF Pending THEN <<CR>> ELSE <<>>
Arrived == SubSeq(body, 1, IF Pending THEN fed - 1 ELSE fed)

\* The parser is where it would be with all of the text pushed at once.
Follows ==
  /\ body \in BodyTexts /\ fed \in 0..Len(body) /\ flushed \in BOOLEAN
  /\ ~flushed => /\ events = Scan(Arrived).events
                 /\ buffer = Scan(Arrived).left \o HeldReturn
  /\ flushed => fed = Len(body) /\ events = MeantEvents(body) \o LeftOver(body)

LEMMA Piece ==
  ASSUME NEW b \in BodyTexts, NEW m \in Nat, m # 0, NEW n \in Nat, m <= n, n <= Len(b)
  PROVE  /\ SubSeq(b, m, n) \in BodyTexts /\ SubSeq(b, m, n - 1) \in BodyTexts
         /\ SubSeq(b, m, n) = Append(SubSeq(b, m, n - 1), b[n])
         /\ SubSeq(b, m, n) # <<>> /\ SubSeq(b, m, n)[1] = b[m]
         /\ Last(SubSeq(b, m, n)) = b[n]
         /\ b[n] \in BodySymbols
<1>. DEFINE p == SubSeq(b, m, n)
            q == SubSeq(b, m, n - 1)
<1>1. \A i \in m..n : b[i] \in BodySymbols
  BY DEF BodyTexts
<1>2. /\ p \in Seq(BodySymbols) /\ Len(p) = n - m + 1
      /\ \A i \in 1..(n - m + 1) : p[i] = b[m + i - 1]
  BY <1>1, SubSeqProperties
<1>3. /\ q \in Seq(BodySymbols) /\ Len(q) = n - m
      /\ \A i \in 1..(n - m) : q[i] = b[m + i - 1]
  <2>1. n - 1 \in Int /\ \A i \in m..(n - 1) : b[i] \in BodySymbols
    BY <1>1
  <2>2. (IF m <= n - 1 THEN (n - 1) - m + 1 ELSE 0) = n - m /\ (n - 1) - m + 1 = n - m
    OBVIOUS
  <2>3. /\ q \in Seq(BodySymbols) /\ Len(q) = IF m <= n - 1 THEN (n - 1) - m + 1 ELSE 0
        /\ \A i \in 1..((n - 1) - m + 1) : q[i] = b[m + i - 1]
    BY <2>1, SubSeqProperties
  <2>. QED  BY <2>2, <2>3
<1>4. b[n] \in BodySymbols
  BY <1>1
<1>. HIDE DEF p, q
<1>5. p = Append(q, b[n])
  <2>. DEFINE a == Append(q, b[n])
  <2>1. /\ a \in Seq(BodySymbols) /\ Len(a) = n - m + 1
        /\ \A i \in 1..(n - m) : a[i] = q[i]
        /\ a[n - m + 1] = b[n]
    BY <1>3, <1>4, AppendProperties
  <2>. HIDE DEF a
  <2>2. ASSUME NEW i \in 1..(n - m + 1) PROVE p[i] = a[i]
    <3>1. CASE i = n - m + 1
      <4>1. m + i - 1 = n
        BY <3>1
      <4>. QED  BY <1>2, <2>1, <3>1, <4>1
    <3>2. CASE i # n - m + 1
      <4>1. i \in 1..(n - m)
        BY <3>2
      <4>. QED  BY <1>2, <1>3, <2>1, <4>1
    <3>. QED  BY <3>1, <3>2
  <2>3. p = a
    BY <1>2, <2>1, <2>2, SeqEqual
  <2>. QED  BY <2>3 DEF a
<1>6. p # <<>> /\ p[1] = b[m]
  <2>1. 1 \in 1..(n - m + 1) /\ m + 1 - 1 = m /\ n - m + 1 # 0
    OBVIOUS
  <2>. QED  BY <1>2, <2>1
<1>7. Last(p) = b[n]
  BY <1>3, <1>4, <1>5, OneMore
<1>. QED  BY <1>2, <1>3, <1>4, <1>5, <1>6, <1>7 DEF p, q, BodyTexts

LEMMA FollowsInit == SSEInit => Follows
<1>. SUFFICES ASSUME SSEInit PROVE Follows
  OBVIOUS
<1>1. /\ body \in BodyTexts /\ fed = 0 /\ flushed = FALSE /\ events = <<>> /\ buffer = <<>>
  BY SSEAssumption DEF SSEInit, BodyTexts
<1>2. ~Pending /\ HeldReturn = <<>> /\ Arrived = <<>>
  BY <1>1, SubSeqEmpty DEF Pending, HeldReturn, Arrived
<1>3. Scan(<<>>) = [events |-> <<>>, left |-> <<>>]
  BY NormNone, CutNone DEF Scan, NoNorm, NoCut
<1>4. fed \in 0..Len(body)
  BY <1>1 DEF BodyTexts
<1>5. events = Scan(Arrived).events /\ buffer = Scan(Arrived).left \o HeldReturn
  <2>1. <<>> \o <<>> = <<>>
    OBVIOUS
  <2>2. Scan(Arrived) = [events |-> <<>>, left |-> <<>>]
    BY <1>2, <1>3
  <2>. QED  BY <1>1, <1>2, <2>1, <2>2
<1>. QED  BY <1>1, <1>4, <1>5 DEF Follows

LEMMA FollowsFeed ==
  ASSUME Follows, NEW size \in 1..Len(body), Feed(size)
  PROVE  Follows'
<1>. DEFINE k == IF Pending THEN fed - 1 ELSE fed
            to == fed + size
            t == SubSeq(body, 1, k)
            left == Scan(t).left
            chunk == SubSeq(body, fed + 1, to)
            all == SubSeq(body, k + 1, to)
<1>1. /\ body \in BodyTexts /\ Len(body) \in Nat /\ fed \in 0..Len(body) /\ ~flushed
      /\ to \in 1..Len(body) /\ fed < to /\ k \in 0..fed
  <2>1. body \in BodyTexts /\ Len(body) \in Nat /\ fed \in 0..Len(body) /\ flushed \in BOOLEAN
        /\ (flushed => fed = Len(body)) /\ fed + size <= Len(body)
    <3>1. body \in BodyTexts /\ fed \in 0..Len(body) /\ flushed \in BOOLEAN
      BY DEF Follows
    <3>2. flushed => fed = Len(body)
      BY DEF Follows
    <3>3. fed + size <= Len(body)
      BY DEF Feed
    <3>4. Len(body) \in Nat
      BY <3>1 DEF BodyTexts
    <3>. QED  BY <3>1, <3>2, <3>3, <3>4
  <2>2. Pending => fed > 0
    BY DEF Pending
  <2>. QED  BY <2>1, <2>2
<1>2. /\ body' = body /\ fed' = to /\ flushed' = flushed
      /\ events' = events \o Push(buffer, chunk).events /\ buffer' = Push(buffer, chunk).left
  BY DEF Feed
<1>3. events = Scan(t).events /\ buffer = left \o HeldReturn
  BY <1>1 DEF Follows, Arrived
<1>4. t \in BodyTexts /\ chunk \in BodyTexts /\ all \in BodyTexts /\ all # <<>> /\ Last(all) = body[to]
  <2>1. t \in BodyTexts
    <3>1. CASE k = 0
      BY <3>1, SubSeqEmpty DEF BodyTexts
    <3>2. CASE k # 0
      <4>1. 1 \in Nat /\ k \in Nat /\ 1 <= k /\ k <= Len(body)
        BY <1>1, <3>2
      <4>. HIDE DEF k
      <4>. QED  BY <1>1, <4>1, Piece
    <3>. QED  BY <3>1, <3>2
  <2>2. /\ fed + 1 \in Nat /\ fed + 1 # 0 /\ fed + 1 <= to /\ to <= Len(body) /\ to \in Nat
        /\ k + 1 \in Nat /\ k + 1 # 0 /\ k + 1 <= to
    BY <1>1
  <2>. HIDE DEF k, to
  <2>. QED  BY <1>1, <2>1, <2>2, Piece
<1>5. left \in BodyTexts /\ HeldReturn \in BodyTexts /\ ~EndsIn(left, CR) /\ Settled(left)
  <2>1. left \in BodyTexts /\ Settled(left)
    BY <1>4, ScanType
  <2>2. ~EndsIn(left, CR)
    BY <2>1, NormType DEF Settled
  <2>3. HeldReturn \in BodyTexts
    BY SymbolsDiffer DEF HeldReturn, BodyTexts
  <2>. QED  BY <2>1, <2>2, <2>3
<1>6. HeldReturn \o chunk = all
  <2>1. CASE Pending
    <3>1. fed > 0 /\ body[fed] = CR /\ k + 1 = fed
      BY <1>1, <2>1 DEF Pending
    <3>2. SubSeq(body, fed, fed) = <<CR>>
      <4>1. fed \in Nat /\ fed # 0 /\ fed <= fed /\ fed <= Len(body)
        BY <1>1, <3>1
      <4>2. SubSeq(body, fed, fed) = Append(SubSeq(body, fed, fed - 1), CR)
        BY <1>1, <3>1, <4>1, Piece
      <4>3. SubSeq(body, fed, fed - 1) = <<>>
        BY <4>1, SubSeqEmpty
      <4>4. Append(<<>>, CR) = <<CR>>
        OBVIOUS
      <4>. QED  BY <4>2, <4>3, <4>4
    <3>3. SubSeq(body, fed, fed) \o chunk = SubSeq(body, fed, to)
      <4>1. /\ body \in Seq(BodySymbols) /\ fed \in 1..(Len(body) + 1)
            /\ fed \in (fed - 1)..Len(body) /\ to \in fed..Len(body)
        BY <1>1, <3>1 DEF BodyTexts
      <4>. HIDE DEF to
      <4>. QED  BY <4>1, ConcatAdjacentSubSeq
    <3>. QED  BY <2>1, <3>1, <3>2, <3>3 DEF HeldReturn
  <2>2. CASE ~Pending
    <3>1. <<>> \o chunk = chunk
      BY <1>4, ConcatEmptySeq DEF BodyTexts
    <3>. QED  BY <2>2, <3>1 DEF HeldReturn
  <2>. QED  BY <2>1, <2>2
<1>7. buffer \o chunk = left \o all
  <2>. HIDE DEF left, chunk, all
  <2>1. left \in Seq(BodySymbols) /\ HeldReturn \in Seq(BodySymbols) /\ chunk \in Seq(BodySymbols)
    BY <1>4, <1>5 DEF BodyTexts
  <2>2. (left \o HeldReturn) \o chunk = left \o (HeldReturn \o chunk)
    <3>1. \A a, b, c \in Seq(BodySymbols) : (a \o b) \o c = a \o (b \o c)
      BY ConcatAssociative
    <3>. QED  BY <2>1, <3>1
  <2>. QED  BY <1>3, <1>6, <2>2
<1>8. ASSUME NEW n \in Nat, k <= n, n <= Len(body)
      PROVE  LET rest == SubSeq(body, k + 1, n)
             IN  /\ rest \in BodyTexts
                 /\ Scan(SubSeq(body, 1, n)) = [events |-> events \o Scan(left \o rest).events,
                                                left |-> Scan(left \o rest).left]
  <2>. DEFINE rest == SubSeq(body, k + 1, n)
  <2>1. k \in Nat /\ k + 1 \in Nat /\ k + 1 # 0 /\ k <= Len(body)
    BY <1>1
  <2>2. rest # <<>> => k + 1 <= n
    BY <2>1, SubSeqEmpty
  <2>3. rest \in BodyTexts /\ (rest # <<>> => rest[1] = body[k + 1])
    <3>1. CASE rest = <<>>
      <4>1. <<>> \in BodyTexts
        BY DEF BodyTexts
      <4>. HIDE DEF rest
      <4>. QED  BY <3>1, <4>1
    <3>2. CASE rest # <<>>
      <4>1. k + 1 <= n
        BY <2>2, <3>2
      <4>. HIDE DEF k
      <4>. QED  BY <1>1, <1>8, <2>1, <4>1, Piece
    <3>. QED  BY <3>1, <3>2
  <2>4. CutApart(t, rest)
    <3>. SUFFICES ASSUME EndsIn(t, CR), rest # <<>> PROVE rest[1] # NL
      BY DEF CutApart
    <3>1. k # 0
      <4>1. k = 0 => t = <<>>
        BY SubSeqEmpty
      <4>. QED  BY <4>1 DEF EndsIn
    <3>2. body[k] = CR
      <4>. HIDE DEF k
      <4>1. 1 \in Nat /\ 1 # 0 /\ k \in Nat /\ 1 <= k /\ k <= Len(body) /\ body \in BodyTexts
        BY <1>1, <2>1, <3>1
      <4>2. Last(t) = body[k]
        BY <4>1, Piece
      <4>. QED  BY <4>2 DEF EndsIn
    <3>3. Pending
      BY <1>1, <3>1, <3>2 DEF Pending
    <3>4. body[k + 1] = CR
      <4>1. k + 1 = fed
        BY <1>1, <3>3
      <4>. QED  BY <3>3, <4>1 DEF Pending
    <3>. QED  BY <2>3, <3>4, SymbolsDiffer
  <2>5. t \o rest = SubSeq(body, 1, n)
    <3>1. /\ body \in Seq(BodySymbols) /\ 1 \in 1..(Len(body) + 1)
          /\ k \in (1 - 1)..Len(body) /\ n \in k..Len(body)
      BY <1>1, <1>8, <2>1 DEF BodyTexts
    <3>. HIDE DEF k
    <3>. QED  BY <3>1, ConcatAdjacentSubSeq
  <2>6. Continues(t, rest)
    BY <1>4, <2>3, <2>4, ScanContinues
  <2>. QED  BY <1>3, <2>3, <2>5, <2>6 DEF Continues
<1>9. /\ body' \in BodyTexts /\ fed' \in 0..Len(body') /\ flushed' \in BOOLEAN /\ ~flushed'
  BY <1>1, <1>2 DEF Follows
<1>10. CASE body[to] = CR
  <2>. DEFINE rest == SubSeq(body, k + 1, to - 1)
              u == left \o rest
  <2>1. Pending' /\ HeldReturn' = <<CR>> /\ Arrived' = SubSeq(body, 1, to - 1)
    BY <1>1, <1>2, <1>10 DEF Pending, HeldReturn, Arrived
  <2>2. to - 1 \in Nat /\ k <= to - 1 /\ to - 1 <= Len(body)
    BY <1>1
  <2>3. all = Append(rest, CR)
    <3>1. k + 1 \in Nat /\ k + 1 # 0 /\ k + 1 <= to /\ to <= Len(body) /\ to \in Nat
      BY <1>1
    <3>. HIDE DEF k, to
    <3>. QED  BY <1>1, <1>10, <3>1, Piece
  <2>4. /\ rest \in BodyTexts
        /\ Scan(Arrived') = [events |-> events \o Scan(u).events, left |-> Scan(u).left]
    <3>. HIDE DEF k, left, to
    <3>. QED  BY <1>8, <2>1, <2>2
  <2>5. u \in BodyTexts /\ left \o all = Append(u, CR)
    <3>. HIDE DEF left, rest, all
    <3>. QED  BY <1>5, <2>3, <2>4, SymbolsDiffer, ConcatMore
  <2>6. Push(buffer, chunk) = [events |-> Scan(u).events, left |-> Scan(u).left \o <<CR>>]
    <3>. HIDE DEF u, chunk, all, left
    <3>. QED  BY <1>7, <2>5, PushHolding
  <2>7. events' = Scan(Arrived').events /\ buffer' = Scan(Arrived').left \o HeldReturn'
    <3>. HIDE DEF u, chunk
    <3>1. events' = events \o Scan(u).events /\ buffer' = Scan(u).left \o <<CR>>
      BY <1>2, <2>6
    <3>2. Scan(Arrived').events = events \o Scan(u).events /\ Scan(Arrived').left = Scan(u).left
      BY <2>4
    <3>. QED  BY <2>1, <3>1, <3>2
  <2>. QED  BY <1>9, <2>7 DEF Follows
<1>11. CASE body[to] # CR
  <2>. DEFINE u == left \o all
  <2>1. ~Pending' /\ HeldReturn' = <<>> /\ Arrived' = SubSeq(body, 1, to)
    BY <1>1, <1>2, <1>11 DEF Pending, HeldReturn, Arrived
  <2>2. to \in Nat /\ k <= to /\ to <= Len(body)
    BY <1>1
  <2>3. Scan(Arrived') = [events |-> events \o Scan(u).events, left |-> Scan(u).left]
    <3>. HIDE DEF k, left, to
    <3>. QED  BY <1>8, <2>1, <2>2
  <2>4. u \in BodyTexts /\ ~EndsIn(u, CR)
    <3>1. ~EndsIn(all, CR)
      BY <1>4, <1>11 DEF EndsIn
    <3>. HIDE DEF left, all
    <3>. QED  BY <1>4, <1>5, <3>1, SymbolsDiffer, ConcatMore
  <2>5. Push(buffer, chunk) = [events |-> Scan(u).events, left |-> Scan(u).left]
    <3>1. buffer \o chunk = u
      BY <1>7
    <3>. HIDE DEF u, chunk
    <3>. QED  BY <2>4, <3>1, PushAll
  <2>6. Scan(u).left \o <<>> = Scan(u).left
    <3>. HIDE DEF u
    <3>. QED  BY <2>4, ScanType, ConcatEmptySeq DEF BodyTexts
  <2>7. events' = Scan(Arrived').events /\ buffer' = Scan(Arrived').left \o HeldReturn'
    <3>. HIDE DEF u, chunk
    <3>. QED  BY <1>2, <2>1, <2>3, <2>5, <2>6
  <2>. QED  BY <1>9, <2>7 DEF Follows
<1>. QED  BY <1>10, <1>11

\* What is complete and what is left over is what reading the last line too
\* makes of a text.
LEMMA MeantAndLeft ==
  ASSUME NEW whole \in BodyTexts
  PROVE  MeantEvents(whole) \o LeftOver(whole)
           = Read(Lines(whole)).events \o EventsOfFrame(Read(Lines(whole)).frame)
<1>. DEFINE lines == Lines(whole)
<1>1. PICK ev, left, frame : Agreed(ev, left, lines, frame)
  BY AgreedAlways
<1>2. /\ ev \in Seq(Frames) /\ frame \in Seq(BodyTexts) /\ Last(lines) \in BodyTexts
      /\ Read(Front(lines)) = [events |-> ev, frame |-> frame]
  BY <1>1, LinesType DEF Agreed
<1>3. MeantEvents(whole) = ev /\ LeftOver(whole) = EventsOfFrame(Append(frame, Last(lines)))
  BY <1>2 DEF MeantEvents, LeftOver
<1>4. Read(lines) = IF Last(lines) = <<>>
                    THEN [events |-> ev \o EventsOfFrame(frame), frame |-> <<>>]
                    ELSE [events |-> ev, frame |-> Append(frame, Last(lines))]
  BY <1>1, LastLineRead
<1>. HIDE DEF lines
<1>5. CASE Last(lines) = <<>>
  <2>1. EventsOfFrame(Append(frame, <<>>)) = EventsOfFrame(frame)
    BY <1>2, EmptyLine
  <2>2. (ev \o EventsOfFrame(frame)) \o EventsOfFrame(<<>>) = ev \o EventsOfFrame(frame)
    <3>1. ev \o EventsOfFrame(frame) \in Seq(Frames)
      BY <1>2, EventsType, ConcatProperties
    <3>. QED  BY <3>1, NoEvents, ConcatEmptySeq
  <2>. QED  BY <1>3, <1>4, <1>5, <2>1, <2>2 DEF lines
<1>6. CASE Last(lines) # <<>>
  BY <1>3, <1>4, <1>6 DEF lines
<1>. QED  BY <1>5, <1>6

LEMMA FollowsEnd ==
  ASSUME Follows, EndOfStream
  PROVE  Follows'
<1>. DEFINE t == Arrived
            left == Scan(t).left
            pushed == Push(buffer, <<>>)
            lines == Lines(t)
            rest == EventsOfFrame(Rows(left))
<1>1. /\ body \in BodyTexts /\ Len(body) \in Nat /\ fed = Len(body) /\ ~flushed
      /\ events = Scan(t).events /\ buffer = left \o HeldReturn
  BY DEF Follows, EndOfStream, BodyTexts
<1>2. /\ body' = body /\ fed' = fed /\ flushed' = TRUE
      /\ events' = events \o pushed.events \o Dispatched(Normalised(pushed.left))
  BY DEF EndOfStream
<1>3. /\ (Pending => t \in BodyTexts /\ body = Append(t, CR))
      /\ (~Pending => t = body)
  <2>1. SubSeq(body, 1, Len(body)) = body
    BY <1>1, SubSeqFull DEF BodyTexts
  <2>2. CASE Pending
    <3>1. 1 \in Nat /\ 1 # 0 /\ fed \in Nat /\ 1 <= fed /\ fed <= Len(body) /\ body[fed] = CR
      BY <1>1, <2>2 DEF Pending
    <3>2. t = SubSeq(body, 1, fed - 1)
      BY <2>2 DEF Arrived
    <3>. QED  BY <1>1, <2>1, <2>2, <3>1, <3>2, Piece
  <2>3. CASE ~Pending
    BY <1>1, <2>1, <2>3 DEF Arrived
  <2>. QED  BY <2>2, <2>3
<1>4. t \in BodyTexts
  BY <1>1, <1>3
<1>. HIDE DEF t
<1>5. /\ left \in BodyTexts /\ Settled(left) /\ events \in Seq(Frames)
      /\ ~EndsIn(left, CR) /\ Scan(left) = [events |-> <<>>, left |-> left]
  <2>1. left \in BodyTexts /\ Settled(left) /\ events \in Seq(Frames)
    BY <1>1, <1>4, ScanType
  <2>2. ~EndsIn(left, CR)
    BY <2>1, NormType DEF Settled
  <2>3. Scan(left) = [events |-> <<>>, left |-> left]
    BY <2>1 DEF Scan, Settled
  <2>. QED  BY <2>1, <2>2, <2>3
<1>6. PICK ev, l, frame : Scan(t) = [events |-> ev, left |-> l] /\ Agreed(ev, l, lines, frame)
  BY <1>4, AgreedAlways
<1>7. ev = events /\ l = left
  BY <1>1, <1>6
<1>. HIDE DEF left, lines
<1>8. /\ Read(lines).events \o EventsOfFrame(Read(lines).frame) = events \o rest
      /\ Read(lines).events \in Seq(Frames) /\ Read(lines).frame \in Seq(BodyTexts)
  BY <1>6, <1>7, AgreedWhole
<1>9. \A frames : Dispatched(frames) = EventsOfFrame(Rows(frames))
  BY DEF Dispatched, Rows
<1>10. MeantEvents(body) \o LeftOver(body) =
         Read(Lines(body)).events \o EventsOfFrame(Read(Lines(body)).frame)
  BY <1>1, MeantAndLeft
<1>11. rest \in Seq(Frames) /\ events \o <<>> = events /\ events \o rest \in Seq(Frames)
  BY <1>5, RowsType, EventsType, ConcatEmptySeq, ConcatProperties
<1>12. events' = events \o rest
  <2>1. CASE Pending
    <3>1. buffer \o <<>> = Append(left, CR)
      <4>1. buffer = left \o <<CR>>
        BY <1>1, <2>1 DEF HeldReturn, left
      <4>2. left \o <<CR>> = Append(left, CR) /\ Append(left, CR) \in Seq(BodySymbols)
        BY <1>5, SymbolsDiffer, AppendProperties, AppendIsConcat DEF BodyTexts
      <4>. QED  BY <4>1, <4>2, ConcatEmptySeq
    <3>2. pushed = [events |-> <<>>, left |-> left \o <<CR>>]
      BY <1>5, <3>1, PushHolding
    <3>3. left \o <<CR>> = Append(left, CR)
      BY <1>5, SymbolsDiffer, AppendIsConcat DEF BodyTexts
    <3>4. Normalised(Append(left, CR)) = Append(left, NL)
      <4>1. Norm(Append(left, CR)) = Normalise(Norm(left), CR)
        BY <1>5, NormOne DEF BodyTexts
      <4>. QED  BY <1>5, <4>1, NormalisedIs, SymbolsDiffer DEF Settled, Normalise
    <3>5. Dispatched(Append(left, NL)) = rest
      <4>1. Rows(Append(left, NL)) = Append(Rows(left), <<>>) /\ Rows(left) \in Seq(BodyTexts)
        BY <1>5, RowsEnd, RowsType
      <4>. QED  BY <1>9, <4>1, EmptyLine
    <3>. HIDE DEF pushed
    <3>. QED  BY <1>2, <1>11, <3>2, <3>3, <3>4, <3>5
  <2>2. CASE ~Pending
    <3>1. buffer \o <<>> = left
      <4>1. left \o <<>> = left
        BY <1>5, ConcatEmptySeq DEF BodyTexts
      <4>. QED  BY <1>1, <2>2, <4>1 DEF HeldReturn, left
    <3>2. pushed = [events |-> <<>>, left |-> left]
      BY <1>5, <3>1, PushAll
    <3>3. Normalised(left) = left
      BY <1>5, NormalisedIs DEF Settled
    <3>. HIDE DEF pushed
    <3>. QED  BY <1>2, <1>9, <1>11, <3>2, <3>3
  <2>. QED  BY <2>1, <2>2
<1>13. MeantEvents(body) \o LeftOver(body) = events \o rest
  <2>1. CASE Pending
    <3>1. Lines(body) = Append(lines, <<>>)
      BY <1>3, <2>1, SymbolsDiffer, LinesAlone DEF lines
    <3>2. Read(Lines(body)) = [events |-> Read(lines).events \o EventsOfFrame(Read(lines).frame), frame |-> <<>>]
      <4>1. lines \in Seq(BodyTexts)
        BY <1>4, LinesType DEF lines
      <4>2. Read(Append(lines, <<>>)) = ReadLine(Read(lines), <<>>)
        BY <4>1, ReadOne
      <4>. QED  BY <3>1, <4>2 DEF ReadLine
    <3>3. Read(Lines(body)).events = events \o rest /\ Read(Lines(body)).frame = <<>>
      BY <1>8, <3>2
    <3>4. (events \o rest) \o <<>> = events \o rest
      BY <1>11, ConcatEmptySeq
    <3>. QED  BY <1>10, <3>3, <3>4, NoEvents
  <2>2. CASE ~Pending
    BY <1>3, <1>8, <1>10, <2>2 DEF lines
  <2>. QED  BY <2>1, <2>2
<1>. HIDE DEF rest, pushed
<1>14. events' = MeantEvents(body') \o LeftOver(body')
  BY <1>2, <1>12, <1>13
<1>15. body' \in BodyTexts /\ flushed' = TRUE /\ fed' = Len(body') /\ fed' \in 0..Len(body')
  BY <1>1, <1>2
<1>. QED  BY <1>14, <1>15 DEF Follows

\* The events shown so far are those of the text that arrived; in the end,
\* those of the whole body.
LEMMA FollowsReads == Follows => CutsDoNotMatter
<1>. SUFFICES ASSUME Follows PROVE CutsDoNotMatter
  OBVIOUS
<1>. DEFINE k == IF Pending THEN fed - 1 ELSE fed
            t == SubSeq(body, 1, k)
<1>1. CASE flushed
  BY <1>1 DEF Follows, CutsDoNotMatter
<1>2. CASE ~flushed
  <2>1. body \in BodyTexts /\ events = Scan(t).events /\ Len(body) \in Nat /\ fed \in 0..Len(body)
    BY <1>2 DEF Follows, Arrived, BodyTexts
  <2>2. t \in BodyTexts
    <3>1. k \in Nat /\ k <= Len(body)
      <4>1. Pending => fed > 0
        BY DEF Pending
      <4>. QED  BY <2>1, <4>1
    <3>. HIDE DEF k
    <3>2. \A i \in 1..k : body[i] \in BodySymbols
      BY <2>1, <3>1 DEF BodyTexts
    <3>. QED  BY <3>1, <3>2, SubSeqProperties DEF BodyTexts
  <2>. HIDE DEF t
  <2>3. PICK ev, left, frame : Scan(t) = [events |-> ev, left |-> left] /\ Agreed(ev, left, Lines(t), frame)
    BY <2>2, AgreedAlways
  <2>4. Read(Front(Lines(t))).events = events
    BY <2>1, <2>3 DEF Agreed
  <2>5. MeantEvents(t) = Read(Front(Lines(t))).events
    BY DEF MeantEvents
  <2>. QED  BY <1>2, <2>4, <2>5 DEF CutsDoNotMatter, Pending, t
<1>. QED  BY <1>1, <1>2

\* However a body is cut into chunks, the page shows the events that the
\* body means, each as soon as its frame is complete, and in the end the one
\* that flush makes of what is left over (createSSEParser).
THEOREM CutsAreSound == SSESpec => []CutsDoNotMatter
<1>1. Follows /\ [SSENext]_sseVars => Follows'
  <2>. SUFFICES ASSUME Follows, [SSENext]_sseVars PROVE Follows'
    OBVIOUS
  <2>1. CASE \E size \in 1..Len(body) : Feed(size)
    BY <2>1, FollowsFeed
  <2>2. CASE EndOfStream
    BY <2>2, FollowsEnd
  <2>3. CASE UNCHANGED sseVars
    BY <2>3 DEF sseVars, Follows, Arrived, HeldReturn, Pending
  <2>. QED  BY <2>1, <2>2, <2>3 DEF SSENext
<1>. QED  BY <1>1, FollowsInit, FollowsReads, PTL DEF SSESpec

-----------------------------------------------------------------------------
\* The chunker's texts: what of them is ink, and putting them together again.

ChunkTexts == Seq(TextSymbols)

AddSymbol(s, i, v) == AddInk(v, s[i])
AddList(s, i, v) == v \o s[i]
AddToGroups(s, i, v) == AddPart(v, s[i])

InkFold == INSTANCE SetRecursion WITH Step <- AddSymbol, Choose <- Max
ConcatFold == INSTANCE SetRecursion WITH Step <- AddList, Choose <- Max
GroupFold == INSTANCE SetRecursion WITH Step <- AddToGroups, Choose <- Max

NoGroups == [closed |-> <<>>, last |-> <<>>]

Grouped(parts) == FoldLeft(AddPart, NoGroups, parts)

LEMMA InkNone == Ink(<<>>) = <<>>
<1>1. Ink(<<>>) = InkFold!Folded(<<>>, <<>>, {})
  BY DEF Ink, FoldLeft, MapThenFoldSet, InkFold!Folded, InkFold!Folding, AddSymbol
<1>. QED  BY <1>1, InkFold!FoldedEmpty

LEMMA InkOne ==
  ASSUME NEW S, NEW s \in Seq(S), NEW x
  PROVE  Ink(Append(s, x)) = AddInk(Ink(s), x)
<1>. DEFINE more == Append(s, x)
<1>1. DOMAIN s = 1..Len(s) /\ DOMAIN more = 1..Len(more) /\ more[Len(s) + 1] = x
  BY Appended
<1>2. InkFold!ChoosesLast
  BY DEF InkFold!ChoosesLast, Max
<1>3. InkFold!StepsAgree(more, s, Len(s))
  BY Appended DEF InkFold!StepsAgree, AddSymbol
<1>. HIDE DEF more
<1>4. Ink(s) = InkFold!Folded(s, <<>>, 1..Len(s))
  BY <1>1 DEF Ink, FoldLeft, MapThenFoldSet, InkFold!Folded, InkFold!Folding, AddSymbol
<1>5. Ink(more) = InkFold!Folded(more, <<>>, 1..Len(more))
  BY <1>1 DEF Ink, FoldLeft, MapThenFoldSet, InkFold!Folded, InkFold!Folding, AddSymbol
<1>6. InkFold!Folded(more, <<>>, 1..Len(more))
        = AddSymbol(more, Len(s) + 1, InkFold!Folded(s, <<>>, 1..Len(s)))
  BY <1>2, <1>3, InkFold!FoldedMore DEF more
<1>. QED  BY <1>1, <1>4, <1>5, <1>6 DEF AddSymbol, more

LEMMA ConcatNone == Concat(<<>>) = <<>>
<1>1. Concat(<<>>) = ConcatFold!Folded(<<>>, <<>>, {})
  BY DEF Concat, FoldLeft, MapThenFoldSet, ConcatFold!Folded, ConcatFold!Folding, AddList
<1>. QED  BY <1>1, ConcatFold!FoldedEmpty

LEMMA ConcatOne ==
  ASSUME NEW S, NEW s \in Seq(S), NEW x
  PROVE  Concat(Append(s, x)) = Concat(s) \o x
<1>. DEFINE more == Append(s, x)
<1>1. DOMAIN s = 1..Len(s) /\ DOMAIN more = 1..Len(more) /\ more[Len(s) + 1] = x
  BY Appended
<1>2. ConcatFold!ChoosesLast
  BY DEF ConcatFold!ChoosesLast, Max
<1>3. ConcatFold!StepsAgree(more, s, Len(s))
  BY Appended DEF ConcatFold!StepsAgree, AddList
<1>. HIDE DEF more
<1>4. Concat(s) = ConcatFold!Folded(s, <<>>, 1..Len(s))
  BY <1>1 DEF Concat, FoldLeft, MapThenFoldSet, ConcatFold!Folded, ConcatFold!Folding, AddList
<1>5. Concat(more) = ConcatFold!Folded(more, <<>>, 1..Len(more))
  BY <1>1 DEF Concat, FoldLeft, MapThenFoldSet, ConcatFold!Folded, ConcatFold!Folding, AddList
<1>6. ConcatFold!Folded(more, <<>>, 1..Len(more))
        = AddList(more, Len(s) + 1, ConcatFold!Folded(s, <<>>, 1..Len(s)))
  BY <1>2, <1>3, ConcatFold!FoldedMore DEF more
<1>. QED  BY <1>1, <1>4, <1>5, <1>6 DEF AddList, more

LEMMA GroupedNone == Grouped(<<>>) = NoGroups
<1>1. Grouped(<<>>) = GroupFold!Folded(<<>>, NoGroups, {})
  BY DEF Grouped, FoldLeft, MapThenFoldSet, GroupFold!Folded, GroupFold!Folding, AddToGroups
<1>. QED  BY <1>1, GroupFold!FoldedEmpty

LEMMA GroupedOne ==
  ASSUME NEW S, NEW s \in Seq(S), NEW x
  PROVE  Grouped(Append(s, x)) = AddPart(Grouped(s), x)
<1>. DEFINE more == Append(s, x)
<1>1. DOMAIN s = 1..Len(s) /\ DOMAIN more = 1..Len(more) /\ more[Len(s) + 1] = x
  BY Appended
<1>2. GroupFold!ChoosesLast
  BY DEF GroupFold!ChoosesLast, Max
<1>3. GroupFold!StepsAgree(more, s, Len(s))
  BY Appended DEF GroupFold!StepsAgree, AddToGroups
<1>. HIDE DEF more
<1>4. Grouped(s) = GroupFold!Folded(s, NoGroups, 1..Len(s))
  BY <1>1 DEF Grouped, FoldLeft, MapThenFoldSet, GroupFold!Folded, GroupFold!Folding, AddToGroups
<1>5. Grouped(more) = GroupFold!Folded(more, NoGroups, 1..Len(more))
  BY <1>1 DEF Grouped, FoldLeft, MapThenFoldSet, GroupFold!Folded, GroupFold!Folding, AddToGroups
<1>6. GroupFold!Folded(more, NoGroups, 1..Len(more))
        = AddToGroups(more, Len(s) + 1, GroupFold!Folded(s, NoGroups, 1..Len(s)))
  BY <1>2, <1>3, GroupFold!FoldedMore DEF more
<1>. QED  BY <1>1, <1>4, <1>5, <1>6 DEF AddToGroups, more

\* A sequence continued by a longer one is continued first by the shorter.
LEMMA ConcatAppend ==
  ASSUME NEW S, NEW a \in Seq(S), NEW b \in Seq(S), NEW x \in S
  PROVE  a \o Append(b, x) = Append(a \o b, x)
<1>1. Append(b, x) = b \o <<x>> /\ <<x>> \in Seq(S)
  BY AppendIsConcat
<1>2. a \o b \in Seq(S) /\ Append(a \o b, x) = (a \o b) \o <<x>>
  BY ConcatProperties, AppendIsConcat
<1>. QED  BY <1>1, <1>2, ConcatAssociative

LEMMA InkType == \A t \in ChunkTexts : Ink(t) \in ChunkTexts
<1>. DEFINE G == {t \in ChunkTexts : Ink(t) \in ChunkTexts}
<1>1. <<>> \in G
  <2>1. <<>> \in ChunkTexts
    BY EmptySeq DEF ChunkTexts
  <2>. QED  BY <2>1, InkNone
<1>2. ASSUME NEW t \in Seq(TextSymbols), t \in G, NEW x \in TextSymbols PROVE Append(t, x) \in G
  <2>1. Append(t, x) \in ChunkTexts /\ Ink(Append(t, x)) = AddInk(Ink(t), x)
    BY InkOne, AppendProperties DEF ChunkTexts
  <2>2. Ink(t) \in Seq(TextSymbols)
    BY <1>2 DEF ChunkTexts
  <2>3. AddInk(Ink(t), x) \in Seq(TextSymbols)
    BY <2>2, AppendProperties DEF AddInk
  <2>. QED  BY <2>1, <2>3 DEF ChunkTexts
<1>. HIDE DEF G
<1>3. \A t \in Seq(TextSymbols) : t \in G
  BY <1>1, <1>2, SequenceInduction
<1>. QED  BY <1>3 DEF G, ChunkTexts

\* The ink of two texts is that of the one and then that of the other.
LEMMA InkConcat ==
  ASSUME NEW a \in ChunkTexts, NEW b \in ChunkTexts
  PROVE  Ink(a \o b) = Ink(a) \o Ink(b)
<1>. DEFINE G == {t \in ChunkTexts : Ink(a \o t) = Ink(a) \o Ink(t)}
<1>0. Ink(a) \in Seq(TextSymbols) /\ a \in Seq(TextSymbols)
  BY InkType DEF ChunkTexts
<1>1. <<>> \in G
  <2>1. a \o <<>> = a /\ Ink(a) \o <<>> = Ink(a)
    BY <1>0, ConcatEmptySeq
  <2>2. <<>> \in ChunkTexts
    BY EmptySeq DEF ChunkTexts
  <2>. QED  BY <2>1, <2>2, InkNone
<1>2. ASSUME NEW t \in Seq(TextSymbols), t \in G, NEW x \in TextSymbols PROVE Append(t, x) \in G
  <2>1. /\ Append(t, x) \in ChunkTexts /\ a \o t \in Seq(TextSymbols)
        /\ a \o Append(t, x) = Append(a \o t, x)
    BY <1>0, AppendProperties, ConcatProperties, ConcatAppend DEF ChunkTexts
  <2>2. /\ Ink(Append(t, x)) = AddInk(Ink(t), x)
        /\ Ink(Append(a \o t, x)) = AddInk(Ink(a \o t), x)
    BY <2>1, InkOne
  <2>3. Ink(t) \in Seq(TextSymbols)
    BY InkType DEF ChunkTexts
  <2>4. Ink(a) \o Append(Ink(t), x) = Append(Ink(a) \o Ink(t), x)
    BY <1>0, <2>3, ConcatAppend
  <2>5. Ink(a \o t) = Ink(a) \o Ink(t)
    BY <1>2
  <2>6. Ink(a \o Append(t, x)) = Ink(a) \o Ink(Append(t, x))
    BY <2>1, <2>2, <2>4, <2>5 DEF AddInk
  <2>. QED  BY <2>1, <2>6
<1>. HIDE DEF G
<1>3. \A t \in Seq(TextSymbols) : t \in G
  BY <1>1, <1>2, SequenceInduction
<1>. QED  BY <1>3 DEF G, ChunkTexts

Blank(t) == \A i \in 1..Len(t) : White(t[i])

\* White space has no ink.
LEMMA InkBlank == \A t \in ChunkTexts : Blank(t) => Ink(t) = <<>>
<1>. DEFINE G == {t \in ChunkTexts : Blank(t) => Ink(t) = <<>>}
<1>1. <<>> \in G
  <2>1. <<>> \in ChunkTexts
    BY EmptySeq DEF ChunkTexts
  <2>. QED  BY <2>1, InkNone
<1>2. ASSUME NEW t \in Seq(TextSymbols), t \in G, NEW x \in TextSymbols PROVE Append(t, x) \in G
  <2>1. Append(t, x) \in ChunkTexts /\ Ink(Append(t, x)) = AddInk(Ink(t), x)
    BY InkOne, AppendProperties DEF ChunkTexts
  <2>2. ASSUME Blank(Append(t, x)) PROVE Blank(t) /\ White(x)
    <3>1. /\ Len(Append(t, x)) = Len(t) + 1 /\ \A i \in 1..Len(t) : Append(t, x)[i] = t[i]
          /\ Append(t, x)[Len(t) + 1] = x /\ Len(t) \in Nat
      BY AppendProperties
    <3>2. \A i \in 1..(Len(t) + 1) : White(Append(t, x)[i])
      BY <2>2, <3>1 DEF Blank
    <3>3. White(x)
      <4>1. Len(t) + 1 \in 1..(Len(t) + 1)
        BY <3>1
      <4>. QED  BY <3>1, <3>2, <4>1
    <3>4. ASSUME NEW i \in 1..Len(t) PROVE White(t[i])
      <4>1. i \in 1..(Len(t) + 1)
        BY <3>1
      <4>2. White(Append(t, x)[i]) /\ Append(t, x)[i] = t[i]
        BY <3>1, <3>2, <4>1
      <4>. QED  BY <4>2
    <3>. QED  BY <3>3, <3>4 DEF Blank
  <2>3. Blank(Append(t, x)) => Ink(Append(t, x)) = <<>>
    BY <1>2, <2>1, <2>2 DEF AddInk
  <2>. QED  BY <2>1, <2>3
<1>. HIDE DEF G
<1>3. \A t \in Seq(TextSymbols) : t \in G
  BY <1>1, <1>2, SequenceInduction
<1>. QED  BY <1>3 DEF G, ChunkTexts

LEMMA ConcatType ==
  ASSUME NEW S, NEW lists \in Seq(Seq(S))
  PROVE  Concat(lists) \in Seq(S)
<1>. DEFINE G == {l \in Seq(Seq(S)) : Concat(l) \in Seq(S)}
<1>1. <<>> \in G
  <2>1. <<>> \in Seq(S) /\ <<>> \in Seq(Seq(S))
    BY EmptySeq
  <2>. QED  BY <2>1, ConcatNone
<1>2. ASSUME NEW l \in Seq(Seq(S)), l \in G, NEW x \in Seq(S) PROVE Append(l, x) \in G
  <2>1. Append(l, x) \in Seq(Seq(S)) /\ Concat(Append(l, x)) = Concat(l) \o x
    BY ConcatOne, AppendProperties
  <2>2. Concat(l) \o x \in Seq(S)
    BY <1>2, ConcatProperties
  <2>. QED  BY <2>1, <2>2
<1>. HIDE DEF G
<1>3. \A l \in Seq(Seq(S)) : l \in G
  BY <1>1, <1>2, SequenceInduction
<1>. QED  BY <1>3 DEF G

LEMMA ConcatOfTwo ==
  ASSUME NEW S, NEW a \in Seq(Seq(S)), NEW b \in Seq(Seq(S))
  PROVE  Concat(a \o b) = Concat(a) \o Concat(b)
<1>. DEFINE G == {l \in Seq(Seq(S)) : Concat(a \o l) = Concat(a) \o Concat(l)}
<1>0. Concat(a) \in Seq(S)
  BY ConcatType
<1>1. <<>> \in G
  <2>1. a \o <<>> = a /\ Concat(a) \o <<>> = Concat(a)
    BY <1>0, ConcatEmptySeq
  <2>2. <<>> \in Seq(Seq(S))
    BY EmptySeq
  <2>. QED  BY <2>1, <2>2, ConcatNone
<1>2. ASSUME NEW l \in Seq(Seq(S)), l \in G, NEW x \in Seq(S) PROVE Append(l, x) \in G
  <2>1. /\ Append(l, x) \in Seq(Seq(S)) /\ a \o l \in Seq(Seq(S))
        /\ a \o Append(l, x) = Append(a \o l, x)
    BY AppendProperties, ConcatProperties, ConcatAppend
  <2>2. Concat(Append(a \o l, x)) = Concat(a \o l) \o x /\ Concat(Append(l, x)) = Concat(l) \o x
    BY <2>1, ConcatOne
  <2>3. Concat(l) \in Seq(S)
    BY ConcatType
  <2>4. (Concat(a) \o Concat(l)) \o x = Concat(a) \o (Concat(l) \o x)
    BY <1>0, <2>3, ConcatAssociative
  <2>5. Concat(a \o l) = Concat(a) \o Concat(l)
    BY <1>2
  <2>. QED  BY <2>1, <2>2, <2>4, <2>5
<1>. HIDE DEF G
<1>3. \A l \in Seq(Seq(S)) : l \in G
  BY <1>1, <1>2, SequenceInduction
<1>. QED  BY <1>3 DEF G

LEMMA PartOf ==
  ASSUME NEW S, NEW t \in Seq(S), NEW m \in 1..(Len(t) + 1), NEW n \in 0..Len(t)
  PROVE  /\ SubSeq(t, m, n) \in Seq(S)
         /\ Len(SubSeq(t, m, n)) = IF m <= n THEN n - m + 1 ELSE 0
         /\ \A i \in 1..(n - m + 1) : SubSeq(t, m, n)[i] = t[m + i - 1]
<1>1. m \in Int /\ n \in Int /\ \A i \in m..n : t[i] \in S
  OBVIOUS
<1>. QED  BY <1>1, SubSeqProperties

\* A text is what is before a part of it, the part, and what is after it.
LEMMA AroundPart ==
  ASSUME NEW S, NEW t \in Seq(S), NEW m \in 1..(Len(t) + 1), NEW n \in (m - 1)..Len(t)
  PROVE  (SubSeq(t, 1, m - 1) \o SubSeq(t, m, n)) \o SubSeq(t, n + 1, Len(t)) = t
<1>1. /\ Len(t) \in Nat /\ m \in Nat /\ n \in Nat
      /\ 1 \in 1..(Len(t) + 1) /\ m - 1 \in (1 - 1)..Len(t) /\ n \in (m - 1)..Len(t)
      /\ n \in (1 - 1)..Len(t) /\ Len(t) \in n..Len(t) /\ (m - 1) + 1 = m
  OBVIOUS
<1>2. SubSeq(t, 1, m - 1) \o SubSeq(t, (m - 1) + 1, n) = SubSeq(t, 1, n)
  BY <1>1, ConcatAdjacentSubSeq
<1>3. SubSeq(t, 1, n) \o SubSeq(t, n + 1, Len(t)) = SubSeq(t, 1, Len(t))
  BY <1>1, ConcatAdjacentSubSeq
<1>4. SubSeq(t, 1, Len(t)) = t
  BY SubSeqFull
<1>. QED  BY <1>1, <1>2, <1>3, <1>4

LEMMA BlankPart ==
  ASSUME NEW t \in ChunkTexts, NEW m \in 1..(Len(t) + 1), NEW n \in 0..Len(t),
         \A k \in m..n : White(t[k])
  PROVE  Ink(SubSeq(t, m, n)) = <<>>
<1>. DEFINE part == SubSeq(t, m, n)
<1>1. /\ part \in Seq(TextSymbols) /\ Len(part) = (IF m <= n THEN n - m + 1 ELSE 0)
      /\ \A i \in 1..(n - m + 1) : part[i] = t[m + i - 1]
  BY PartOf DEF ChunkTexts
<1>. HIDE DEF part
<1>2. ASSUME NEW i \in 1..Len(part) PROVE White(part[i])
  <2>1. i \in 1..(n - m + 1) /\ m + i - 1 \in m..n
    BY <1>1
  <2>2. part[i] = t[m + i - 1] /\ White(t[m + i - 1])
    BY <1>1, <2>1
  <2>. QED  BY <2>2
<1>3. part \in ChunkTexts /\ Blank(part)
  BY <1>1, <1>2 DEF Blank, ChunkTexts
<1>. QED  BY <1>3, InkBlank DEF part

\* strip takes away white space only.
LEMMA StripSound ==
  ASSUME NEW t \in ChunkTexts
  PROVE  Strip(t) \in ChunkTexts /\ Len(Strip(t)) <= Len(t) /\ Ink(Strip(t)) = Ink(t)
<1>. DEFINE ink == {i \in 1..Len(t) : ~White(t[i])}
            m == CHOOSE i \in ink : \A j \in ink : i <= j
            n == CHOOSE i \in ink : \A j \in ink : j <= i
<1>0. t \in Seq(TextSymbols) /\ Len(t) \in Nat
  BY DEF ChunkTexts
<1>1. CASE ink = {}
  <2>1. Strip(t) = <<>> /\ <<>> \in ChunkTexts /\ Len(<<>>) = 0
    BY <1>1, EmptySeq DEF Strip, ChunkTexts
  <2>2. Blank(t)
    BY <1>1 DEF Blank
  <2>. QED  BY <1>0, <2>1, <2>2, InkNone, InkBlank
<1>2. CASE ink # {}
  <2>. DEFINE inner == SubSeq(t, m, n)
  <2>1. Strip(t) = inner
    BY <1>2 DEF Strip
  <2>2. ink \in SUBSET Nat /\ ink \in SUBSET (1..Len(t))
    OBVIOUS
  <2>3. \E i \in ink : \A j \in ink : i <= j
    <3>. HIDE DEF ink
    <3>. QED  BY <1>2, <2>2, InkFold!LeastNatural
  <2>4. \E i \in ink : \A j \in ink : j <= i
    <3>1. InkFold!ChoosesLast
      BY DEF InkFold!ChoosesLast, Max
    <3>. HIDE DEF ink
    <3>2. Max(ink) \in ink /\ \A j \in ink : j <= Max(ink)
      BY <1>0, <1>2, <2>2, <3>1, InkFold!LastOfInterval
    <3>. QED  BY <3>2
  <2>5. m \in ink /\ \A j \in ink : m <= j
    <3>. HIDE DEF ink
    <3>. QED  BY <2>3
  <2>6. n \in ink /\ \A j \in ink : j <= n
    <3>. HIDE DEF ink
    <3>. QED  BY <2>4
  <2>7. m \in 1..Len(t) /\ n \in 1..Len(t) /\ m <= n
    <3>. HIDE DEF m, n
    <3>. QED  BY <2>5, <2>6
  <2>8. (\A k \in 1..(m - 1) : White(t[k])) /\ \A k \in (n + 1)..Len(t) : White(t[k])
    <3>. HIDE DEF m, n
    <3>. QED  BY <1>0, <2>5, <2>6, <2>7
  <2>. HIDE DEF m, n
  <2>. DEFINE before == SubSeq(t, 1, m - 1)
              after == SubSeq(t, n + 1, Len(t))
  <2>9. /\ 1 \in 1..(Len(t) + 1) /\ m - 1 \in 0..Len(t)
        /\ m \in 1..(Len(t) + 1) /\ n \in 0..Len(t) /\ n \in (m - 1)..Len(t)
        /\ n + 1 \in 1..(Len(t) + 1) /\ Len(t) \in 0..Len(t)
    BY <1>0, <2>7
  <2>10. /\ before \in ChunkTexts /\ inner \in ChunkTexts /\ after \in ChunkTexts
         /\ Len(inner) = n - m + 1
    <3>1. before \in ChunkTexts
      BY <1>0, <2>9, PartOf DEF ChunkTexts
    <3>2. inner \in ChunkTexts /\ Len(inner) = n - m + 1
      BY <1>0, <2>7, <2>9, PartOf DEF ChunkTexts
    <3>3. after \in ChunkTexts
      BY <1>0, <2>9, PartOf DEF ChunkTexts
    <3>. QED  BY <3>1, <3>2, <3>3
  <2>11. Ink(before) = <<>>
    BY <2>8, <2>9, BlankPart
  <2>12. Ink(after) = <<>>
    BY <2>8, <2>9, BlankPart
  <2>13. (before \o inner) \o after = t
    BY <1>0, <2>9, AroundPart
  <2>. HIDE DEF before, inner, after
  <2>14. Ink(t) = (Ink(before) \o Ink(inner)) \o Ink(after)
    <3>1. before \o inner \in ChunkTexts
      BY <2>10, ConcatProperties DEF ChunkTexts
    <3>2. Ink((before \o inner) \o after) = Ink(before \o inner) \o Ink(after)
      BY <2>10, <3>1, InkConcat
    <3>3. Ink(before \o inner) = Ink(before) \o Ink(inner)
      BY <2>10, InkConcat
    <3>. QED  BY <2>13, <3>2, <3>3
  <2>15. Ink(t) = Ink(inner)
    <3>1. Ink(inner) \in Seq(TextSymbols)
      BY <2>10, InkType DEF ChunkTexts
    <3>2. <<>> \o Ink(inner) = Ink(inner) /\ Ink(inner) \o <<>> = Ink(inner)
      BY <3>1, ConcatEmptySeq
    <3>. QED  BY <2>11, <2>12, <2>14, <3>2
  <2>. QED  BY <1>0, <2>1, <2>7, <2>10, <2>15
<1>. QED  BY <1>1, <1>2

-----------------------------------------------------------------------------
\* Splitting a text at white space.

\* The gaps are white, and do not overlap.
Separate(t, gaps) ==
  /\ gaps \subseteq Spans(Len(t))
  /\ \A g \in gaps : \A k \in g[1]..g[2] : White(t[k])
  /\ \A g \in gaps : \A h \in gaps : g = h \/ g[2] < h[1] \/ h[2] < g[1]

\* Two runs of white space, or of newlines and what is between them, that
\* overlap are one.
LEMMA SpacesSeparate == \A t \in ChunkTexts : Separate(t, Spaces(t))
<1>. SUFFICES ASSUME NEW t \in ChunkTexts PROVE Separate(t, Spaces(t))
  OBVIOUS
<1>0. Len(t) \in Nat
  BY DEF ChunkTexts
<1>1. \A g \in Spaces(t) :
        /\ g \in Spans(Len(t)) /\ g = <<g[1], g[2]>> /\ g[1] \in 1..Len(t) /\ g[2] \in 1..Len(t)
        /\ g[1] <= g[2] /\ \A k \in g[1]..g[2] : White(t[k])
        /\ g[1] = 1 \/ ~White(t[g[1] - 1])
        /\ g[2] = Len(t) \/ ~White(t[g[2] + 1])
  BY DEF Spaces, Spans
<1>2. ASSUME NEW g \in Spaces(t), NEW h \in Spaces(t), g[1] <= h[2], h[1] <= g[2]
      PROVE  g[1] <= h[1] /\ h[2] <= g[2]
  <2>1. ASSUME h[1] < g[1] PROVE FALSE
    <3>1. g[1] - 1 \in h[1]..h[2] /\ g[1] # 1
      BY <1>1, <1>2, <2>1
    <3>. QED  BY <1>1, <3>1
  <2>2. ASSUME g[2] < h[2] PROVE FALSE
    <3>1. g[2] + 1 \in h[1]..h[2] /\ g[2] # Len(t)
      BY <1>0, <1>1, <1>2, <2>2
    <3>. QED  BY <1>1, <3>1
  <2>. QED  BY <1>1, <2>1, <2>2
<1>3. ASSUME NEW g \in Spaces(t), NEW h \in Spaces(t), g[1] <= h[2], h[1] <= g[2]
      PROVE  g = h
  <2>1. g[1] <= h[1] /\ h[2] <= g[2] /\ h[1] <= g[1] /\ g[2] <= h[2]
    BY <1>2, <1>3
  <2>2. g[1] = h[1] /\ g[2] = h[2]
    BY <1>1, <2>1
  <2>. QED  BY <1>1, <2>2
<1>4. \A g \in Spaces(t) : \A h \in Spaces(t) : g = h \/ g[2] < h[1] \/ h[2] < g[1]
  BY <1>1, <1>3
<1>. QED  BY <1>1, <1>4 DEF Separate

LEMMA SentencesSeparate == \A t \in ChunkTexts : Separate(t, SentenceGaps(t))
BY SpacesSeparate DEF Separate, SentenceGaps

LEMMA ParagraphsSeparate == \A t \in ChunkTexts : Separate(t, ParagraphGaps(t))
<1>. SUFFICES ASSUME NEW t \in ChunkTexts PROVE Separate(t, ParagraphGaps(t))
  OBVIOUS
<1>. DEFINE in(g, s) == /\ s[1] <= g[1] /\ g[2] <= s[2]
                        /\ \A k \in s[1]..s[2] : t[k] = "newline" => k \in g[1]..g[2]
<1>1. \A g \in ParagraphGaps(t) :
        /\ g \in Spans(Len(t)) /\ g = <<g[1], g[2]>> /\ g[1] \in 1..Len(t) /\ g[2] \in 1..Len(t)
        /\ g[1] < g[2] /\ t[g[1]] = "newline" /\ t[g[2]] = "newline"
        /\ \E s \in Spaces(t) : in(g, s)
  BY DEF ParagraphGaps, Spans
<1>2. /\ \A s \in Spaces(t) : s[1] \in Nat /\ s[2] \in Nat /\ \A k \in s[1]..s[2] : White(t[k])
      /\ \A s \in Spaces(t) : \A r \in Spaces(t) : s = r \/ s[2] < r[1] \/ r[2] < s[1]
  BY SpacesSeparate DEF Separate, Spaces
<1>3. ASSUME NEW g \in ParagraphGaps(t), NEW k \in g[1]..g[2] PROVE White(t[k])
  <2>1. PICK s \in Spaces(t) : in(g, s)
    BY <1>1
  <2>2. k \in s[1]..s[2]
    BY <1>1, <1>2, <2>1
  <2>. QED  BY <1>2, <2>2
<1>4. ASSUME NEW g \in ParagraphGaps(t), NEW h \in ParagraphGaps(t), g[1] <= h[2], h[1] <= g[2]
      PROVE  g = h
  <2>1. PICK s \in Spaces(t) : in(g, s)
    BY <1>1
  <2>2. PICK r \in Spaces(t) : in(h, r)
    BY <1>1
  <2>3. s = r
    <3>1. s[1] <= g[1] /\ g[2] <= s[2] /\ r[1] <= h[1] /\ h[2] <= r[2]
      BY <2>1, <2>2
    <3>2. /\ g[1] \in Nat /\ g[2] \in Nat /\ h[1] \in Nat /\ h[2] \in Nat
          /\ s[1] \in Nat /\ s[2] \in Nat /\ r[1] \in Nat /\ r[2] \in Nat
      BY <1>1, <1>2
    <3>3. ~(s[2] < r[1]) /\ ~(r[2] < s[1])
      BY <1>4, <3>1, <3>2
    <3>. QED  BY <1>2, <3>3
  <2>4. g[1] \in h[1]..h[2] /\ g[2] \in h[1]..h[2] /\ h[1] \in g[1]..g[2] /\ h[2] \in g[1]..g[2]
    <3>1. g[1] \in s[1]..s[2] /\ g[2] \in s[1]..s[2] /\ h[1] \in s[1]..s[2] /\ h[2] \in s[1]..s[2]
      BY <1>1, <1>2, <2>1, <2>2, <2>3
    <3>2. t[g[1]] = "newline" /\ t[g[2]] = "newline" /\ t[h[1]] = "newline" /\ t[h[2]] = "newline"
      BY <1>1
    <3>. QED  BY <2>1, <2>2, <2>3, <3>1, <3>2
  <2>5. g[1] = h[1] /\ g[2] = h[2]
    BY <1>1, <2>4
  <2>. QED  BY <1>1, <2>5
<1>5. \A g \in ParagraphGaps(t) : \A h \in ParagraphGaps(t) : g = h \/ g[2] < h[1] \/ h[2] < g[1]
  BY <1>1, <1>4
<1>. QED  BY <1>1, <1>3, <1>5 DEF Separate

\* What a text with one gap more than its beginning splits into.
LEMMA SplitLast ==
  ASSUME NEW S, NEW t \in Seq(S), NEW g \in Spans(Len(t)), NEW gaps, Fits(g[1] - 1, gaps)
  PROVE  /\ Fits(Len(t), gaps \cup {g})
         /\ Split(t, gaps \cup {g})
              = Append(Split(SubSeq(t, 1, g[1] - 1), gaps), SubSeq(t, g[2] + 1, Len(t)))
<1>. DEFINE u == SubSeq(t, 1, g[1] - 1)
            m == Len(u)
            wider == gaps \cup {g}
            o == InOrderOfText(gaps)
            p == InOrderOfText(wider)
            n == Len(o)
            old == Split(u, gaps)
            new == Split(t, wider)
            after == SubSeq(t, g[2] + 1, Len(t))
<1>1. /\ Len(t) \in Nat /\ g[1] \in 1..Len(t) /\ g[2] \in 1..Len(t) /\ g[1] <= g[2]
      /\ g \in Nat \X Nat /\ g[1] - 1 \in Nat /\ g[1] = (g[1] - 1) + 1
      /\ 1 \in 1..(Len(t) + 1) /\ g[1] - 1 \in 0..Len(t)
      /\ g[2] + 1 \in 1..(Len(t) + 1) /\ Len(t) \in 0..Len(t)
  BY DEF Spans
<1>2. /\ u \in Seq(S) /\ m = g[1] - 1 /\ Extends(t, u)
  <2>1. /\ u \in Seq(S) /\ m = (IF 1 <= g[1] - 1 THEN (g[1] - 1) - 1 + 1 ELSE 0)
        /\ \A i \in 1..((g[1] - 1) - 1 + 1) : u[i] = t[1 + i - 1]
    BY <1>1, PartOf
  <2>. HIDE DEF u
  <2>2. m = g[1] - 1
    BY <1>1, <2>1
  <2>3. \A i \in 1..m : u[i] = t[i]
    BY <1>1, <2>1, <2>2
  <2>. QED  BY <1>1, <2>1, <2>2, <2>3 DEF Extends
<1>3. after \in Seq(S)
  BY <1>1, PartOf
<1>. HIDE DEF u, after
<1>4. p = Append(o, g)
  <2>1. g[1] - 1 \in Nat /\ g[1] = (g[1] - 1) + 1 /\ g \in Nat \X Nat
    BY <1>1
  <2>. QED  BY <2>1, OrderMore
<1>5. Fits(m, gaps) /\ Spans(m) \subseteq Spans(Len(t)) /\ m <= Len(t) /\ m \in Nat
  <2>1. m <= Len(t) /\ m \in Nat
    BY <1>1, <1>2
  <2>. HIDE DEF m
  <2>. QED  BY <1>1, <1>2, <2>1 DEF Spans
<1>. HIDE DEF m
<1>6. /\ n \in Nat /\ o \in Seq(Spans(Len(t)))
      /\ \A i \in 1..n : o[i][1] - 1 \in 0..(m - 1)
      /\ \A i \in 1..(n + 1) : StartOf(gaps, i) \in 1..(m + 1)
  <2>1. o \in Seq(Spans(m))
    BY <1>5 DEF Fits
  <2>2. o \in Seq(Spans(Len(t)))
    <3>. HIDE DEF o
    <3>. QED  BY <1>5, <2>1, SeqMonotonic
  <2>. QED  BY <1>5, <2>2, GapPlaces
<1>. HIDE DEF o
<1>7. /\ p \in Seq(Spans(Len(t))) /\ Len(p) = n + 1
      /\ (\A i \in 1..n : p[i] = o[i]) /\ p[n + 1] = g
  <2>. HIDE DEF p
  <2>. DEFINE q == Append(o, g)
  <2>1. /\ q \in Seq(Spans(Len(t))) /\ Len(q) = n + 1
        /\ (\A i \in 1..n : q[i] = o[i]) /\ q[n + 1] = g
    BY <1>6, AppendProperties DEF n
  <2>. QED  BY <1>4, <2>1
<1>8. Fits(Len(t), wider)
  <2>1. IsFiniteSet(wider) /\ wider \subseteq Spans(Len(t))
    <3>1. IsFiniteSet(gaps) /\ gaps \subseteq Spans(Len(t))
      BY <1>5 DEF Fits
    <3>. QED  BY <3>1, FS_AddElement
  <2>. QED  BY <1>7, <2>1 DEF Fits
<1>. HIDE DEF wider
<1>9. /\ new \in Seq(Seq(S)) /\ Len(new) = (n + 1) + 1
      /\ \A i \in 1..(n + 1) : new[i] = SubSeq(t, StartOf(wider, i), p[i][1] - 1)
      /\ new[(n + 1) + 1] = SubSeq(t, StartOf(wider, (n + 1) + 1), Len(t))
  <2>1. /\ new \in Seq(Seq(S)) /\ Len(new) = Len(p) + 1
        /\ \A i \in 1..Len(p) : new[i] = SubSeq(t, StartOf(wider, i), p[i][1] - 1)
        /\ new[Len(p) + 1] = SubSeq(t, StartOf(wider, Len(p) + 1), Len(t))
    BY <1>8, SplitPieces
  <2>. HIDE DEF p, n, new
  <2>. QED  BY <1>7, <2>1
<1>10. /\ old \in Seq(Seq(S)) /\ Len(old) = n + 1
       /\ \A i \in 1..n : old[i] = SubSeq(u, StartOf(gaps, i), o[i][1] - 1)
       /\ old[n + 1] = SubSeq(u, StartOf(gaps, n + 1), m)
  BY <1>2, <1>5, SplitPieces DEF o, m
<1>11. ASSUME NEW i \in 1..(n + 1) PROVE StartOf(wider, i) = StartOf(gaps, i)
  <2>1. CASE i = 1
    BY <2>1 DEF StartOf
  <2>2. CASE i # 1
    <3>1. i - 1 \in 1..n
      BY <1>6, <2>2
    <3>2. p[i - 1] = o[i - 1]
      BY <1>7, <3>1
    <3>. QED  BY <2>2, <3>2 DEF StartOf, o
  <2>. QED  BY <2>1, <2>2
<1>. HIDE DEF p, new, old
<1>12. ASSUME NEW i \in 1..(n + 1) PROVE new[i] = old[i]
  <2>. DEFINE a == StartOf(gaps, i)
              b == p[i][1] - 1
  <2>1. a \in Nat /\ a # 0
    BY <1>5, <1>6
  <2>2. b \in Nat /\ b <= m /\ old[i] = SubSeq(u, a, b)
    <3>1. CASE i = n + 1
      <4>1. b = m
        BY <1>1, <1>2, <1>7, <3>1 DEF m
      <4>2. old[n + 1] = SubSeq(u, StartOf(gaps, n + 1), m)
        BY <1>10
      <4>. HIDE DEF a, b
      <4>3. b \in Nat /\ b <= m
        BY <1>5, <4>1
      <4>4. old[i] = SubSeq(u, a, b)
        BY <3>1, <4>1, <4>2 DEF a
      <4>. QED  BY <4>3, <4>4
    <3>2. CASE i # n + 1
      <4>1. i \in 1..n
        BY <1>6, <3>2
      <4>2. p[i] = o[i] /\ o[i][1] - 1 \in 0..(m - 1)
        BY <1>6, <1>7, <4>1
      <4>3. b = o[i][1] - 1
        BY <4>2
      <4>4. old[i] = SubSeq(u, StartOf(gaps, i), o[i][1] - 1)
        BY <1>10, <4>1
      <4>. HIDE DEF a, b
      <4>5. b \in Nat /\ b <= m
        BY <1>5, <4>2, <4>3
      <4>6. old[i] = SubSeq(u, a, b)
        BY <4>3, <4>4 DEF a
      <4>. QED  BY <4>5, <4>6
    <3>. QED  BY <3>1, <3>2
  <2>3. new[i] = SubSeq(t, a, b)
    BY <1>9, <1>11
  <2>. HIDE DEF a, b
  <2>4. SubSeq(t, a, b) = SubSeq(u, a, b)
    BY <1>2, <2>1, <2>2, SameBeginning DEF m
  <2>. QED  BY <2>2, <2>3, <2>4
<1>13. new[(n + 1) + 1] = after
  <2>1. (n + 1) + 1 # 1 /\ ((n + 1) + 1) - 1 = n + 1 /\ n + 1 \in 1..(n + 1)
    BY <1>6
  <2>2. p[n + 1] = g
    BY <1>4, <1>6, AppendProperties DEF p
  <2>3. StartOf(wider, (n + 1) + 1) = g[2] + 1
    BY <2>1, <2>2 DEF StartOf, p
  <2>. QED  BY <1>9, <2>3 DEF after
<1>14. new = Append(old, after)
  <2>. DEFINE q == Append(old, after)
  <2>1. /\ q \in Seq(Seq(S)) /\ Len(q) = (n + 1) + 1 /\ \A i \in 1..(n + 1) : q[i] = old[i]
        /\ q[(n + 1) + 1] = after
    BY <1>3, <1>10, AppendProperties
  <2>. HIDE DEF q
  <2>2. ASSUME NEW i \in 1..((n + 1) + 1) PROVE new[i] = q[i]
    <3>1. CASE i = (n + 1) + 1
      BY <1>13, <2>1, <3>1
    <3>2. CASE i # (n + 1) + 1
      <4>1. i \in 1..(n + 1)
        BY <1>6, <3>2
      <4>. QED  BY <1>12, <2>1, <4>1
    <3>. QED  BY <3>1, <3>2
  <2>3. new = q
    BY <1>9, <2>1, <2>2, SeqEqual
  <2>. QED  BY <2>3 DEF q
<1>. QED  BY <1>8, <1>14 DEF wider, new, old, u, after

LEMMA SplitNowhere ==
  ASSUME NEW S, NEW t \in Seq(S)
  PROVE  Fits(Len(t), {}) /\ Split(t, {}) = <<t>>
<1>. DEFINE none == {}
            pieces == Split(t, none)
<1>1. InOrderOfText(none) = <<>>
  BY FS_EmptySet DEF InOrderOfText
<1>2. Fits(Len(t), none)
  BY <1>1, FS_EmptySet, EmptySeq DEF Fits
<1>3. Len(InOrderOfText(none)) = 0 /\ StartOf(none, 0 + 1) = 1
  BY <1>1 DEF StartOf
<1>. HIDE DEF none
<1>4. /\ pieces \in Seq(Seq(S)) /\ Len(pieces) = 0 + 1
      /\ pieces[0 + 1] = SubSeq(t, 1, Len(t))
  BY <1>2, <1>3, SplitPieces
<1>5. SubSeq(t, 1, Len(t)) = t
  BY SubSeqFull
<1>. HIDE DEF pieces
<1>6. pieces = <<t>>
  BY <1>4, <1>5
<1>. QED  BY <1>2, <1>6 DEF none, pieces

\* The ink of a text is that of what is before and after some white space.
LEMMA InkAround ==
  ASSUME NEW t \in ChunkTexts, NEW m \in 1..Len(t), NEW n \in m..Len(t),
         \A k \in m..n : White(t[k])
  PROVE  /\ SubSeq(t, 1, m - 1) \in ChunkTexts /\ SubSeq(t, n + 1, Len(t)) \in ChunkTexts
         /\ Len(SubSeq(t, 1, m - 1)) = m - 1 /\ Len(SubSeq(t, n + 1, Len(t))) = Len(t) - n
         /\ \A i \in 1..(m - 1) : SubSeq(t, 1, m - 1)[i] = t[i]
         /\ Ink(t) = Ink(SubSeq(t, 1, m - 1)) \o Ink(SubSeq(t, n + 1, Len(t)))
<1>. DEFINE before == SubSeq(t, 1, m - 1)
            gap == SubSeq(t, m, n)
            after == SubSeq(t, n + 1, Len(t))
<1>1. /\ t \in Seq(TextSymbols) /\ Len(t) \in Nat
      /\ 1 \in 1..(Len(t) + 1) /\ m - 1 \in 0..Len(t)
      /\ m \in 1..(Len(t) + 1) /\ n \in 0..Len(t) /\ n \in (m - 1)..Len(t)
      /\ n + 1 \in 1..(Len(t) + 1) /\ Len(t) \in 0..Len(t)
  BY DEF ChunkTexts
<1>2. before \in ChunkTexts /\ Len(before) = m - 1 /\ \A i \in 1..(m - 1) : before[i] = t[i]
  <2>1. /\ before \in ChunkTexts /\ Len(before) = (IF 1 <= m - 1 THEN (m - 1) - 1 + 1 ELSE 0)
        /\ \A i \in 1..((m - 1) - 1 + 1) : before[i] = t[1 + i - 1]
    BY <1>1, PartOf DEF ChunkTexts
  <2>. HIDE DEF before
  <2>. QED  BY <1>1, <2>1
<1>3. after \in ChunkTexts /\ Len(after) = Len(t) - n
  <2>1. after \in ChunkTexts /\ Len(after) = (IF n + 1 <= Len(t) THEN Len(t) - (n + 1) + 1 ELSE 0)
    BY <1>1, PartOf DEF ChunkTexts
  <2>. HIDE DEF after
  <2>. QED  BY <1>1, <2>1
<1>4. gap \in ChunkTexts /\ Ink(gap) = <<>>
  BY <1>1, PartOf, BlankPart DEF ChunkTexts
<1>5. (before \o gap) \o after = t
  BY <1>1, AroundPart
<1>. HIDE DEF before, gap, after
<1>6. before \o gap \in ChunkTexts
  BY <1>2, <1>4, ConcatProperties DEF ChunkTexts
<1>7. Ink(t) = (Ink(before) \o Ink(gap)) \o Ink(after)
  <2>1. Ink((before \o gap) \o after) = Ink(before \o gap) \o Ink(after)
    BY <1>3, <1>6, InkConcat
  <2>2. Ink(before \o gap) = Ink(before) \o Ink(gap)
    BY <1>2, <1>4, InkConcat
  <2>. QED  BY <1>5, <2>1, <2>2
<1>8. Ink(before) \o <<>> = Ink(before)
  BY <1>2, InkType, ConcatEmptySeq DEF ChunkTexts
<1>. QED  BY <1>2, <1>3, <1>4, <1>7, <1>8 DEF before, after

\* Splitting at separate gaps loses white space only, and every gap shortens.
SplitsWell(t, gaps) ==
  /\ Fits(Len(t), gaps)
  /\ Split(t, gaps) \in Seq(ChunkTexts)
  /\ Ink(Concat(Split(t, gaps))) = Ink(t)
  /\ \A i \in 1..Len(Split(t, gaps)) : Len(Split(t, gaps)[i]) <= Len(t)
  /\ Len(Split(t, gaps)) > 1 =>
       \A i \in 1..Len(Split(t, gaps)) : Len(Split(t, gaps)[i]) < Len(t)

LEMMA SplitSound ==
  \A t \in ChunkTexts : \A gaps \in SUBSET Spans(Len(t)) : Separate(t, gaps) => SplitsWell(t, gaps)
<1>. DEFINE good(t) == \A gaps \in SUBSET Spans(Len(t)) : Separate(t, gaps) => SplitsWell(t, gaps)
            wrong == {n \in Nat : \E t \in ChunkTexts : Len(t) = n /\ ~good(t)}
<1>0. \A t \in ChunkTexts : t \in Seq(TextSymbols) /\ Len(t) \in Nat
  BY DEF ChunkTexts
<1>. SUFFICES ASSUME wrong # {} PROVE FALSE
  <2>. SUFFICES ASSUME NEW t \in ChunkTexts, ~good(t) PROVE wrong # {}
    OBVIOUS
  <2>. HIDE DEF good
  <2>1. Len(t) \in wrong
    BY <1>0
  <2>. QED  BY <2>1
<1>1. PICK n \in wrong : \A m \in wrong : n <= m
  <2>1. wrong \in SUBSET Nat
    OBVIOUS
  <2>. HIDE DEF wrong
  <2>. QED  BY <2>1, InkFold!LeastNatural
<1>2. PICK t \in ChunkTexts : Len(t) = n /\ ~good(t)
  BY <1>1
<1>3. ASSUME NEW u \in ChunkTexts, Len(u) < Len(t) PROVE good(u)
  <2>. SUFFICES ASSUME ~good(u) PROVE FALSE
    OBVIOUS
  <2>. HIDE DEF good
  <2>1. Len(u) \in wrong
    BY <1>0
  <2>2. n <= Len(u)
    BY <1>1, <2>1
  <2>. QED  BY <1>0, <1>2, <1>3, <2>2
<1>. HIDE DEF wrong
<1>4. PICK gaps \in SUBSET Spans(Len(t)) : Separate(t, gaps) /\ ~SplitsWell(t, gaps)
  BY <1>2
<1>5. CASE gaps = {}
  <2>1. Fits(Len(t), {}) /\ Split(t, {}) = <<t>>
    BY <1>0, SplitNowhere
  <2>2. <<t>> \in Seq(ChunkTexts) /\ Len(<<t>>) = 1 /\ \A i \in 1..Len(<<t>>) : <<t>>[i] = t
    OBVIOUS
  <2>3. Concat(<<t>>) = t
    <3>1. <<t>> = Append(<<>>, t) /\ <<>> \in Seq(ChunkTexts)
      BY EmptySeq
    <3>2. Concat(Append(<<>>, t)) = Concat(<<>>) \o t
      BY <3>1, ConcatOne
    <3>3. <<>> \o t = t
      BY <1>0, ConcatEmptySeq
    <3>. QED  BY <3>1, <3>2, <3>3, ConcatNone
  <2>4. SplitsWell(t, {})
    <3>. DEFINE pieces == Split(t, {})
    <3>1. pieces = <<t>>
      BY <2>1
    <3>. HIDE DEF pieces
    <3>2. pieces \in Seq(ChunkTexts) /\ Ink(Concat(pieces)) = Ink(t) /\ Len(pieces) = 1
      BY <2>2, <2>3, <3>1
    <3>3. \A i \in 1..Len(pieces) : Len(pieces[i]) <= Len(t)
      BY <1>0, <2>2, <3>1
    <3>. QED  BY <2>1, <3>2, <3>3 DEF SplitsWell, pieces
  <2>. QED  BY <1>4, <1>5, <2>4
<1>6. CASE gaps # {}
  <2>1. PICK g \in gaps : \A h \in gaps : h[1] <= g[1]
    <3>. DEFINE starts == {h[1] : h \in gaps}
    <3>1. starts \in SUBSET (1..Len(t)) /\ starts # {}
      BY <1>6 DEF Spans
    <3>2. InkFold!ChoosesLast
      BY DEF InkFold!ChoosesLast, Max
    <3>3. Max(starts) \in starts /\ \A s \in starts : s <= Max(starts)
      <4>. HIDE DEF starts
      <4>. QED  BY <1>0, <3>1, <3>2, InkFold!LastOfInterval
    <3>. QED  BY <3>3
  <2>. DEFINE rest == gaps \ {g}
              u == SubSeq(t, 1, g[1] - 1)
              after == SubSeq(t, g[2] + 1, Len(t))
              old == Split(u, rest)
  <2>2. /\ Len(t) \in Nat /\ g \in Spans(Len(t))
        /\ g[1] \in 1..Len(t) /\ g[2] \in g[1]..Len(t) /\ \A k \in g[1]..g[2] : White(t[k])
    BY <1>0, <1>4 DEF Separate, Spans
  <2>3. /\ u \in ChunkTexts /\ after \in ChunkTexts
        /\ Len(u) = g[1] - 1 /\ Len(after) = Len(t) - g[2]
        /\ \A i \in 1..(g[1] - 1) : u[i] = t[i]
        /\ Ink(t) = Ink(u) \o Ink(after)
    BY <2>2, InkAround
  <2>. HIDE DEF u, after
  <2>4. Separate(u, rest) /\ rest \in SUBSET Spans(Len(u))
    <3>1. ASSUME NEW h \in rest
          PROVE  h \in Spans(Len(u)) /\ \A k \in h[1]..h[2] : White(u[k])
      <4>1. /\ h \in Spans(Len(t)) /\ h[1] \in Nat /\ h[2] \in Nat /\ h[1] >= 1
            /\ h[1] <= h[2] /\ h = <<h[1], h[2]>>
            /\ \A k \in h[1]..h[2] : White(t[k])
        BY <1>4 DEF Separate, Spans
      <4>2. h[2] < g[1]
        <5>1. h[2] < g[1] \/ g[2] < h[1]
          BY <1>4 DEF Separate
        <5>2. h[1] <= g[1] /\ g[1] <= g[2]
          BY <2>1, <2>2
        <5>. QED  BY <2>2, <4>1, <5>1, <5>2
      <4>3. h \in Spans(Len(u))
        <5>1. h[1] \in 1..(g[1] - 1) /\ h[2] \in 1..(g[1] - 1)
          BY <2>2, <4>1, <4>2
        <5>. QED  BY <2>3, <4>1, <5>1 DEF Spans
      <4>4. ASSUME NEW k \in h[1]..h[2] PROVE White(u[k])
        <5>1. k \in 1..(g[1] - 1)
          BY <2>2, <4>1, <4>2
        <5>. QED  BY <2>3, <4>1, <5>1
      <4>. QED  BY <4>3, <4>4
    <3>2. \A h \in rest : \A k \in rest : h = k \/ h[2] < k[1] \/ k[2] < h[1]
      BY <1>4 DEF Separate
    <3>. HIDE DEF rest
    <3>. QED  BY <3>1, <3>2 DEF Separate
  <2>5. SplitsWell(u, rest)
    <3>1. Len(u) < Len(t)
      BY <2>2, <2>3
    <3>2. good(u)
      BY <1>3, <2>3, <3>1
    <3>. HIDE DEF rest
    <3>. QED  BY <2>4, <3>2
  <2>6. gaps = rest \cup {g}
    OBVIOUS
  <2>7. Fits(Len(t), gaps) /\ Split(t, gaps) = Append(old, after)
    <3>1. Fits(g[1] - 1, rest)
      BY <2>3, <2>5 DEF SplitsWell
    <3>. HIDE DEF rest
    <3>2. Fits(Len(t), rest \cup {g}) /\ Split(t, rest \cup {g}) = Append(old, after)
      BY <1>0, <2>2, <3>1, SplitLast DEF u, after
    <3>. QED  BY <2>6, <3>2
  <2>. HIDE DEF rest
  <2>8. /\ old \in Seq(ChunkTexts) /\ Ink(Concat(old)) = Ink(u)
        /\ \A i \in 1..Len(old) : Len(old[i]) <= Len(u)
    BY <2>5 DEF SplitsWell
  <2>. DEFINE new == Append(old, after)
  <2>. HIDE DEF old
  <2>9. /\ new \in Seq(ChunkTexts) /\ Len(new) = Len(old) + 1 /\ Len(old) \in Nat
        /\ \A i \in 1..Len(old) : new[i] = old[i]
        /\ new[Len(old) + 1] = after
    BY <2>3, <2>8, AppendProperties
  <2>10. Concat(new) = Concat(old) \o after
    BY <2>8, ConcatOne
  <2>. HIDE DEF new
  <2>11. Ink(Concat(new)) = Ink(t)
    <3>1. Concat(old) \in ChunkTexts
      BY <2>8, ConcatType DEF ChunkTexts
    <3>2. Ink(Concat(old) \o after) = Ink(Concat(old)) \o Ink(after)
      BY <2>3, <3>1, InkConcat
    <3>. QED  BY <2>3, <2>8, <2>10, <3>2
  <2>12. ASSUME NEW i \in 1..Len(new) PROVE Len(new[i]) < Len(t) /\ Len(new[i]) \in Nat
    <3>1. CASE i = Len(old) + 1
      <4>1. Len(new[i]) = Len(t) - g[2]
        BY <2>3, <2>9, <3>1
      <4>. QED  BY <2>2, <4>1
    <3>2. CASE i # Len(old) + 1
      <4>1. i \in 1..Len(old)
        BY <2>9, <3>2
      <4>2. new[i] = old[i] /\ Len(old[i]) <= g[1] - 1 /\ Len(old[i]) \in Nat
        <5>1. new[i] = old[i] /\ old[i] \in ChunkTexts /\ Len(old[i]) <= Len(u)
          BY <2>8, <2>9, <4>1
        <5>2. Len(u) = g[1] - 1
          BY <2>3
        <5>. QED  BY <1>0, <5>1, <5>2
      <4>. QED  BY <2>2, <4>2
    <3>. QED  BY <3>1, <3>2
  <2>13. \A i \in 1..Len(new) : Len(new[i]) <= Len(t) /\ Len(new[i]) < Len(t)
    BY <2>2, <2>12
  <2>14. SplitsWell(t, gaps)
    BY <2>7, <2>9, <2>11, <2>13 DEF SplitsWell, new
  <2>. QED  BY <1>4, <2>14
<1>. QED  BY <1>5, <1>6

\* The parts of a text that are split off are shorter than it.
LEMMA PartsSound ==
  ASSUME NEW t \in ChunkTexts
  PROVE  /\ Sentences(t) \in Seq(ChunkTexts) /\ Ink(Concat(Sentences(t))) = Ink(t)
         /\ Parts(t) \in Seq(ChunkTexts) /\ Ink(Concat(Parts(t))) = Ink(t)
         /\ Len(Parts(t)) > 1 => \A i \in 1..Len(Parts(t)) : Len(Parts(t)[i]) < Len(t)
<1>1. SplitsWell(t, SentenceGaps(t))
  BY SplitSound, SentencesSeparate DEF Separate
<1>2. SplitsWell(t, ParagraphGaps(t))
  BY SplitSound, ParagraphsSeparate DEF Separate
<1>. QED  BY <1>1, <1>2 DEF Parts, Sentences, Paragraphs, SplitsWell

-----------------------------------------------------------------------------
\* Cutting a text every MaxLength symbols, and grouping its parts.

\* Adjacent pieces of a text put together.
LEMMA PiecesTogether ==
  ASSUME NEW S, NEW t \in Seq(S), NEW pieces \in Seq(Seq(S)),
         NEW c \in [0..Len(pieces) -> 0..Len(t)], c[0] = 0,
         \A i \in 1..Len(pieces) : c[i - 1] <= c[i] /\ pieces[i] = SubSeq(t, c[i - 1] + 1, c[i])
  PROVE  Concat(pieces) = SubSeq(t, 1, c[Len(pieces)])
<1>. DEFINE G == {s \in Seq(Seq(S)) :
                    (Len(s) <= Len(pieces) /\ \A i \in 1..Len(s) : s[i] = pieces[i])
                      => Concat(s) = SubSeq(t, 1, c[Len(s)])}
<1>1. <<>> \in G
  <2>1. <<>> \in Seq(Seq(S)) /\ Len(<<>>) = 0
    BY EmptySeq
  <2>2. SubSeq(t, 1, 0) = <<>>
    BY SubSeqEmpty
  <2>. QED  BY <2>1, <2>2, ConcatNone
<1>2. ASSUME NEW s \in Seq(Seq(S)), s \in G, NEW x \in Seq(S) PROVE Append(s, x) \in G
  <2>. DEFINE more == Append(s, x)
  <2>1. /\ more \in Seq(Seq(S)) /\ Len(more) = Len(s) + 1 /\ Len(s) \in Nat
        /\ \A i \in 1..Len(s) : more[i] = s[i]
        /\ more[Len(s) + 1] = x
    BY AppendProperties
  <2>2. Concat(more) = Concat(s) \o x
    BY ConcatOne
  <2>. HIDE DEF more
  <2>3. ASSUME Len(more) <= Len(pieces), \A i \in 1..Len(more) : more[i] = pieces[i]
        PROVE  Concat(more) = SubSeq(t, 1, c[Len(more)])
    <3>1. Len(s) <= Len(pieces) /\ \A i \in 1..Len(s) : s[i] = pieces[i]
      <4>1. Len(pieces) \in Nat
        OBVIOUS
      <4>2. Len(s) <= Len(pieces)
        BY <2>1, <2>3, <4>1
      <4>3. ASSUME NEW i \in 1..Len(s) PROVE s[i] = pieces[i]
        <5>1. i \in 1..Len(more)
          BY <2>1
        <5>2. more[i] = s[i] /\ more[i] = pieces[i]
          BY <2>1, <2>3, <5>1
        <5>. QED  BY <5>2
      <4>. QED  BY <4>2, <4>3
    <3>2. Concat(s) = SubSeq(t, 1, c[Len(s)])
      BY <1>2, <3>1
    <3>. DEFINE k == Len(s) + 1
    <3>3. k \in 1..Len(pieces) /\ k - 1 = Len(s)
      <4>1. Len(pieces) \in Nat /\ k <= Len(pieces)
        BY <2>1, <2>3
      <4>. QED  BY <2>1, <4>1
    <3>4. x = pieces[k]
      <4>1. k \in 1..Len(more) /\ more[k] = x
        BY <2>1
      <4>. HIDE DEF k
      <4>. QED  BY <2>3, <4>1
    <3>. HIDE DEF k
    <3>5. c[k - 1] <= c[k] /\ pieces[k] = SubSeq(t, c[k - 1] + 1, c[k])
      BY <3>3
    <3>6. c[k - 1] \in 0..Len(t) /\ c[k] \in 0..Len(t)
      BY <3>3
    <3>7. 1 \in 1..(Len(t) + 1) /\ c[k - 1] \in (1 - 1)..Len(t) /\ c[k] \in c[k - 1]..Len(t)
      BY <3>5, <3>6
    <3>8. SubSeq(t, 1, c[k - 1]) \o SubSeq(t, c[k - 1] + 1, c[k]) = SubSeq(t, 1, c[k])
      BY <3>7, ConcatAdjacentSubSeq
    <3>. QED  BY <2>1, <2>2, <3>2, <3>3, <3>4, <3>5, <3>8 DEF k
  <2>. QED  BY <2>1, <2>3 DEF more
<1>. HIDE DEF G
<1>3. \A s \in Seq(Seq(S)) : s \in G
  BY <1>1, <1>2, SequenceInduction
<1>. QED  BY <1>3 DEF G

\* The hard split loses nothing.
LEMMA HardSplitSound ==
  ASSUME NEW t \in ChunkTexts
  PROVE  /\ HardSplit(t) \in Seq(ChunkTexts)
         /\ \A i \in 1..Len(HardSplit(t)) : Len(HardSplit(t)[i]) <= MaxLength
         /\ Concat(HardSplit(t)) = t
<1>. DEFINE size == Len(t)
            count == (size + MaxLength - 1) \div MaxLength
            cut(n) == IF n * MaxLength < size THEN n * MaxLength ELSE size
            piece(n) == SubSeq(t, (n - 1) * MaxLength + 1, cut(n))
            pieces == HardSplit(t)
            c == [n \in 0..count |-> cut(n)]
<1>1. t \in Seq(TextSymbols) /\ size \in Nat /\ MaxLength \in Nat \ {0}
  BY ChunkAssumption DEF ChunkTexts
<1>2. pieces = [n \in 1..count |-> piece(n)]
  BY DEF HardSplit
<1>. HIDE DEF size, pieces
<1>3. /\ count \in Nat /\ MaxLength * count <= size + MaxLength - 1
      /\ size + MaxLength - 1 < MaxLength * count + MaxLength
  <2>1. size + MaxLength - 1 \in Nat
    BY <1>1
  <2>2. \A x \in Nat, m \in Nat \ {0} : x \div m \in Nat /\ m * (x \div m) <= x /\ x < m * (x \div m) + m
    OBVIOUS
  <2>. QED  BY <1>1, <2>1, <2>2
<1>. HIDE DEF count
<1>4. ASSUME NEW n \in 1..count
      PROVE  /\ (n - 1) * MaxLength \in Nat /\ (n - 1) * MaxLength < size
             /\ n * MaxLength = (n - 1) * MaxLength + MaxLength
  <2>1. n - 1 \in Nat /\ count - 1 \in Nat /\ n - 1 <= count - 1
    BY <1>3
  <2>2. \A a, b, m \in Nat : a <= b => a * m <= b * m
    OBVIOUS
  <2>3. (n - 1) * MaxLength <= (count - 1) * MaxLength
    BY <1>1, <2>1, <2>2
  <2>4. (count - 1) * MaxLength + MaxLength = MaxLength * count
    BY <1>1, <1>3
  <2>5. n * MaxLength = (n - 1) * MaxLength + MaxLength /\ (n - 1) * MaxLength \in Nat
    BY <1>1, <2>1
  <2>6. (count - 1) * MaxLength \in Nat
    BY <1>1, <2>1
  <2>. DEFINE p == (n - 1) * MaxLength
              q == (count - 1) * MaxLength
              r == MaxLength * count
  <2>7. r \in Nat
    BY <1>1, <1>3
  <2>8. p \in Nat /\ q \in Nat /\ p <= q /\ q + MaxLength = r /\ r <= size + MaxLength - 1
    BY <1>3, <2>3, <2>4, <2>5, <2>6
  <2>. HIDE DEF p, q, r
  <2>9. p < size
    BY <1>1, <2>7, <2>8
  <2>. QED  BY <2>5, <2>9 DEF p
<1>5. ASSUME NEW n \in 1..count
      PROVE  /\ cut(n - 1) = (n - 1) * MaxLength /\ cut(n) \in 0..size
             /\ cut(n - 1) <= cut(n) /\ cut(n) - cut(n - 1) <= MaxLength
             /\ (n - 1) * MaxLength + 1 \in 1..(size + 1)
             /\ (n - 1) * MaxLength + 1 <= cut(n)
  <2>. DEFINE p == (n - 1) * MaxLength
              q == n * MaxLength
  <2>1. p \in Nat /\ p < size /\ q = p + MaxLength
    BY <1>4
  <2>2. cut(n - 1) = p /\ cut(n) = IF q < size THEN q ELSE size
    BY <2>1
  <2>. HIDE DEF p, q, cut
  <2>3. /\ cut(n - 1) = p /\ cut(n) \in 0..size /\ cut(n - 1) <= cut(n)
        /\ cut(n) - cut(n - 1) <= MaxLength /\ p + 1 \in 1..(size + 1) /\ p + 1 <= cut(n)
    BY <1>1, <2>1, <2>2
  <2>. QED  BY <2>3 DEF p
<1>. HIDE DEF cut
<1>6. ASSUME NEW n \in 1..count
      PROVE  /\ piece(n) \in ChunkTexts /\ Len(piece(n)) <= MaxLength
             /\ piece(n) = SubSeq(t, cut(n - 1) + 1, cut(n))
  <2>. DEFINE a == (n - 1) * MaxLength + 1
              b == cut(n)
  <2>1. a \in 1..(Len(t) + 1) /\ b \in 0..Len(t) /\ a <= b /\ a = cut(n - 1) + 1
        /\ b - cut(n - 1) <= MaxLength
    BY <1>5 DEF size
  <2>. HIDE DEF a, b
  <2>2. /\ SubSeq(t, a, b) \in Seq(TextSymbols)
        /\ Len(SubSeq(t, a, b)) = IF a <= b THEN b - a + 1 ELSE 0
    BY <1>1, <2>1, PartOf
  <2>3. cut(n - 1) \in Int
    <3>1. cut(n - 1) = (n - 1) * MaxLength /\ (n - 1) * MaxLength \in Nat
      BY <1>4, <1>5
    <3>. QED  BY <3>1
  <2>4. Len(SubSeq(t, a, b)) <= MaxLength
    BY <1>1, <2>1, <2>2, <2>3
  <2>. QED  BY <2>1, <2>2, <2>4 DEF a, b, ChunkTexts
<1>. HIDE DEF piece
<1>7. /\ pieces \in Seq(ChunkTexts) /\ Len(pieces) = count
      /\ \A n \in 1..count : pieces[n] = piece(n)
  BY <1>2, <1>3, <1>6
<1>8. \A i \in 1..Len(pieces) : Len(pieces[i]) <= MaxLength
  BY <1>6, <1>7
<1>9. cut(0) = 0 /\ cut(count) = size
  <2>1. cut(0) = 0
    <3>1. 0 * MaxLength = 0
      BY <1>1
    <3>. QED  BY <1>1, <3>1 DEF cut
  <2>2. ~(count * MaxLength < size)
    <3>. DEFINE r == MaxLength * count
    <3>1. count * MaxLength = r /\ r \in Nat /\ size + MaxLength - 1 < r + MaxLength
      BY <1>1, <1>3
    <3>. HIDE DEF r
    <3>. QED  BY <1>1, <3>1
  <2>. QED  BY <2>1, <2>2 DEF cut
<1>10. /\ c \in [0..Len(pieces) -> 0..Len(t)] /\ c[0] = 0 /\ c[Len(pieces)] = size
       /\ \A i \in 1..Len(pieces) : c[i - 1] <= c[i] /\ pieces[i] = SubSeq(t, c[i - 1] + 1, c[i])
  <2>1. \A n \in 0..count : cut(n) \in 0..size
    <3>. SUFFICES ASSUME NEW n \in 0..count PROVE cut(n) \in 0..size
      OBVIOUS
    <3>1. CASE n = 0
      BY <1>1, <1>9, <3>1
    <3>2. CASE n # 0
      <4>1. n \in 1..count
        BY <3>2
      <4>. QED  BY <1>5, <4>1
    <3>. QED  BY <3>1, <3>2
  <2>2. /\ 0 \in 0..count /\ count \in 0..count
        /\ \A i \in 1..count : i \in 0..count /\ i - 1 \in 0..count
    BY <1>3
  <2>3. c \in [0..Len(pieces) -> 0..Len(t)] /\ \A n \in 0..count : c[n] = cut(n)
    BY <1>7, <2>1 DEF size
  <2>. HIDE DEF c
  <2>. QED  BY <1>5, <1>6, <1>7, <1>9, <2>2, <2>3
<1>. HIDE DEF c
<1>11. Concat(pieces) = SubSeq(t, 1, c[Len(pieces)])
  BY <1>1, <1>7, <1>10, PiecesTogether DEF ChunkTexts
<1>12. SubSeq(t, 1, size) = t
  BY <1>1, SubSeqFull DEF size
<1>. QED  BY <1>7, <1>8, <1>10, <1>11, <1>12 DEF pieces

\* Joining two texts loses nothing, and adds a blank at most.
LEMMA JoinSound ==
  ASSUME NEW a \in ChunkTexts, NEW b \in ChunkTexts
  PROVE  /\ Join(a, b) \in ChunkTexts
         /\ Len(Join(a, b)) <= Len(a) + Len(b) + 1
         /\ Ink(Join(a, b)) = Ink(a) \o Ink(b)
<1>1. a \in Seq(TextSymbols) /\ b \in Seq(TextSymbols) /\ Len(a) \in Nat /\ Len(b) \in Nat
  BY DEF ChunkTexts
<1>2. CASE a = <<>>
  <2>1. Join(a, b) = b
    BY <1>2 DEF Join
  <2>2. Ink(a) \o Ink(b) = Ink(b)
    BY <1>2, InkNone, InkType, ConcatEmptySeq DEF ChunkTexts
  <2>3. Len(b) <= Len(a) + Len(b) + 1
    BY <1>1
  <2>. QED  BY <2>1, <2>2, <2>3
<1>3. CASE a # <<>>
  <2>. DEFINE blank == <<" ">>
              first == a \o blank
  <2>1. blank \in Seq(TextSymbols) /\ Len(blank) = 1 /\ Blank(blank)
    <3>1. " " \in TextSymbols /\ White(" ")
      BY DEF TextSymbols, White
    <3>2. \A s \in TextSymbols : /\ <<s>> \in Seq(TextSymbols) /\ Len(<<s>>) = 1
                                 /\ \A i \in 1..1 : <<s>>[i] = s
      OBVIOUS
    <3>3. blank \in Seq(TextSymbols) /\ Len(blank) = 1 /\ \A i \in 1..1 : blank[i] = " "
      BY <3>1, <3>2
    <3>. HIDE DEF blank
    <3>. QED  BY <3>1, <3>3 DEF Blank
  <2>2. Join(a, b) = first \o b
    BY <1>3 DEF Join
  <2>. HIDE DEF blank
  <2>3. first \in Seq(TextSymbols) /\ Len(first) = Len(a) + 1
    <3>1. a \o blank \in Seq(TextSymbols) /\ Len(a \o blank) = Len(a) + Len(blank)
      BY <1>1, <2>1, ConcatProperties
    <3>. QED  BY <2>1, <3>1
  <2>4. Ink(first) = Ink(a)
    <3>1. Ink(blank) = <<>>
      BY <2>1, InkBlank DEF ChunkTexts
    <3>2. Ink(a \o blank) = Ink(a) \o Ink(blank)
      BY <2>1, InkConcat DEF ChunkTexts
    <3>3. Ink(a) \o <<>> = Ink(a)
      BY InkType, ConcatEmptySeq DEF ChunkTexts
    <3>. QED  BY <3>1, <3>2, <3>3
  <2>. HIDE DEF first
  <2>5. first \o b \in Seq(TextSymbols) /\ Len(first \o b) = Len(first) + Len(b)
    BY <1>1, <2>3, ConcatProperties
  <2>6. Ink(first \o b) = Ink(first) \o Ink(b)
    BY <2>3, InkConcat DEF ChunkTexts
  <2>7. Len(first \o b) <= Len(a) + Len(b) + 1
    BY <1>1, <2>3, <2>5
  <2>. QED  BY <2>2, <2>4, <2>5, <2>6, <2>7 DEF ChunkTexts
<1>. QED  BY <1>2, <1>3

\* A group fits, or is a part that does not.
FitsOrPart(group, parts) ==
  Len(group) <= MaxLength \/ \E j \in 1..Len(parts) : group = parts[j]

GroupsWell(parts, grouped) ==
  /\ grouped \in [closed : Seq(ChunkTexts), last : ChunkTexts]
  /\ Ink(Concat(grouped.closed)) \o Ink(grouped.last) = Ink(Concat(parts))
  /\ \A i \in 1..Len(grouped.closed) : FitsOrPart(grouped.closed[i], parts)
  /\ FitsOrPart(grouped.last, parts)

LEMMA GroupedSound == \A parts \in Seq(ChunkTexts) : GroupsWell(parts, Grouped(parts))
<1>. DEFINE G == {parts \in Seq(ChunkTexts) : GroupsWell(parts, Grouped(parts))}
<1>0. MaxLength \in Nat \ {0} /\ \A t \in ChunkTexts : Len(t) \in Nat
  BY ChunkAssumption DEF ChunkTexts
<1>1. <<>> \in G
  <2>1. <<>> \in Seq(ChunkTexts) /\ <<>> \in ChunkTexts /\ Len(<<>>) = 0
    BY EmptySeq DEF ChunkTexts
  <2>2. <<>> \o <<>> = <<>>
    BY <2>1, ConcatEmptySeq
  <2>3. FitsOrPart(<<>>, <<>>)
    BY <1>0, <2>1 DEF FitsOrPart
  <2>4. Grouped(<<>>).closed = <<>> /\ Grouped(<<>>).last = <<>>
        /\ Grouped(<<>>) \in [closed : Seq(ChunkTexts), last : ChunkTexts]
    <3>. DEFINE none == <<>>
    <3>1. Grouped(none) = [closed |-> none, last |-> none]
      BY GroupedNone DEF NoGroups
    <3>2. none \in Seq(ChunkTexts) /\ none \in ChunkTexts
      BY <2>1
    <3>. HIDE DEF none
    <3>3. Grouped(none).closed = none /\ Grouped(none).last = none
          /\ Grouped(none) \in [closed : Seq(ChunkTexts), last : ChunkTexts]
      BY <3>1, <3>2
    <3>. QED  BY <3>3 DEF none
  <2>. DEFINE none == <<>>
              grouped == Grouped(none)
  <2>5. /\ none \in Seq(ChunkTexts) /\ Len(none) = 0
        /\ grouped.closed = none /\ grouped.last = none
        /\ grouped \in [closed : Seq(ChunkTexts), last : ChunkTexts]
        /\ none \o none = none /\ Concat(none) = none /\ Ink(none) = none
        /\ FitsOrPart(none, none)
    BY <2>1, <2>2, <2>3, <2>4, ConcatNone, InkNone
  <2>. HIDE DEF none, grouped
  <2>6. \A i \in 1..Len(grouped.closed) : FitsOrPart(grouped.closed[i], none)
    BY <2>5
  <2>. QED  BY <2>5, <2>6 DEF GroupsWell, grouped, none
<1>2. ASSUME NEW parts \in Seq(ChunkTexts), parts \in G, NEW x \in ChunkTexts
      PROVE  Append(parts, x) \in G
  <2>. DEFINE more == Append(parts, x)
              old == Grouped(parts)
              new == Grouped(more)
  <2>1. /\ more \in Seq(ChunkTexts) /\ Len(more) = Len(parts) + 1 /\ Len(parts) \in Nat
        /\ \A i \in 1..Len(parts) : more[i] = parts[i]
        /\ more[Len(parts) + 1] = x
    BY AppendProperties
  <2>2. new = AddPart(old, x) /\ Concat(more) = Concat(parts) \o x
    BY GroupedOne, ConcatOne
  <2>. HIDE DEF more, new, old
  <2>3. /\ old \in [closed : Seq(ChunkTexts), last : ChunkTexts]
        /\ Ink(Concat(old.closed)) \o Ink(old.last) = Ink(Concat(parts))
        /\ \A i \in 1..Len(old.closed) : FitsOrPart(old.closed[i], parts)
        /\ FitsOrPart(old.last, parts)
    BY <1>2 DEF GroupsWell, old
  <2>4. \A group : FitsOrPart(group, parts) => FitsOrPart(group, more)
    BY <2>1 DEF FitsOrPart
  <2>5. FitsOrPart(x, more)
    <3>1. Len(parts) + 1 \in 1..Len(more)
      BY <2>1
    <3>. QED  BY <2>1, <3>1 DEF FitsOrPart
  <2>. DEFINE closed == old.closed
              last == old.last
  <2>6. closed \in Seq(ChunkTexts) /\ last \in ChunkTexts
    BY <2>3
  <2>7. Ink(Concat(more)) = (Ink(Concat(closed)) \o Ink(last)) \o Ink(x)
    <3>1. Concat(parts) \in ChunkTexts
      BY ConcatType DEF ChunkTexts
    <3>2. Ink(Concat(parts) \o x) = Ink(Concat(parts)) \o Ink(x)
      BY <3>1, InkConcat
    <3>. QED  BY <2>2, <2>3, <3>2
  <2>8. /\ Concat(closed) \in ChunkTexts /\ Ink(Concat(closed)) \in Seq(TextSymbols)
        /\ Ink(last) \in Seq(TextSymbols) /\ Ink(x) \in Seq(TextSymbols)
    <3>1. Concat(closed) \in ChunkTexts
      BY <2>6, ConcatType DEF ChunkTexts
    <3>. QED  BY <2>6, <3>1, InkType DEF ChunkTexts
  <2>9. CASE Len(last) + Len(x) + 1 <= MaxLength
    <3>1. new = [old EXCEPT !.last = Join(last, x)]
      BY <2>2, <2>9 DEF AddPart
    <3>2. /\ Join(last, x) \in ChunkTexts /\ Len(Join(last, x)) <= Len(last) + Len(x) + 1
          /\ Ink(Join(last, x)) = Ink(last) \o Ink(x)
      BY <2>6, JoinSound
    <3>3. /\ new \in [closed : Seq(ChunkTexts), last : ChunkTexts]
          /\ new.closed = closed /\ new.last = Join(last, x)
      BY <2>3, <3>1, <3>2
    <3>4. Ink(Concat(new.closed)) \o Ink(new.last) = Ink(Concat(more))
      <4>1. (Ink(Concat(closed)) \o Ink(last)) \o Ink(x) = Ink(Concat(closed)) \o (Ink(last) \o Ink(x))
        BY <2>8, ConcatAssociative
      <4>. HIDE DEF closed, last
      <4>. QED  BY <2>7, <3>2, <3>3, <4>1
    <3>5. FitsOrPart(new.last, more)
      <4>1. Len(Join(last, x)) <= MaxLength
        <5>1. Len(Join(last, x)) \in Nat /\ Len(last) \in Nat /\ Len(x) \in Nat
          BY <1>0, <2>6, <3>2
        <5>. HIDE DEF last
        <5>. QED  BY <1>0, <2>9, <3>2, <5>1
      <4>. QED  BY <3>3, <4>1 DEF FitsOrPart
    <3>6. \A i \in 1..Len(new.closed) : FitsOrPart(new.closed[i], more)
      BY <2>3, <2>4, <3>3
    <3>. QED  BY <2>1, <3>3, <3>4, <3>5, <3>6 DEF GroupsWell, more, new
  <2>10. CASE ~(Len(last) + Len(x) + 1 <= MaxLength)
    <3>1. new = [closed |-> Append(closed, last), last |-> x]
      BY <2>2, <2>10 DEF AddPart
    <3>2. /\ Append(closed, last) \in Seq(ChunkTexts)
          /\ Len(Append(closed, last)) = Len(closed) + 1 /\ Len(closed) \in Nat
          /\ \A i \in 1..Len(closed) : Append(closed, last)[i] = closed[i]
          /\ Append(closed, last)[Len(closed) + 1] = last
      BY <2>6, AppendProperties
    <3>3. new \in [closed : Seq(ChunkTexts), last : ChunkTexts]
      BY <3>1, <3>2
    <3>4. Ink(Concat(new.closed)) \o Ink(new.last) = Ink(Concat(more))
      <4>1. Concat(Append(closed, last)) = Concat(closed) \o last
        BY <2>6, ConcatOne
      <4>2. Ink(Concat(closed) \o last) = Ink(Concat(closed)) \o Ink(last)
        BY <2>6, <2>8, InkConcat
      <4>. QED  BY <2>7, <3>1, <4>1, <4>2
    <3>5. FitsOrPart(new.last, more)
      BY <2>5, <3>1
    <3>6. ASSUME NEW i \in 1..Len(new.closed) PROVE FitsOrPart(new.closed[i], more)
      <4>1. new.closed = Append(closed, last)
        BY <3>1
      <4>2. CASE i = Len(closed) + 1
        <5>1. new.closed[i] = last
          BY <3>2, <4>1, <4>2
        <5>. QED  BY <2>3, <2>4, <5>1
      <4>3. CASE i # Len(closed) + 1
        <5>1. i \in 1..Len(closed)
          <6>. HIDE DEF closed, last
          <6>. QED  BY <3>2, <4>1, <4>3
        <5>2. new.closed[i] = closed[i]
          BY <3>2, <4>1, <5>1
        <5>. QED  BY <2>3, <2>4, <5>1, <5>2
      <4>. QED  BY <4>2, <4>3
    <3>. QED  BY <2>1, <3>3, <3>4, <3>5, <3>6 DEF GroupsWell, more, new
  <2>. QED  BY <2>9, <2>10
<1>. HIDE DEF G
<1>3. \A parts \in Seq(ChunkTexts) : parts \in G
  BY <1>1, <1>2, SequenceInduction
<1>. QED  BY <1>3 DEF G

LEMMA GroupsSound ==
  ASSUME NEW parts \in Seq(ChunkTexts)
  PROVE  /\ Groups(parts) \in Seq(ChunkTexts)
         /\ Ink(Concat(Groups(parts))) = Ink(Concat(parts))
         /\ \A i \in 1..Len(Groups(parts)) : FitsOrPart(Groups(parts)[i], parts)
<1>. DEFINE closed == Grouped(parts).closed
            last == Grouped(parts).last
            groups == Groups(parts)
<1>1. /\ closed \in Seq(ChunkTexts) /\ last \in ChunkTexts
      /\ Ink(Concat(closed)) \o Ink(last) = Ink(Concat(parts))
      /\ \A i \in 1..Len(closed) : FitsOrPart(closed[i], parts)
      /\ FitsOrPart(last, parts)
  BY GroupedSound DEF GroupsWell
<1>2. groups = IF last = <<>> THEN closed ELSE Append(closed, last)
  BY DEF Groups, Grouped, NoGroups
<1>. HIDE DEF closed, last, groups
<1>3. Concat(closed) \in ChunkTexts /\ Ink(Concat(closed)) \in Seq(TextSymbols)
  <2>1. Concat(closed) \in ChunkTexts
    BY <1>1, ConcatType DEF ChunkTexts
  <2>. QED  BY <2>1, InkType DEF ChunkTexts
<1>4. CASE last = <<>>
  <2>1. Ink(Concat(closed)) \o Ink(last) = Ink(Concat(closed))
    BY <1>3, <1>4, InkNone, ConcatEmptySeq
  <2>. QED  BY <1>1, <1>2, <1>4, <2>1 DEF groups
<1>5. CASE last # <<>>
  <2>1. /\ groups \in Seq(ChunkTexts) /\ Len(groups) = Len(closed) + 1 /\ Len(closed) \in Nat
        /\ \A i \in 1..Len(closed) : groups[i] = closed[i]
        /\ groups[Len(closed) + 1] = last
    BY <1>1, <1>2, <1>5, AppendProperties
  <2>2. Concat(groups) = Concat(closed) \o last
    BY <1>1, <1>2, <1>5, ConcatOne
  <2>3. Ink(Concat(groups)) = Ink(Concat(parts))
    <3>1. Ink(Concat(closed) \o last) = Ink(Concat(closed)) \o Ink(last)
      BY <1>1, <1>3, InkConcat
    <3>. QED  BY <1>1, <2>2, <3>1
  <2>4. ASSUME NEW i \in 1..Len(groups) PROVE FitsOrPart(groups[i], parts)
    <3>1. CASE i = Len(closed) + 1
      BY <1>1, <2>1, <3>1
    <3>2. CASE i # Len(closed) + 1
      <4>1. i \in 1..Len(closed)
        BY <2>1, <3>2
      <4>. QED  BY <1>1, <2>1, <4>1
    <3>. QED  BY <3>1, <3>2
  <2>. QED  BY <2>1, <2>3, <2>4 DEF groups
<1>. QED  BY <1>4, <1>5

-----------------------------------------------------------------------------
\* recursive_chunk ends: what it chunks in turn is shorter.

ChunkedBy(f, whole) ==
  LET t == Strip(whole)
      groups == Groups(Parts(t))
  IN  IF Len(t) <= MaxLength THEN <<t>>
      ELSE IF Len(Parts(t)) > 1
      THEN Concat([i \in 1..Len(groups) |-> f[groups[i]]])
      ELSE HardSplit(t)

\* f chunks the texts of D.
Chunks(f, D) == f = [w \in D |-> ChunkedBy(f, w)]

LEMMA GroupsShorter ==
  ASSUME NEW w \in ChunkTexts, ~(Len(Strip(w)) <= MaxLength), Len(Parts(Strip(w))) > 1
  PROVE  LET groups == Groups(Parts(Strip(w)))
         IN  /\ groups \in Seq(ChunkTexts) /\ Ink(Concat(groups)) = Ink(w)
             /\ \A i \in 1..Len(groups) : groups[i] \in ChunkTexts /\ Len(groups[i]) < Len(w)
<1>. DEFINE t == Strip(w)
            parts == Parts(t)
            groups == Groups(parts)
<1>1. t \in ChunkTexts /\ Len(t) <= Len(w) /\ Ink(t) = Ink(w)
  BY StripSound
<1>2. ~(Len(t) <= MaxLength) /\ Len(parts) > 1
  OBVIOUS
<1>. HIDE DEF t
<1>3. /\ parts \in Seq(ChunkTexts) /\ Ink(Concat(parts)) = Ink(t)
      /\ \A i \in 1..Len(parts) : Len(parts[i]) < Len(t)
  BY <1>1, <1>2, PartsSound
<1>. HIDE DEF parts
<1>4. /\ groups \in Seq(ChunkTexts) /\ Ink(Concat(groups)) = Ink(Concat(parts))
      /\ \A i \in 1..Len(groups) : FitsOrPart(groups[i], parts)
  BY <1>3, GroupsSound
<1>. HIDE DEF groups
<1>5. MaxLength \in Nat /\ \A u \in ChunkTexts : Len(u) \in Nat
  BY ChunkAssumption DEF ChunkTexts
<1>6. ASSUME NEW i \in 1..Len(groups) PROVE groups[i] \in ChunkTexts /\ Len(groups[i]) < Len(w)
  <2>1. groups[i] \in ChunkTexts
    BY <1>4
  <2>2. Len(groups[i]) < Len(t)
    <3>1. CASE Len(groups[i]) <= MaxLength
      BY <1>1, <1>2, <1>5, <2>1, <3>1
    <3>2. CASE \E j \in 1..Len(parts) : groups[i] = parts[j]
      BY <1>3, <3>2
    <3>. QED  BY <1>4, <3>1, <3>2 DEF FitsOrPart
  <2>. QED  BY <1>1, <1>5, <2>1, <2>2
<1>. QED  BY <1>1, <1>3, <1>4, <1>6 DEF t, parts, groups

LEMMA ChunkedByShorter ==
  ASSUME NEW w \in ChunkTexts, NEW f, NEW g,
         \A u \in ChunkTexts : Len(u) < Len(w) => f[u] = g[u]
  PROVE  ChunkedBy(f, w) = ChunkedBy(g, w)
<1>. DEFINE t == Strip(w)
            groups == Groups(Parts(t))
<1>1. CASE Len(t) <= MaxLength
  BY <1>1 DEF ChunkedBy
<1>2. CASE ~(Len(t) <= MaxLength) /\ Len(Parts(t)) > 1
  <2>1. \A i \in 1..Len(groups) : groups[i] \in ChunkTexts /\ Len(groups[i]) < Len(w)
    BY <1>2, GroupsShorter
  <2>2. /\ ChunkedBy(f, w) = Concat([i \in 1..Len(groups) |-> f[groups[i]]])
        /\ ChunkedBy(g, w) = Concat([i \in 1..Len(groups) |-> g[groups[i]]])
    BY <1>2 DEF ChunkedBy
  <2>. HIDE DEF groups
  <2>3. [i \in 1..Len(groups) |-> f[groups[i]]] = [i \in 1..Len(groups) |-> g[groups[i]]]
    BY <2>1
  <2>. QED  BY <2>2, <2>3
<1>3. CASE ~(Len(t) <= MaxLength) /\ ~(Len(Parts(t)) > 1)
  BY <1>3 DEF ChunkedBy
<1>. QED  BY <1>1, <1>2, <1>3

Shorter(n) == {w \in ChunkTexts : Len(w) < n}

LEMMA ChunksAgree ==
  ASSUME NEW m \in Nat, NEW n \in Nat, NEW f, Chunks(f, Shorter(m)), NEW g, Chunks(g, Shorter(n))
  PROVE  \A w \in ChunkTexts : Len(w) < m /\ Len(w) < n => f[w] = g[w]
<1>. DEFINE wrong == {k \in Nat : \E w \in ChunkTexts :
                        Len(w) = k /\ Len(w) < m /\ Len(w) < n /\ f[w] # g[w]}
<1>0. \A w \in ChunkTexts : Len(w) \in Nat
  BY DEF ChunkTexts
<1>. SUFFICES ASSUME wrong # {} PROVE FALSE
  BY <1>0
<1>1. PICK k \in wrong : \A j \in wrong : k <= j
  <2>1. wrong \in SUBSET Nat
    OBVIOUS
  <2>. HIDE DEF wrong
  <2>. QED  BY <2>1, InkFold!LeastNatural
<1>2. PICK w \in ChunkTexts : Len(w) = k /\ Len(w) < m /\ Len(w) < n /\ f[w] # g[w]
  BY <1>1
<1>3. ASSUME NEW u \in ChunkTexts, Len(u) < Len(w), Len(u) < m, Len(u) < n PROVE f[u] = g[u]
  <2>. SUFFICES ASSUME f[u] # g[u] PROVE FALSE
    OBVIOUS
  <2>1. Len(u) \in wrong
    BY <1>0, <1>3
  <2>2. k <= Len(u)
    BY <1>1, <2>1
  <2>. QED  BY <1>0, <1>2, <1>3, <2>2
<1>. HIDE DEF wrong
<1>4. f[w] = ChunkedBy(f, w) /\ g[w] = ChunkedBy(g, w)
  BY <1>2 DEF Chunks, Shorter
<1>5. \A u \in ChunkTexts : Len(u) < Len(w) => Len(u) < m /\ Len(u) < n
  BY <1>0, <1>2
<1>6. ChunkedBy(f, w) = ChunkedBy(g, w)
  BY <1>3, <1>5, ChunkedByShorter
<1>. QED  BY <1>2, <1>4, <1>6

LEMMA ChunksExist == \A n \in Nat : \E f : Chunks(f, Shorter(n))
<1>. DEFINE wrong == {n \in Nat : ~\E f : Chunks(f, Shorter(n))}
<1>0. \A w \in ChunkTexts : Len(w) \in Nat
  BY DEF ChunkTexts
<1>. SUFFICES ASSUME wrong # {} PROVE FALSE
  OBVIOUS
<1>1. PICK n \in wrong : \A m \in wrong : n <= m
  <2>1. wrong \in SUBSET Nat
    OBVIOUS
  <2>. HIDE DEF wrong
  <2>. QED  BY <2>1, InkFold!LeastNatural
<1>2. n \in Nat /\ ~\E f : Chunks(f, Shorter(n))
  BY <1>1
<1>3. n # 0
  <2>1. Shorter(0) = {}
    BY <1>0 DEF Shorter
  <2>2. Chunks([w \in Shorter(0) |-> <<>>], Shorter(0))
    BY <2>1 DEF Chunks
  <2>. QED  BY <1>2, <2>2
<1>4. n - 1 \in Nat /\ n - 1 \notin wrong
  BY <1>1, <1>2, <1>3
<1>5. PICK f : Chunks(f, Shorter(n - 1))
  BY <1>4
<1>. HIDE DEF wrong
<1>. DEFINE g == [w \in Shorter(n) |-> ChunkedBy(f, w)]
<1>6. ASSUME NEW w \in Shorter(n) PROVE g[w] = ChunkedBy(g, w)
  <2>1. w \in ChunkTexts /\ Len(w) < n
    BY DEF Shorter
  <2>2. ASSUME NEW u \in ChunkTexts, Len(u) < Len(w) PROVE f[u] = g[u]
    <3>1. u \in Shorter(n - 1) /\ u \in Shorter(n)
      BY <1>0, <1>2, <2>1, <2>2 DEF Shorter
    <3>2. f[u] = ChunkedBy(f, u)
      BY <1>5, <3>1 DEF Chunks
    <3>3. g[u] = ChunkedBy(f, u)
      BY <3>1
    <3>. QED  BY <3>2, <3>3
  <2>. DEFINE G == g
  <2>3. G[w] = ChunkedBy(f, w)
    OBVIOUS
  <2>4. \A u \in ChunkTexts : Len(u) < Len(w) => f[u] = G[u]
    BY <2>2
  <2>. HIDE DEF G
  <2>5. ChunkedBy(f, w) = ChunkedBy(G, w)
    BY <2>1, <2>4, ChunkedByShorter
  <2>. QED  BY <2>3, <2>5 DEF G
<1>7. Chunks(g, Shorter(n))
  <2>1. g = [w \in Shorter(n) |-> g[w]]
    OBVIOUS
  <2>. HIDE DEF g
  <2>. QED  BY <1>6, <2>1 DEF Chunks
<1>. QED  BY <1>2, <1>7

LEMMA RecursiveChunkIs ==
  \A w \in ChunkTexts : RecursiveChunk[w] = ChunkedBy(RecursiveChunk, w)
<1>. DEFINE of(n) == CHOOSE f : Chunks(f, Shorter(n))
            whole == [w \in ChunkTexts |-> of(Len(w) + 1)[w]]
<1>0. \A w \in ChunkTexts : Len(w) \in Nat
  BY DEF ChunkTexts
<1>1. \A n \in Nat : Chunks(of(n), Shorter(n))
  BY ChunksExist
<1>. HIDE DEF of
<1>2. ASSUME NEW w \in ChunkTexts PROVE whole[w] = ChunkedBy(whole, w)
  <2>. DEFINE n == Len(w) + 1
              h == of(n)
              W == whole
  <2>1. n \in Nat /\ w \in Shorter(n) /\ Chunks(h, Shorter(n))
    BY <1>0, <1>1 DEF Shorter
  <2>2. W[w] = h[w]
    OBVIOUS
  <2>3. \A u \in ChunkTexts : W[u] = of(Len(u) + 1)[u]
    OBVIOUS
  <2>. HIDE DEF h, W
  <2>4. h[w] = ChunkedBy(h, w)
    <3>. HIDE DEF n
    <3>. QED  BY <2>1 DEF Chunks
  <2>5. ASSUME NEW u \in ChunkTexts, Len(u) < Len(w) PROVE h[u] = W[u]
    <3>. DEFINE m == Len(u) + 1
    <3>1. m \in Nat /\ n \in Nat /\ Len(u) < m /\ Len(u) < n
      BY <1>0, <2>5
    <3>2. Chunks(of(m), Shorter(m)) /\ Chunks(h, Shorter(n))
      BY <1>1, <2>1, <3>1
    <3>. HIDE DEF m, n
    <3>3. of(m)[u] = h[u]
      BY <3>1, <3>2, ChunksAgree
    <3>. QED  BY <2>3, <3>3 DEF m
  <2>6. ChunkedBy(h, w) = ChunkedBy(W, w)
    BY <2>5, ChunkedByShorter
  <2>. QED  BY <2>2, <2>4, <2>6 DEF W
<1>3. Chunks(whole, ChunkTexts)
  <2>1. whole = [w \in ChunkTexts |-> whole[w]]
    OBVIOUS
  <2>. HIDE DEF whole
  <2>. QED  BY <1>2, <2>1 DEF Chunks
<1>. HIDE DEF whole
<1>4. Chunks(CHOOSE f : Chunks(f, ChunkTexts), ChunkTexts)
  BY <1>3
<1>5. RecursiveChunk = CHOOSE f : Chunks(f, ChunkTexts)
  BY DEF RecursiveChunk, Chunks, ChunkedBy, ChunkTexts
<1>6. Chunks(RecursiveChunk, ChunkTexts)
  BY <1>4, <1>5
<1>. QED  BY <1>6 DEF Chunks

\* What recursive_chunk makes of a text.
ChunksWell(t, made) ==
  /\ made \in Seq(ChunkTexts)
  /\ \A i \in 1..Len(made) : Len(made[i]) <= MaxLength
  /\ Ink(Concat(made)) = Ink(t)

\* Lists of chunks, one for each of some texts, put together.
LEMMA ChunksTogether ==
  ASSUME NEW texts \in Seq(ChunkTexts), NEW lists \in Seq(Seq(ChunkTexts)),
         Len(lists) = Len(texts),
         \A i \in 1..Len(texts) : ChunksWell(texts[i], lists[i])
  PROVE  /\ Concat(lists) \in Seq(ChunkTexts)
         /\ \A i \in 1..Len(Concat(lists)) : Len(Concat(lists)[i]) <= MaxLength
         /\ Ink(Concat(Concat(lists))) = Ink(Concat(texts))
<1>. DEFINE start(s) == Len(s) <= Len(texts) /\ \A i \in 1..Len(s) : s[i] = texts[i]
            first(n) == Concat(SubSeq(lists, 1, n))
            Short == {c \in ChunkTexts : Len(c) <= MaxLength}
            G == {s \in Seq(ChunkTexts) :
                    start(s) => /\ first(Len(s)) \in Seq(Short)
                                /\ Ink(Concat(first(Len(s)))) = Ink(Concat(s))}
<1>1. <<>> \in G
  <2>1. <<>> \in Seq(ChunkTexts) /\ <<>> \in Seq(Short) /\ Len(<<>>) = 0
    BY EmptySeq
  <2>2. SubSeq(lists, 1, 0) = <<>>
    BY SubSeqEmpty
  <2>. QED  BY <2>1, <2>2, ConcatNone
<1>2. ASSUME NEW s \in Seq(ChunkTexts), s \in G, NEW x \in ChunkTexts PROVE Append(s, x) \in G
  <2>. DEFINE more == Append(s, x)
              k == Len(s) + 1
  <2>1. /\ more \in Seq(ChunkTexts) /\ Len(more) = k /\ Len(s) \in Nat
        /\ \A i \in 1..Len(s) : more[i] = s[i]
        /\ more[k] = x
    BY AppendProperties
  <2>2. Concat(more) = Concat(s) \o x
    BY ConcatOne
  <2>. HIDE DEF more
  <2>3. ASSUME start(more)
        PROVE  first(k) \in Seq(Short) /\ Ink(Concat(first(k))) = Ink(Concat(more))
    <3>1. Len(texts) \in Nat /\ k \in 1..Len(texts) /\ k \in 1..Len(lists) /\ k - 1 = Len(s)
      BY <2>1, <2>3
    <3>2. start(s)
      <4>1. ASSUME NEW i \in 1..Len(s) PROVE s[i] = texts[i]
        <5>1. i \in 1..Len(more)
          BY <2>1
        <5>2. more[i] = s[i] /\ more[i] = texts[i]
          BY <2>1, <2>3, <5>1
        <5>. QED  BY <5>2
      <4>2. Len(s) <= Len(texts)
        BY <3>1, <2>1
      <4>. QED  BY <4>1, <4>2
    <3>3. x = texts[k]
      <4>1. k \in 1..Len(more)
        BY <2>1
      <4>. HIDE DEF k
      <4>. QED  BY <2>1, <2>3, <4>1
    <3>4. first(Len(s)) \in Seq(Short) /\ Ink(Concat(first(Len(s)))) = Ink(Concat(s))
      BY <1>2, <3>2
    <3>. HIDE DEF k
    <3>5. /\ lists[k] \in Seq(ChunkTexts) /\ Ink(Concat(lists[k])) = Ink(x)
          /\ lists[k] \in Seq(Short)
      <4>1. ChunksWell(texts[k], lists[k])
        BY <3>1
      <4>. DEFINE l == lists[k]
      <4>2. l \in Seq(ChunkTexts) /\ \A i \in 1..Len(l) : Len(l[i]) <= MaxLength
        BY <4>1 DEF ChunksWell
      <4>. HIDE DEF l
      <4>3. l \in Seq(Short)
        <5>1. \A i \in 1..Len(l) : l[i] \in Short
          BY <4>2
        <5>2. Len(l) \in Nat /\ l = [i \in 1..Len(l) |-> l[i]]
          BY <4>2
        <5>. HIDE DEF Short
        <5>3. [i \in 1..Len(l) |-> l[i]] \in Seq(Short)
          BY <5>1, <5>2
        <5>. QED  BY <5>2, <5>3
      <4>. QED  BY <3>3, <4>1, <4>2, <4>3 DEF ChunksWell, l
    <3>6. first(k) = first(Len(s)) \o lists[k]
      <4>1. SubSeq(lists, 1, k) = Append(SubSeq(lists, 1, k - 1), lists[k])
            /\ SubSeq(lists, 1, k - 1) \in Seq(Seq(ChunkTexts))
        <5>1. k - 1 \in 0..Len(lists) /\ 1 \in 1..(Len(lists) + 1) /\ 1 \in 1..Len(lists) /\ k \in 1..Len(lists)
          BY <3>1
        <5>2. SubSeq(lists, 1, k - 1) \in Seq(Seq(ChunkTexts)) /\ lists[k] \in Seq(ChunkTexts)
          BY <5>1, PartOf
        <5>3. SubSeq(lists, 1, k) = SubSeq(lists, 1, k - 1) \o <<lists[k]>>
          BY <5>1, SubSeqRecursiveSecond
        <5>. QED  BY <5>2, <5>3, AppendIsConcat
      <4>2. Concat(Append(SubSeq(lists, 1, k - 1), lists[k])) = Concat(SubSeq(lists, 1, k - 1)) \o lists[k]
        BY <4>1, ConcatOne
      <4>. QED  BY <3>1, <4>1, <4>2
    <3>. DEFINE before == first(Len(s))
                here == lists[k]
    <3>7. before \in Seq(Short) /\ here \in Seq(Short)
      BY <3>4, <3>5
    <3>. HIDE DEF before, here, first
    <3>8. before \in Seq(ChunkTexts) /\ here \in Seq(ChunkTexts)
      <4>1. Short \subseteq ChunkTexts
        OBVIOUS
      <4>. HIDE DEF Short
      <4>. QED  BY <3>7, <4>1, SeqMonotonic
    <3>9. before \o here \in Seq(Short)
      <4>. HIDE DEF Short
      <4>. QED  BY <3>7, ConcatProperties
    <3>10. Concat(before \o here) = Concat(before) \o Concat(here)
      BY <3>8, ConcatOfTwo DEF ChunkTexts
    <3>11. Concat(before) \in ChunkTexts /\ Concat(here) \in ChunkTexts /\ Concat(s) \in ChunkTexts
      <4>1. Concat(before) \in ChunkTexts
        BY <3>8, ConcatType DEF ChunkTexts
      <4>2. Concat(here) \in ChunkTexts
        BY <3>8, ConcatType DEF ChunkTexts
      <4>3. Concat(s) \in ChunkTexts
        BY ConcatType DEF ChunkTexts
      <4>. QED  BY <4>1, <4>2, <4>3
    <3>12. Ink(Concat(before) \o Concat(here)) = Ink(Concat(before)) \o Ink(Concat(here))
      BY <3>11, InkConcat
    <3>13. Ink(Concat(s) \o x) = Ink(Concat(s)) \o Ink(x)
      BY <3>11, InkConcat
    <3>14. Ink(Concat(before)) = Ink(Concat(s)) /\ Ink(Concat(here)) = Ink(x) /\ first(k) = before \o here
      BY <3>4, <3>5, <3>6 DEF before, here
    <3>. QED  BY <2>2, <3>9, <3>10, <3>12, <3>13, <3>14
  <2>. QED  BY <2>1, <2>3 DEF more
<1>3. \A s \in Seq(ChunkTexts) : s \in G
  <2>. HIDE DEF G
  <2>. QED  BY <1>1, <1>2, SequenceInduction
<1>4. start(texts)
  OBVIOUS
<1>5. first(Len(texts)) \in Seq(Short) /\ Ink(Concat(first(Len(texts)))) = Ink(Concat(texts))
  BY <1>3, <1>4
<1>6. first(Len(texts)) = Concat(lists)
  BY SubSeqFull
<1>. HIDE DEF start, first, G
<1>. DEFINE all == Concat(lists)
<1>7. all \in Seq(Short) /\ Ink(Concat(all)) = Ink(Concat(texts))
  BY <1>5, <1>6
<1>. HIDE DEF all
<1>8. all \in Seq(ChunkTexts) /\ \A i \in 1..Len(all) : all[i] \in Short
  <2>1. Short \subseteq ChunkTexts
    OBVIOUS
  <2>. HIDE DEF Short
  <2>. QED  BY <1>7, <2>1, SeqMonotonic
<1>. QED  BY <1>7, <1>8 DEF all

\* However a text is built, recursive_chunk makes chunks of it that fit, and
\* that have all of its ink.
THEOREM RecursiveChunkSound == \A w \in ChunkTexts : ChunksWell(w, RecursiveChunk[w])
<1>. DEFINE wrong == {n \in Nat : \E w \in ChunkTexts :
                        Len(w) = n /\ ~ChunksWell(w, RecursiveChunk[w])}
<1>0. /\ \A w \in ChunkTexts : Len(w) \in Nat /\ w \in Seq(TextSymbols)
      /\ MaxLength \in Nat
  BY ChunkAssumption DEF ChunkTexts
<1>. SUFFICES ASSUME wrong # {} PROVE FALSE
  BY <1>0
<1>1. PICK n \in wrong : \A m \in wrong : n <= m
  <2>1. wrong \in SUBSET Nat
    OBVIOUS
  <2>. HIDE DEF wrong
  <2>. QED  BY <2>1, InkFold!LeastNatural
<1>2. PICK w \in ChunkTexts : Len(w) = n /\ ~ChunksWell(w, RecursiveChunk[w])
  BY <1>1
<1>3. ASSUME NEW u \in ChunkTexts, Len(u) < Len(w) PROVE ChunksWell(u, RecursiveChunk[u])
  <2>. SUFFICES ASSUME ~ChunksWell(u, RecursiveChunk[u]) PROVE FALSE
    OBVIOUS
  <2>1. Len(u) \in wrong
    BY <1>0
  <2>2. n <= Len(u)
    BY <1>1, <2>1
  <2>. QED  BY <1>0, <1>2, <1>3, <2>2
<1>. HIDE DEF wrong
<1>4. RecursiveChunk[w] = ChunkedBy(RecursiveChunk, w)
  BY RecursiveChunkIs
<1>. DEFINE t == Strip(w)
            groups == Groups(Parts(t))
<1>5. t \in ChunkTexts /\ Ink(t) = Ink(w)
  BY StripSound
<1>6. CASE Len(t) <= MaxLength
  <2>1. RecursiveChunk[w] = <<t>>
    BY <1>4, <1>6 DEF ChunkedBy
  <2>. HIDE DEF t
  <2>2. <<t>> \in Seq(ChunkTexts) /\ Len(<<t>>) = 1 /\ \A i \in 1..1 : <<t>>[i] = t
    BY <1>5
  <2>3. Concat(<<t>>) = t
    <3>1. <<t>> = Append(<<>>, t) /\ <<>> \in Seq(ChunkTexts)
      BY EmptySeq
    <3>2. Concat(Append(<<>>, t)) = Concat(<<>>) \o t
      BY <3>1, ConcatOne
    <3>3. <<>> \o t = t
      BY <1>0, <1>5, ConcatEmptySeq
    <3>. QED  BY <3>1, <3>2, <3>3, ConcatNone
  <2>. DEFINE made == <<t>>
  <2>4. made \in Seq(ChunkTexts) /\ (\A i \in 1..Len(made) : made[i] = t) /\ Concat(made) = t
    BY <2>2, <2>3
  <2>. HIDE DEF made
  <2>5. ChunksWell(w, made)
    BY <1>5, <1>6, <2>4 DEF ChunksWell
  <2>. QED  BY <1>2, <2>1, <2>5 DEF made
<1>7. CASE ~(Len(t) <= MaxLength) /\ Len(Parts(t)) > 1
  <2>1. /\ groups \in Seq(ChunkTexts) /\ Ink(Concat(groups)) = Ink(w)
        /\ \A i \in 1..Len(groups) : groups[i] \in ChunkTexts /\ Len(groups[i]) < Len(w)
    BY <1>7, GroupsShorter
  <2>. DEFINE lists == [i \in 1..Len(groups) |-> RecursiveChunk[groups[i]]]
  <2>2. RecursiveChunk[w] = Concat(lists)
    BY <1>4, <1>7 DEF ChunkedBy
  <2>. HIDE DEF groups
  <2>3. \A i \in 1..Len(groups) : ChunksWell(groups[i], RecursiveChunk[groups[i]])
    BY <1>3, <2>1
  <2>4. lists \in Seq(Seq(ChunkTexts)) /\ Len(lists) = Len(groups)
        /\ \A i \in 1..Len(groups) : lists[i] = RecursiveChunk[groups[i]]
    <3>1. \A i \in 1..Len(groups) : RecursiveChunk[groups[i]] \in Seq(ChunkTexts)
      BY <2>3 DEF ChunksWell
    <3>2. Len(groups) \in Nat
      BY <2>1
    <3>. QED  BY <3>1, <3>2
  <2>. HIDE DEF lists
  <2>5. /\ Concat(lists) \in Seq(ChunkTexts)
        /\ \A i \in 1..Len(Concat(lists)) : Len(Concat(lists)[i]) <= MaxLength
        /\ Ink(Concat(Concat(lists))) = Ink(Concat(groups))
    BY <2>1, <2>3, <2>4, ChunksTogether
  <2>6. ChunksWell(w, Concat(lists))
    BY <2>1, <2>5 DEF ChunksWell
  <2>. QED  BY <1>2, <2>2, <2>6
<1>8. CASE ~(Len(t) <= MaxLength) /\ ~(Len(Parts(t)) > 1)
  <2>1. RecursiveChunk[w] = HardSplit(t)
    BY <1>4, <1>8 DEF ChunkedBy
  <2>2. ChunksWell(w, HardSplit(t))
    <3>. HIDE DEF t
    <3>. QED  BY <1>5, HardSplitSound DEF ChunksWell
  <2>. QED  BY <1>2, <2>1, <2>2
<1>. QED  BY <1>6, <1>7, <1>8

-----------------------------------------------------------------------------
\* From the grouping of sentences to the chunks of a document.

\* A chunk has a sentence in one piece.
Holds(chunk, s) ==
  \E k \in 0..Len(chunk) - Len(s) : SubSeq(chunk, k + 1, k + Len(s)) = s

\* One of these fits, and has the sentence in one piece.
Kept(made, s) ==
  \E j \in 1..Len(made) : Len(made[j]) <= MaxLength /\ Holds(made[j], s)

\* The groups that semantic_chunk has made of the first n sentences of a text:
\* none is empty, one that is too long is a sentence, and every sentence that
\* fits is kept.
GroupsKeep(sentences, n, groups) ==
  /\ groups \in Seq(ChunkTexts)
  /\ \A j \in 1..Len(groups) : groups[j] # <<>> /\ FitsOrPart(groups[j], sentences)
  /\ \A i \in 1..n :
       Len(sentences[i]) <= MaxLength /\ sentences[i] # <<>> => Kept(groups, sentences[i])

\* chunks, and the current chunk when there is one.
WithCurrent == IF current = <<>> THEN chunks ELSE Append(chunks, current)

\* The sentences that are still waiting are the last ones of the text, what is
\* before them is in the groups, and nothing but white space is lost.
GroupingInv ==
  \E n \in 0..Len(Sentences(Strip(text))) :
    /\ waiting = SubSeq(Sentences(Strip(text)), n + 1, Len(Sentences(Strip(text))))
    /\ GroupsKeep(Sentences(Strip(text)), n, WithCurrent)
    /\ Ink(Concat(WithCurrent)) \o Ink(Concat(waiting)) = Ink(text)

ChunkingInv ==
  /\ text \in Texts /\ entry \in {"semantic_chunk", "recursive_chunk"}
  /\ chunks \in Seq(ChunkTexts) /\ current \in ChunkTexts
  /\ entry = "semantic_chunk" /\ ~chunked => GroupingInv
  /\ entry = "semantic_chunk" /\ chunked => waiting = <<>>
  /\ ChunksAreSound

\* What a part of a text has, the text has.
LEMMA HoldsMore ==
  ASSUME NEW a \in ChunkTexts, NEW b \in ChunkTexts, NEW s \in ChunkTexts
  PROVE  /\ a \o b \in ChunkTexts
         /\ Holds(a, s) => Holds(a \o b, s)
         /\ Holds(b, s) => Holds(a \o b, s)
<1>. DEFINE all == a \o b
            l == Len(s)
<1>0. a \in Seq(TextSymbols) /\ b \in Seq(TextSymbols) /\ s \in Seq(TextSymbols) /\ l \in Nat
      /\ Len(a) \in Nat /\ Len(b) \in Nat
  BY DEF ChunkTexts
<1>1. /\ all \in Seq(TextSymbols) /\ Len(all) = Len(a) + Len(b)
      /\ \A i \in 1..Len(a) : all[i] = a[i]
      /\ \A i \in 1..Len(b) : all[Len(a) + i] = b[i]
  BY <1>0, ConcatProperties
<1>. HIDE DEF all, l
<1>2. ASSUME NEW t \in Seq(TextSymbols), NEW k \in 0..Len(t) - l
      PROVE  /\ SubSeq(t, k + 1, k + l) \in Seq(TextSymbols)
             /\ Len(SubSeq(t, k + 1, k + l)) = l
             /\ \A i \in 1..l : SubSeq(t, k + 1, k + l)[i] = t[k + i]
  <2>1. Len(t) \in Nat /\ k + 1 \in 1..(Len(t) + 1) /\ k + l \in 0..Len(t)
    BY <1>0
  <2>2. /\ SubSeq(t, k + 1, k + l) \in Seq(TextSymbols)
        /\ Len(SubSeq(t, k + 1, k + l)) = IF k + 1 <= k + l THEN (k + l) - (k + 1) + 1 ELSE 0
        /\ \A i \in 1..((k + l) - (k + 1) + 1) : SubSeq(t, k + 1, k + l)[i] = t[k + 1 + i - 1]
    BY <2>1, PartOf
  <2>3. (k + l) - (k + 1) + 1 = l /\ \A i \in 1..l : k + 1 + i - 1 = k + i
    BY <1>0
  <2>4. Len(SubSeq(t, k + 1, k + l)) = l
    BY <1>0, <2>2
  <2>. QED  BY <2>2, <2>3, <2>4
<1>3. ASSUME NEW t \in Seq(TextSymbols), NEW k \in 0..Len(t) - l, SubSeq(t, k + 1, k + l) = s,
             NEW m \in 0..Len(all) - l, \A i \in 1..l : all[m + i] = t[k + i]
      PROVE  Holds(all, s)
  <2>. DEFINE one == SubSeq(t, k + 1, k + l)
              other == SubSeq(all, m + 1, m + l)
  <2>1. /\ one \in Seq(TextSymbols) /\ Len(one) = l
        /\ \A i \in 1..l : one[i] = t[k + i]
    BY <1>2
  <2>2. /\ other \in Seq(TextSymbols) /\ Len(other) = l
        /\ \A i \in 1..l : other[i] = all[m + i]
    BY <1>1, <1>2
  <2>. HIDE DEF one, other
  <2>3. one = other
    BY <1>0, <1>3, <2>1, <2>2, SeqEqual
  <2>. QED  BY <1>3, <2>3 DEF one, other, Holds, l
<1>4. ASSUME Holds(a, s) PROVE Holds(all, s)
  <2>1. PICK k \in 0..Len(a) - l : SubSeq(a, k + 1, k + l) = s
    BY <1>4 DEF Holds, l
  <2>2. k \in 0..Len(all) - l /\ \A i \in 1..l : k + i \in 1..Len(a)
    BY <1>0, <1>1, <2>1
  <2>3. \A i \in 1..l : all[k + i] = a[k + i]
    BY <1>1, <2>2
  <2>. QED  BY <1>0, <1>3, <2>1, <2>2, <2>3
<1>5. ASSUME Holds(b, s) PROVE Holds(all, s)
  <2>1. PICK k \in 0..Len(b) - l : SubSeq(b, k + 1, k + l) = s
    BY <1>5 DEF Holds, l
  <2>. DEFINE m == Len(a) + k
  <2>2. /\ m \in 0..Len(all) - l
        /\ \A i \in 1..l : k + i \in 1..Len(b) /\ m + i = Len(a) + (k + i)
    BY <1>0, <1>1, <2>1
  <2>. HIDE DEF m
  <2>3. \A i \in 1..l : all[m + i] = b[k + i]
    BY <1>1, <2>2
  <2>. QED  BY <1>0, <1>3, <2>1, <2>2, <2>3
<1>. QED  BY <1>1, <1>4, <1>5 DEF all, ChunkTexts

LEMMA HoldsItself == \A s \in ChunkTexts : Holds(s, s)
<1>. SUFFICES ASSUME NEW s \in ChunkTexts PROVE Holds(s, s)
  OBVIOUS
<1>1. s \in Seq(TextSymbols) /\ Len(s) \in Nat
  BY DEF ChunkTexts
<1>2. SubSeq(s, 1, Len(s)) = s
  BY <1>1, SubSeqFull
<1>3. 0 \in 0..Len(s) - Len(s) /\ 0 + 1 = 1 /\ 0 + Len(s) = Len(s)
  BY <1>1
<1>. QED  BY <1>2, <1>3 DEF Holds

\* A group that a sentence joins has it, and all that it had.
LEMMA JoinHolds ==
  ASSUME NEW group \in ChunkTexts, NEW part \in ChunkTexts, group # <<>>
  PROVE  /\ Holds(Join(group, part), part)
         /\ \A s \in ChunkTexts : Holds(group, s) => Holds(Join(group, part), s)
         /\ Join(group, part) # <<>>
<1>. DEFINE blank == <<" ">>
<1>1. blank \in ChunkTexts /\ Len(blank) = 1
  <2>1. " " \in TextSymbols
    BY DEF TextSymbols
  <2>2. \A s \in TextSymbols : <<s>> \in Seq(TextSymbols) /\ Len(<<s>>) = 1
    OBVIOUS
  <2>. QED  BY <2>1, <2>2 DEF ChunkTexts
<1>2. Join(group, part) = (group \o blank) \o part
  BY DEF Join
<1>. HIDE DEF blank
<1>3. group \o blank \in ChunkTexts
      /\ \A s \in ChunkTexts : Holds(group, s) => Holds(group \o blank, s)
  BY <1>1, HoldsMore
<1>4. Holds((group \o blank) \o part, part)
      /\ \A s \in ChunkTexts : Holds(group \o blank, s) => Holds((group \o blank) \o part, s)
  BY <1>3, HoldsMore, HoldsItself
<1>5. Len((group \o blank) \o part) = Len(group) + Len(blank) + Len(part)
      /\ Len(group) \in Nat /\ Len(part) \in Nat
  <2>1. group \in Seq(TextSymbols) /\ blank \in Seq(TextSymbols) /\ part \in Seq(TextSymbols)
    BY <1>1 DEF ChunkTexts
  <2>2. group \o blank \in Seq(TextSymbols) /\ Len(group \o blank) = Len(group) + Len(blank)
    BY <2>1, ConcatProperties
  <2>. DEFINE first == group \o blank
  <2>. HIDE DEF first
  <2>3. Len(first \o part) = Len(first) + Len(part)
    BY <2>1, <2>2, ConcatProperties DEF first
  <2>. QED  BY <2>1, <2>2, <2>3 DEF first
<1>6. Len((group \o blank) \o part) # 0
  BY <1>1, <1>5
<1>7. Len(<<>>) = 0
  BY EmptySeq
<1>8. Join(group, part) # <<>>
  BY <1>2, <1>6, <1>7
<1>. QED  BY <1>2, <1>3, <1>4, <1>8

\* A list of lists has what is in one of them.
LEMMA ConcatHas ==
  ASSUME NEW S, NEW lists \in Seq(Seq(S)), NEW i \in 1..Len(lists), NEW j \in 1..Len(lists[i])
  PROVE  \E k \in 1..Len(Concat(lists)) : Concat(lists)[k] = lists[i][j]
<1>. DEFINE before == SubSeq(lists, 1, i - 1)
            here == SubSeq(lists, i, i)
            after == SubSeq(lists, i + 1, Len(lists))
<1>0. Len(lists) \in Nat /\ i \in 1..(Len(lists) + 1) /\ i \in (i - 1)..Len(lists)
      /\ i \in 0..Len(lists) /\ i - 1 \in 0..Len(lists) /\ 1 \in 1..(Len(lists) + 1)
      /\ i + 1 \in 1..(Len(lists) + 1) /\ Len(lists) \in 0..Len(lists)
  OBVIOUS
<1>1. (before \o here) \o after = lists
  BY <1>0, AroundPart
<1>2. before \in Seq(Seq(S)) /\ here \in Seq(Seq(S)) /\ after \in Seq(Seq(S))
  BY <1>0, PartOf
<1>3. here = <<lists[i]>> /\ lists[i] \in Seq(S)
  <2>1. Len(here) = 1 /\ \A n \in 1..1 : here[n] = lists[i + n - 1]
    <3>1. Len(here) = (IF i <= i THEN i - i + 1 ELSE 0)
          /\ \A n \in 1..(i - i + 1) : here[n] = lists[i + n - 1]
      BY <1>0, PartOf
    <3>. QED  BY <1>0, <3>1
  <2>2. here[1] = lists[i]
    <3>1. 1 \in 1..1 /\ i + 1 - 1 = i
      OBVIOUS
    <3>. HIDE DEF here
    <3>. QED  BY <2>1, <3>1
  <2>. HIDE DEF here
  <2>3. here = <<here[1]>>
    BY <1>2, <2>1
  <2>. QED  BY <2>2, <2>3
<1>. HIDE DEF before, here, after
<1>. DEFINE a == Concat(before)
            l == lists[i]
            c == Concat(after)
<1>4. Concat(here) = l
  <2>1. here = Append(<<>>, l) /\ <<>> \in Seq(Seq(S))
    <3>1. <<>> \in Seq(Seq(S)) /\ \A x \in Seq(S) : Append(<<>>, x) = <<x>>
      BY EmptySeq
    <3>. QED  BY <1>3, <3>1
  <2>2. Concat(Append(<<>>, l)) = Concat(<<>>) \o l
    BY <1>3, <2>1, ConcatOne
  <2>3. <<>> \o l = l
    BY <1>3, ConcatEmptySeq
  <2>. QED  BY <2>1, <2>2, <2>3, ConcatNone
<1>5. Concat(lists) = (a \o l) \o c
  <2>1. before \o here \in Seq(Seq(S))
    BY <1>2, ConcatProperties
  <2>2. Concat((before \o here) \o after) = Concat(before \o here) \o c
    BY <1>2, <2>1, ConcatOfTwo
  <2>3. Concat(before \o here) = a \o Concat(here)
    BY <1>2, ConcatOfTwo
  <2>. QED  BY <1>1, <1>4, <2>2, <2>3
<1>6. a \in Seq(S) /\ l \in Seq(S) /\ c \in Seq(S)
  BY <1>2, <1>3, ConcatType
<1>. HIDE DEF a, l, c
<1>7. /\ a \o l \in Seq(S) /\ Len(a \o l) = Len(a) + Len(l)
      /\ \A n \in 1..Len(l) : (a \o l)[Len(a) + n] = l[n]
  BY <1>6, ConcatProperties
<1>8. /\ Len((a \o l) \o c) = Len(a \o l) + Len(c)
      /\ \A n \in 1..Len(a \o l) : ((a \o l) \o c)[n] = (a \o l)[n]
  BY <1>6, <1>7, ConcatProperties
<1>9. j \in 1..Len(l)
  BY DEF l
<1>10. Len(a) + j \in 1..Len(a \o l) /\ Len(a) + j \in 1..Len((a \o l) \o c)
  <2>1. Len(a) \in Nat /\ Len(l) \in Nat /\ Len(c) \in Nat
    BY <1>6
  <2>. QED  BY <2>1, <1>7, <1>8, <1>9
<1>11. ((a \o l) \o c)[Len(a) + j] = l[j]
  BY <1>7, <1>8, <1>9, <1>10
<1>. QED  BY <1>5, <1>10, <1>11 DEF l

\* What is oversized is split, and everything else is left as it is.
LEMMA SplitOversizedSound ==
  ASSUME NEW sentences \in Seq(ChunkTexts), NEW groups, GroupsKeep(sentences, Len(sentences), groups)
  PROVE  LET made == SplitOversized(groups)
         IN  /\ made \in Seq(ChunkTexts)
             /\ \A i \in 1..Len(made) : Len(made[i]) <= MaxLength
             /\ Ink(Concat(made)) = Ink(Concat(groups))
             /\ \A i \in 1..Len(sentences) :
                  Len(sentences[i]) <= MaxLength /\ sentences[i] # <<>> => Kept(made, sentences[i])
             /\ (\A i \in 1..Len(sentences) : Len(sentences[i]) <= MaxLength)
                  => \A i \in 1..Len(made) : made[i] # <<>>
<1>. DEFINE lists == [i \in 1..Len(groups) |->
                        IF Len(groups[i]) > MaxLength THEN RecursiveChunk[groups[i]]
                        ELSE <<groups[i]>>]
            made == Concat(lists)
<1>0. /\ MaxLength \in Nat /\ \A t \in ChunkTexts : Len(t) \in Nat
      /\ groups \in Seq(ChunkTexts) /\ Len(groups) \in Nat
      /\ \A i \in 1..Len(groups) : groups[i] \in ChunkTexts
  BY ChunkAssumption DEF GroupsKeep, ChunkTexts
<1>1. SplitOversized(groups) = made
  BY DEF SplitOversized
<1>2. ASSUME NEW t \in ChunkTexts
      PROVE  <<t>> \in Seq(ChunkTexts) /\ Len(<<t>>) = 1 /\ <<t>>[1] = t /\ Concat(<<t>>) = t
  <2>1. <<t>> \in Seq(ChunkTexts) /\ Len(<<t>>) = 1 /\ <<t>>[1] = t
    OBVIOUS
  <2>2. <<>> \in Seq(Seq(TextSymbols)) /\ t \in Seq(TextSymbols) /\ Append(<<>>, t) = <<t>>
    BY EmptySeq DEF ChunkTexts
  <2>3. Concat(Append(<<>>, t)) = Concat(<<>>) \o t
    BY <2>2, ConcatOne
  <2>4. <<>> \o t = t
    BY <2>2, ConcatEmptySeq
  <2>. QED  BY <2>1, <2>2, <2>3, <2>4, ConcatNone
<1>3. ASSUME NEW i \in 1..Len(groups)
      PROVE  /\ lists[i] = IF Len(groups[i]) > MaxLength THEN RecursiveChunk[groups[i]]
                           ELSE <<groups[i]>>
             /\ ChunksWell(groups[i], lists[i])
  <2>1. lists[i] = IF Len(groups[i]) > MaxLength THEN RecursiveChunk[groups[i]]
                   ELSE <<groups[i]>>
    OBVIOUS
  <2>. HIDE DEF lists
  <2>. DEFINE g == groups[i]
  <2>2. g \in ChunkTexts /\ Len(g) \in Nat
    BY <1>0
  <2>. HIDE DEF g
  <2>3. CASE Len(g) > MaxLength
    BY <2>1, <2>2, <2>3, RecursiveChunkSound DEF g
  <2>4. CASE ~(Len(g) > MaxLength)
    <3>1. Len(g) <= MaxLength
      BY <1>0, <2>2, <2>4
    <3>2. \A n \in 1..Len(<<g>>) : n = 1
      BY <1>2, <2>2
    <3>3. ChunksWell(g, <<g>>)
      BY <1>2, <2>2, <3>1, <3>2 DEF ChunksWell
    <3>. QED  BY <2>1, <2>4, <3>3 DEF g
  <2>. QED  BY <2>1, <2>3, <2>4
<1>4. Len(lists) = Len(groups) /\ lists \in Seq(Seq(ChunkTexts))
  <2>1. \A i \in 1..Len(groups) : lists[i] \in Seq(ChunkTexts)
    BY <1>3 DEF ChunksWell
  <2>2. Len(lists) = Len(groups) /\ lists = [i \in 1..Len(groups) |-> lists[i]]
    BY <1>0
  <2>. HIDE DEF lists
  <2>. QED  BY <1>0, <2>1, <2>2
<1>. HIDE DEF lists
<1>5. /\ made \in Seq(ChunkTexts)
      /\ \A i \in 1..Len(made) : Len(made[i]) <= MaxLength
      /\ Ink(Concat(made)) = Ink(Concat(groups))
  BY <1>0, <1>3, <1>4, ChunksTogether
<1>6. ASSUME NEW n \in 1..Len(sentences), Len(sentences[n]) <= MaxLength, sentences[n] # <<>>
      PROVE  Kept(made, sentences[n])
  <2>1. PICK i \in 1..Len(groups) : Len(groups[i]) <= MaxLength /\ Holds(groups[i], sentences[n])
    BY <1>6 DEF GroupsKeep, Kept
  <2>2. lists[i] = <<groups[i]>>
    <3>1. groups[i] \in ChunkTexts /\ Len(groups[i]) \in Nat
      BY <1>0
    <3>2. ~(Len(groups[i]) > MaxLength)
      BY <1>0, <2>1, <3>1
    <3>. QED  BY <1>3, <3>2
  <2>3. 1 \in 1..Len(lists[i]) /\ lists[i][1] = groups[i]
    BY <1>0, <1>2, <2>2
  <2>4. PICK k \in 1..Len(made) : made[k] = groups[i]
    BY <1>4, <2>3, ConcatHas
  <2>. HIDE DEF made
  <2>. QED  BY <2>1, <2>4 DEF Kept
<1>7. ASSUME \A i \in 1..Len(sentences) : Len(sentences[i]) <= MaxLength, NEW n \in 1..Len(made)
      PROVE  made[n] # <<>>
  <2>. DEFINE Full == {t \in ChunkTexts : t # <<>>}
  <2>1. ASSUME NEW i \in 1..Len(lists) PROVE lists[i] \in Seq(Full)
    <3>1. Len(groups[i]) <= MaxLength
      BY <1>4, <1>7 DEF GroupsKeep, FitsOrPart
    <3>2. lists[i] = <<groups[i]>>
      <4>1. i \in 1..Len(groups)
        BY <1>4
      <4>2. groups[i] \in ChunkTexts /\ Len(groups[i]) \in Nat
        BY <1>0, <4>1
      <4>3. ~(Len(groups[i]) > MaxLength)
        BY <1>0, <3>1, <4>2
      <4>. QED  BY <1>3, <4>1, <4>3
    <3>3. groups[i] \in Full
      BY <1>0, <1>4 DEF GroupsKeep
    <3>. HIDE DEF Full
    <3>4. \A t \in Full : <<t>> \in Seq(Full)
      OBVIOUS
    <3>. QED  BY <3>2, <3>3, <3>4
  <2>. HIDE DEF Full
  <2>2. lists \in Seq(Seq(Full))
    <3>1. Len(lists) \in Nat /\ lists = [i \in 1..Len(lists) |-> lists[i]]
      BY <1>0, <1>4
    <3>2. [i \in 1..Len(lists) |-> lists[i]] \in Seq(Seq(Full))
      BY <2>1, <3>1
    <3>. QED  BY <3>1, <3>2
  <2>3. made \in Seq(Full)
    BY <2>2, ConcatType
  <2>. HIDE DEF made
  <2>4. made[n] \in Full
    BY <2>3
  <2>. QED  BY <2>4 DEF Full
<1>. HIDE DEF made
<1>. QED  BY <1>1, <1>5, <1>6, <1>7

\* The next sentence starts a group of its own.
LEMMA NewGroup ==
  ASSUME NEW sentences \in Seq(ChunkTexts), NEW n \in 0..(Len(sentences) - 1), NEW groups,
         GroupsKeep(sentences, n, groups), sentences[n + 1] # <<>>
  PROVE  /\ GroupsKeep(sentences, n + 1, Append(groups, sentences[n + 1]))
         /\ Ink(Concat(Append(groups, sentences[n + 1])))
              = Ink(Concat(groups)) \o Ink(sentences[n + 1])
<1>. DEFINE s == sentences[n + 1]
            more == Append(groups, s)
<1>0. /\ Len(sentences) \in Nat /\ n \in Nat /\ n + 1 \in 1..Len(sentences) /\ s \in ChunkTexts
      /\ groups \in Seq(ChunkTexts) /\ Len(groups) \in Nat
  BY DEF GroupsKeep
<1>1. /\ more \in Seq(ChunkTexts) /\ Len(more) = Len(groups) + 1
      /\ \A j \in 1..Len(groups) : more[j] = groups[j]
      /\ more[Len(groups) + 1] = s
  BY <1>0, AppendProperties
<1>2. Ink(Concat(more)) = Ink(Concat(groups)) \o Ink(s)
  <2>1. groups \in Seq(Seq(TextSymbols)) /\ s \in Seq(TextSymbols)
    BY <1>0 DEF ChunkTexts
  <2>2. Concat(more) = Concat(groups) \o s /\ Concat(groups) \in Seq(TextSymbols)
    BY <2>1, ConcatOne, ConcatType
  <2>. QED  BY <2>1, <2>2, InkConcat DEF ChunkTexts
<1>. HIDE DEF s, more
<1>3. ASSUME NEW j \in 1..Len(more) PROVE more[j] # <<>> /\ FitsOrPart(more[j], sentences)
  <2>1. CASE j \in 1..Len(groups)
    BY <1>1, <2>1 DEF GroupsKeep
  <2>2. CASE j = Len(groups) + 1
    <3>1. more[j] = s
      BY <1>1, <2>2
    <3>2. s # <<>>
      BY DEF s
    <3>3. FitsOrPart(s, sentences)
      BY <1>0 DEF s, FitsOrPart
    <3>. QED  BY <3>1, <3>2, <3>3
  <2>. QED  BY <1>0, <1>1, <2>1, <2>2
<1>4. ASSUME NEW i \in 1..(n + 1), Len(sentences[i]) <= MaxLength, sentences[i] # <<>>
      PROVE  Kept(more, sentences[i])
  <2>1. CASE i \in 1..n
    <3>1. Kept(groups, sentences[i])
      BY <1>4, <2>1 DEF GroupsKeep
    <3>2. PICK j \in 1..Len(groups) : Len(groups[j]) <= MaxLength /\ Holds(groups[j], sentences[i])
      BY <3>1 DEF Kept
    <3>3. j \in 1..Len(more) /\ more[j] = groups[j]
      BY <1>0, <1>1
    <3>. QED  BY <3>2, <3>3 DEF Kept
  <2>2. CASE i = n + 1
    <3>1. sentences[i] = s /\ Len(s) <= MaxLength
      BY <1>4, <2>2 DEF s
    <3>2. Holds(s, s)
      BY <1>0, HoldsItself
    <3>3. Len(groups) + 1 \in 1..Len(more)
      BY <1>0, <1>1
    <3>. QED  BY <1>1, <3>1, <3>2, <3>3 DEF Kept
  <2>. QED  BY <1>0, <2>1, <2>2
<1>5. GroupsKeep(sentences, n + 1, more)
  BY <1>1, <1>3, <1>4 DEF GroupsKeep
<1>. QED  BY <1>2, <1>5 DEF s, more

LEMMA TextsAssociative ==
  \A a, b, c \in ChunkTexts : (a \o b) \o c = a \o (b \o c)
BY ConcatAssociative DEF ChunkTexts

\* The next sentence joins the last group, and fits.
LEMMA JoinedGroup ==
  ASSUME NEW sentences \in Seq(ChunkTexts), NEW n \in 0..(Len(sentences) - 1),
         NEW front \in Seq(ChunkTexts), NEW last \in ChunkTexts, last # <<>>,
         GroupsKeep(sentences, n, Append(front, last)),
         Len(Join(last, sentences[n + 1])) <= MaxLength
  PROVE  /\ GroupsKeep(sentences, n + 1, Append(front, Join(last, sentences[n + 1])))
         /\ Ink(Concat(Append(front, Join(last, sentences[n + 1]))))
              = Ink(Concat(Append(front, last))) \o Ink(sentences[n + 1])
<1>. DEFINE s == sentences[n + 1]
            group == Join(last, s)
            old == Append(front, last)
            new == Append(front, group)
            top == Len(front) + 1
<1>0. /\ Len(sentences) \in Nat /\ n \in Nat /\ n + 1 \in 1..Len(sentences) /\ s \in ChunkTexts
      /\ Len(front) \in Nat
  OBVIOUS
<1>. HIDE DEF s
<1>1. /\ group \in ChunkTexts /\ group # <<>> /\ Ink(group) = Ink(last) \o Ink(s)
      /\ Holds(group, s) /\ \A u \in ChunkTexts : Holds(last, u) => Holds(group, u)
  BY <1>0, JoinSound, JoinHolds
<1>2. Len(group) <= MaxLength
  BY DEF s
<1>. HIDE DEF group
<1>3. /\ old \in Seq(ChunkTexts) /\ Len(old) = top
      /\ \A j \in 1..Len(front) : old[j] = front[j]
      /\ old[top] = last
  BY AppendProperties
<1>4. /\ new \in Seq(ChunkTexts) /\ Len(new) = top
      /\ \A j \in 1..Len(front) : new[j] = front[j]
      /\ new[top] = group
  BY <1>1, AppendProperties
<1>5. Ink(Concat(new)) = Ink(Concat(old)) \o Ink(s)
  <2>1. front \in Seq(Seq(TextSymbols)) /\ s \in Seq(TextSymbols) /\ last \in Seq(TextSymbols)
        /\ group \in Seq(TextSymbols)
    BY <1>0, <1>1 DEF ChunkTexts
  <2>2. Concat(new) = Concat(front) \o group /\ Concat(old) = Concat(front) \o last
        /\ Concat(front) \in Seq(TextSymbols)
    BY <2>1, ConcatOne, ConcatType
  <2>3. Ink(Concat(front) \o group) = Ink(Concat(front)) \o Ink(group)
        /\ Ink(Concat(front) \o last) = Ink(Concat(front)) \o Ink(last)
    BY <2>1, <2>2, InkConcat DEF ChunkTexts
  <2>4. /\ Ink(Concat(front)) \in Seq(TextSymbols) /\ Ink(last) \in Seq(TextSymbols)
        /\ Ink(s) \in Seq(TextSymbols)
    BY <2>1, <2>2, InkType DEF ChunkTexts
  <2>5. (Ink(Concat(front)) \o Ink(last)) \o Ink(s) = Ink(Concat(front)) \o (Ink(last) \o Ink(s))
    BY <2>4, TextsAssociative DEF ChunkTexts
  <2>. HIDE DEF new, old
  <2>. QED  BY <1>1, <2>2, <2>3, <2>5
<1>6. GroupsKeep(sentences, n, old)
  OBVIOUS
<1>. HIDE DEF old, new
<1>7. ASSUME NEW j \in 1..Len(new) PROVE new[j] # <<>> /\ FitsOrPart(new[j], sentences)
  <2>1. CASE j \in 1..Len(front)
    <3>1. new[j] = old[j] /\ j \in 1..Len(old)
      BY <1>0, <1>3, <1>4, <2>1
    <3>. QED  BY <1>6, <3>1 DEF GroupsKeep
  <2>2. CASE j = top
    BY <1>1, <1>2, <1>4, <2>2 DEF FitsOrPart
  <2>. QED  BY <1>0, <1>4, <2>1, <2>2
<1>8. ASSUME NEW i \in 1..(n + 1), Len(sentences[i]) <= MaxLength, sentences[i] # <<>>
      PROVE  Kept(new, sentences[i])
  <2>0. top \in 1..Len(new)
    BY <1>0, <1>4
  <2>1. CASE i \in 1..n
    <3>1. Kept(old, sentences[i])
      BY <1>6, <1>8, <2>1 DEF GroupsKeep
    <3>2. PICK j \in 1..Len(old) : Len(old[j]) <= MaxLength /\ Holds(old[j], sentences[i])
      BY <3>1 DEF Kept
    <3>3. CASE j \in 1..Len(front)
      <4>1. new[j] = old[j] /\ j \in 1..Len(new)
        BY <1>0, <1>3, <1>4, <3>3
      <4>. QED  BY <3>2, <4>1 DEF Kept
    <3>4. CASE j = top
      <4>1. sentences[i] \in ChunkTexts
        BY <1>0, <2>1
      <4>2. Holds(group, sentences[i])
        BY <1>1, <1>3, <3>2, <3>4, <4>1
      <4>. QED  BY <1>2, <1>4, <2>0, <4>2 DEF Kept
    <3>. QED  BY <1>0, <1>3, <3>3, <3>4
  <2>2. CASE i = n + 1
    <3>1. sentences[i] = s
      BY <2>2 DEF s
    <3>. QED  BY <1>1, <1>2, <1>4, <2>0, <3>1 DEF Kept
  <2>. QED  BY <1>0, <2>1, <2>2
<1>9. GroupsKeep(sentences, n + 1, new)
  BY <1>4, <1>7, <1>8 DEF GroupsKeep
<1>. QED  BY <1>5, <1>9 DEF s, group, old, new

\* The sentences that are left, and the first of them.
LEMMA NextSentence ==
  ASSUME NEW sentences \in Seq(ChunkTexts), NEW n \in 0..Len(sentences),
         SubSeq(sentences, n + 1, Len(sentences)) # <<>>
  PROVE  LET left == SubSeq(sentences, n + 1, Len(sentences))
         IN  /\ n \in 0..(Len(sentences) - 1)
             /\ Head(left) = sentences[n + 1]
             /\ Tail(left) = SubSeq(sentences, n + 2, Len(sentences))
             /\ Ink(Concat(left)) = Ink(sentences[n + 1]) \o Ink(Concat(Tail(left)))
<1>. DEFINE m == Len(sentences)
            left == SubSeq(sentences, n + 1, m)
            rest == SubSeq(sentences, n + 2, m)
<1>0. m \in Nat /\ n \in Nat /\ n + 1 \in 1..(m + 1) /\ m \in 0..m
  OBVIOUS
<1>1. n \in 0..(m - 1)
  <2>1. ASSUME n = m PROVE FALSE
    BY <2>1, SubSeqEmpty
  <2>. QED  BY <1>0, <2>1
<1>2. n + 1 \in 1..m /\ n + 2 \in 1..(m + 1) /\ sentences[n + 1] \in ChunkTexts
  BY <1>0, <1>1
<1>3. /\ left \in Seq(ChunkTexts) /\ left = <<sentences[n + 1]>> \o rest
      /\ rest \in Seq(ChunkTexts)
  <2>1. left \in Seq(ChunkTexts) /\ rest \in Seq(ChunkTexts)
    BY <1>0, <1>2, PartOf
  <2>2. left = <<sentences[n + 1]>> \o SubSeq(sentences, (n + 1) + 1, m)
    BY <1>0, <1>2, SubSeqRecursiveFirst
  <2>3. (n + 1) + 1 = n + 2
    BY <1>0
  <2>. QED  BY <2>1, <2>2, <2>3
<1>. HIDE DEF left, rest
<1>. DEFINE s == sentences[n + 1]
<1>4. s \in ChunkTexts
  BY <1>2
<1>. HIDE DEF s
<1>5. Head(<<s>> \o rest) = s /\ Tail(<<s>> \o rest) = rest
  BY <1>3, <1>4
<1>6. Ink(Concat(<<s>> \o rest)) = Ink(s) \o Ink(Concat(rest))
  <2>1. /\ <<>> \in Seq(Seq(TextSymbols)) /\ s \in Seq(TextSymbols)
        /\ Append(<<>>, s) = <<s>> /\ <<s>> \in Seq(Seq(TextSymbols))
        /\ rest \in Seq(Seq(TextSymbols))
    BY <1>3, <1>4, EmptySeq DEF ChunkTexts
  <2>2. Concat(Append(<<>>, s)) = Concat(<<>>) \o s /\ <<>> \o s = s
    BY <2>1, ConcatOne, ConcatEmptySeq
  <2>3. Concat(<<s>>) = s
    BY <2>1, <2>2, ConcatNone
  <2>4. Concat(<<s>> \o rest) = Concat(<<s>>) \o Concat(rest) /\ Concat(rest) \in Seq(TextSymbols)
    BY <2>1, ConcatOfTwo, ConcatType
  <2>5. Ink(s \o Concat(rest)) = Ink(s) \o Ink(Concat(rest))
    BY <2>1, <2>4, InkConcat DEF ChunkTexts
  <2>. QED  BY <2>3, <2>4, <2>5
<1>. QED  BY <1>1, <1>3, <1>5, <1>6 DEF left, rest, s, m

\* The sentences of a text that is chunked.
LEMMA SentencesSound ==
  ASSUME NEW t \in ChunkTexts
  PROVE  Sentences(Strip(t)) \in Seq(ChunkTexts) /\ Ink(Concat(Sentences(Strip(t)))) = Ink(t)
BY StripSound, PartsSound

LEMMA ChunkInitHolds == ChunkInit => ChunkingInv
<1>. SUFFICES ASSUME ChunkInit PROVE ChunkingInv
  OBVIOUS
<1>. USE DEF ChunkInit
<1>. DEFINE s == Sentences(Strip(text))
<1>1. text \in ChunkTexts
  BY ChunkAssumption DEF ChunkTexts
<1>2. s \in Seq(ChunkTexts) /\ Len(s) \in Nat /\ Ink(Concat(s)) = Ink(text)
  BY <1>1, SentencesSound
<1>3. <<>> \in Seq(ChunkTexts) /\ <<>> \in ChunkTexts /\ Len(<<>>) = 0
  BY EmptySeq DEF ChunkTexts
<1>4. WithCurrent = <<>>
  BY DEF WithCurrent
<1>5. waiting = SubSeq(s, 0 + 1, Len(s)) /\ 0 \in 0..Len(s)
  <2>1. waiting = s
    OBVIOUS
  <2>. HIDE DEF s
  <2>2. SubSeq(s, 1, Len(s)) = s /\ 0 + 1 = 1
    BY <1>2, SubSeqFull
  <2>. QED  BY <1>2, <2>1, <2>2
<1>6. GroupsKeep(s, 0, <<>>)
  BY <1>3 DEF GroupsKeep
<1>7. Ink(Concat(<<>>)) \o Ink(Concat(waiting)) = Ink(text)
  <2>1. Ink(Concat(<<>>)) = <<>>
    BY ConcatNone, InkNone
  <2>2. Ink(text) \in Seq(TextSymbols)
    BY <1>1, InkType DEF ChunkTexts
  <2>3. <<>> \o Ink(text) = Ink(text)
    BY <2>2, ConcatEmptySeq
  <2>4. Ink(Concat(waiting)) = Ink(text)
    BY <1>2
  <2>. QED  BY <2>1, <2>3, <2>4
<1>8. GroupingInv
  BY <1>4, <1>5, <1>6, <1>7 DEF GroupingInv, s
<1>. QED  BY <1>3, <1>8 DEF ChunkingInv, ChunksAreSound

\* What the function returns is sound.
LEMMA ReturnedSound ==
  ASSUME NEW t \in ChunkTexts, NEW groups,
         GroupsKeep(Sentences(Strip(t)), Len(Sentences(Strip(t))), groups),
         Ink(Concat(groups)) = Ink(t),
         text' = t, chunks' = SplitOversized(groups)
  PROVE  chunks' \in Seq(ChunkTexts) /\ ChunksAreSound'
<1>. DEFINE s == Sentences(Strip(t))
            made == SplitOversized(groups)
<1>1. s \in Seq(ChunkTexts)
  BY SentencesSound
<1>2. /\ made \in Seq(ChunkTexts)
      /\ \A i \in 1..Len(made) : Len(made[i]) <= MaxLength
      /\ Ink(Concat(made)) = Ink(Concat(groups))
      /\ \A i \in 1..Len(s) :
           Len(s[i]) <= MaxLength /\ s[i] # <<>> => Kept(made, s[i])
      /\ (\A i \in 1..Len(s) : Len(s[i]) <= MaxLength)
           => \A i \in 1..Len(made) : made[i] # <<>>
  <2>. HIDE DEF s
  <2>. QED  BY <1>1, SplitOversizedSound DEF s
<1>3. chunks' = made /\ Sentences(Strip(text))' = s /\ Ink(text)' = Ink(t)
  <2>1. chunks' = made
    OBVIOUS
  <2>2. Sentences(Strip(text'))  = s /\ Ink(text') = Ink(t)
    OBVIOUS
  <2>. QED  BY <2>1, <2>2
<1>. HIDE DEF s, made
<1>. QED  BY <1>2, <1>3 DEF ChunksAreSound, Kept, Holds

LEMMA ChunkNextHolds == ChunkingInv /\ [ChunkNext]_chunkVars => ChunkingInv'
<1>. SUFFICES ASSUME ChunkingInv, [ChunkNext]_chunkVars PROVE ChunkingInv'
  OBVIOUS
<1>. DEFINE s == Sentences(Strip(text))
<1>0. /\ text \in ChunkTexts /\ text \in Texts /\ entry \in {"semantic_chunk", "recursive_chunk"}
      /\ chunks \in Seq(ChunkTexts) /\ current \in ChunkTexts
      /\ s \in Seq(ChunkTexts) /\ Len(s) \in Nat
  <2>1. text \in Texts /\ entry \in {"semantic_chunk", "recursive_chunk"}
        /\ chunks \in Seq(ChunkTexts) /\ current \in ChunkTexts
    BY DEF ChunkingInv
  <2>2. text \in ChunkTexts
    BY <2>1, ChunkAssumption DEF ChunkTexts
  <2>. QED  BY <2>1, <2>2, SentencesSound
<1>1. CASE ChunkRecursively
  <2>1. /\ text' = text /\ entry' = entry /\ entry = "recursive_chunk" /\ current' = current
        /\ chunks' = RecursiveChunk[text]
    BY <1>1 DEF ChunkRecursively
  <2>2. ChunksWell(text, chunks')
    BY <1>0, <2>1, RecursiveChunkSound
  <2>3. ChunksAreSound'
    BY <2>1, <2>2 DEF ChunksAreSound, ChunksWell
  <2>4. entry' # "semantic_chunk" /\ chunks' \in Seq(ChunkTexts)
    BY <2>1, <2>2 DEF ChunksWell
  <2>. QED  BY <1>0, <2>1, <2>3, <2>4 DEF ChunkingInv
<1>2. ASSUME SkipEmpty \/ StartGroup \/ JoinGroup \/ CloseGroup PROVE ChunkingInv'
  <2>1. /\ text' = text /\ entry' = entry /\ chunked' = chunked
        /\ entry = "semantic_chunk" /\ waiting # <<>> /\ waiting' = Tail(waiting)
    BY <1>2 DEF SkipEmpty, StartGroup, JoinGroup, CloseGroup, Sentence
  <2>2. ~chunked
    BY <2>1 DEF ChunkingInv
  <2>3. PICK n \in 0..Len(s) :
          /\ waiting = SubSeq(s, n + 1, Len(s))
          /\ GroupsKeep(s, n, WithCurrent)
          /\ Ink(Concat(WithCurrent)) \o Ink(Concat(waiting)) = Ink(text)
    BY <2>1, <2>2 DEF ChunkingInv, GroupingInv
  <2>4. Sentences(Strip(text'))  = s /\ Ink(text') = Ink(text)
    BY <2>1
  <2>. HIDE DEF s
  <2>5. /\ n \in 0..(Len(s) - 1) /\ Head(waiting) = s[n + 1]
        /\ Tail(waiting) = SubSeq(s, n + 2, Len(s))
        /\ Ink(Concat(waiting)) = Ink(s[n + 1]) \o Ink(Concat(Tail(waiting)))
    BY <1>0, <2>1, <2>3, NextSentence
  <2>. DEFINE h == s[n + 1]
  <2>6. /\ h \in ChunkTexts /\ n \in Nat /\ n + 1 \in 0..Len(s) /\ n + 1 \in 1..Len(s)
        /\ (n + 1) + 1 = n + 2
    BY <1>0, <2>5
  <2>7. /\ GroupsKeep(s, n + 1, WithCurrent')
        /\ Ink(Concat(WithCurrent')) = Ink(Concat(WithCurrent)) \o Ink(h)
        /\ chunks' \in Seq(ChunkTexts) /\ current' \in ChunkTexts
    <3>1. CASE SkipEmpty
      <4>1. chunks' = chunks /\ current' = current /\ h = <<>>
        BY <2>5, <3>1 DEF SkipEmpty
      <4>2. WithCurrent' = WithCurrent
        BY <4>1 DEF WithCurrent
      <4>3. Ink(Concat(WithCurrent)) \o Ink(h) = Ink(Concat(WithCurrent))
        <5>1. WithCurrent \in Seq(Seq(TextSymbols))
          BY <2>3 DEF GroupsKeep, ChunkTexts
        <5>2. Ink(Concat(WithCurrent)) \in Seq(TextSymbols)
          BY <5>1, ConcatType, InkType DEF ChunkTexts
        <5>. QED  BY <4>1, <5>2, InkNone, ConcatEmptySeq
      <4>4. GroupsKeep(s, n + 1, WithCurrent)
        <5>1. ASSUME NEW i \in 1..(n + 1), Len(s[i]) <= MaxLength, s[i] # <<>>
              PROVE  Kept(WithCurrent, s[i])
          <6>1. i # n + 1
            BY <4>1, <5>1
          <6>2. i \in 1..n
            BY <2>6, <6>1
          <6>. QED  BY <2>3, <5>1, <6>2 DEF GroupsKeep
        <5>. QED  BY <2>3, <5>1 DEF GroupsKeep
      <4>. QED  BY <1>0, <4>1, <4>2, <4>3, <4>4
    <3>2. CASE StartGroup \/ CloseGroup
      <4>1. h # <<>> /\ current' = h
        BY <2>5, <3>2 DEF StartGroup, CloseGroup
      <4>2. chunks' = WithCurrent
        BY <3>2 DEF StartGroup, CloseGroup, WithCurrent
      <4>3. WithCurrent' = Append(WithCurrent, h)
        BY <4>1, <4>2 DEF WithCurrent
      <4>4. WithCurrent \in Seq(ChunkTexts)
        BY <2>3 DEF GroupsKeep
      <4>5. GroupsKeep(s, n + 1, Append(WithCurrent, h))
            /\ Ink(Concat(Append(WithCurrent, h))) = Ink(Concat(WithCurrent)) \o Ink(h)
        BY <1>0, <2>3, <2>5, <4>1, NewGroup
      <4>. QED  BY <2>6, <4>1, <4>2, <4>3, <4>4, <4>5
    <3>3. CASE JoinGroup
      <4>1. /\ current # <<>> /\ current' = Join(current, h) /\ chunks' = chunks
            /\ Len(Join(current, h)) <= MaxLength
        BY <2>5, <3>3 DEF JoinGroup
      <4>2. Join(current, h) \in ChunkTexts /\ Join(current, h) # <<>>
        BY <1>0, <2>6, <4>1, JoinSound, JoinHolds
      <4>3. WithCurrent = Append(chunks, current) /\ WithCurrent' = Append(chunks, Join(current, h))
        BY <4>1, <4>2 DEF WithCurrent
      <4>4. GroupsKeep(s, n + 1, Append(chunks, Join(current, h)))
            /\ Ink(Concat(Append(chunks, Join(current, h))))
                 = Ink(Concat(Append(chunks, current))) \o Ink(h)
        BY <1>0, <2>3, <2>5, <4>1, <4>3, JoinedGroup
      <4>. QED  BY <1>0, <4>1, <4>2, <4>3, <4>4
    <3>. QED  BY <1>2, <3>1, <3>2, <3>3
  <2>8. Ink(Concat(WithCurrent')) \o Ink(Concat(waiting')) = Ink(text)
    <3>. DEFINE a == Ink(Concat(WithCurrent))
                b == Ink(h)
                c == Ink(Concat(Tail(waiting)))
    <3>1. WithCurrent \in Seq(Seq(TextSymbols)) /\ Tail(waiting) \in Seq(Seq(TextSymbols))
      <4>1. WithCurrent \in Seq(ChunkTexts)
        BY <2>3 DEF GroupsKeep
      <4>2. n + 2 \in 1..(Len(s) + 1) /\ Len(s) \in 0..Len(s)
        BY <1>0, <2>5
      <4>3. Tail(waiting) \in Seq(ChunkTexts)
        BY <1>0, <2>5, <4>2, PartOf
      <4>. QED  BY <4>1, <4>3 DEF ChunkTexts
    <3>2. Concat(WithCurrent) \in ChunkTexts /\ Concat(Tail(waiting)) \in ChunkTexts
      BY <3>1, ConcatType DEF ChunkTexts
    <3>3. a \in Seq(TextSymbols) /\ b \in Seq(TextSymbols) /\ c \in Seq(TextSymbols)
      BY <2>6, <3>2, InkType DEF ChunkTexts
    <3>4. a \o (b \o c) = Ink(text)
      BY <2>3, <2>5
    <3>5. Ink(Concat(WithCurrent')) = a \o b /\ Ink(Concat(waiting')) = c
      BY <2>1, <2>7
    <3>. HIDE DEF a, b, c
    <3>6. (a \o b) \o c = a \o (b \o c)
      BY <3>3, ConcatAssociative
    <3>. QED  BY <3>4, <3>5, <3>6
  <2>9. waiting' = SubSeq(s, (n + 1) + 1, Len(s))
    BY <2>1, <2>5, <2>6
  <2>. DEFINE after(t, m) ==
                /\ waiting' = SubSeq(Sentences(Strip(t)), m + 1, Len(Sentences(Strip(t))))
                /\ GroupsKeep(Sentences(Strip(t)), m, WithCurrent')
                /\ Ink(Concat(WithCurrent')) \o Ink(Concat(waiting')) = Ink(t)
  <2>10. \E m \in 0..Len(Sentences(Strip(text))) : after(text, m)
    BY <2>6, <2>7, <2>8, <2>9 DEF s
  <2>11. \E m \in 0..Len(Sentences(Strip(text'))) : after(text', m)
    <3>. HIDE DEF after
    <3>. QED  BY <2>1, <2>10
  <2>12. GroupingInv'
    BY <2>11 DEF GroupingInv
  <2>. QED  BY <1>0, <2>1, <2>2, <2>7, <2>12 DEF ChunkingInv, ChunksAreSound
<1>3. CASE ReturnChunks
  <2>1. /\ entry = "semantic_chunk" /\ waiting = <<>> /\ ~chunked
        /\ chunks' = SplitOversized(WithCurrent) /\ current' = <<>> /\ chunked'
        /\ text' = text /\ entry' = entry /\ waiting' = waiting
    BY <1>3 DEF ReturnChunks, WithCurrent
  <2>2. PICK n \in 0..Len(s) :
          /\ waiting = SubSeq(s, n + 1, Len(s))
          /\ GroupsKeep(s, n, WithCurrent)
          /\ Ink(Concat(WithCurrent)) \o Ink(Concat(waiting)) = Ink(text)
    BY <2>1 DEF ChunkingInv, GroupingInv
  <2>3. n = Len(s)
    <3>. HIDE DEF s
    <3>. SUFFICES ASSUME n # Len(s) PROVE FALSE
      OBVIOUS
    <3>1. n + 1 \in 1..Len(s) /\ n + 1 \in 1..(Len(s) + 1) /\ Len(s) \in 0..Len(s)
      BY <1>0
    <3>2. Len(SubSeq(s, n + 1, Len(s))) = (IF n + 1 <= Len(s) THEN Len(s) - (n + 1) + 1 ELSE 0)
      BY <1>0, <3>1, PartOf
    <3>3. Len(<<>>) = 0
      BY EmptySeq
    <3>4. Len(SubSeq(s, n + 1, Len(s))) = 0
      BY <2>1, <2>2, <3>3
    <3>5. n + 1 <= Len(s)
      BY <3>1
    <3>6. Len(s) - (n + 1) + 1 = 0
      BY <3>2, <3>4, <3>5
    <3>. QED  BY <1>0, <3>1, <3>6
  <2>4. Ink(Concat(WithCurrent)) = Ink(text)
    <3>1. WithCurrent \in Seq(Seq(TextSymbols))
      BY <2>2 DEF GroupsKeep, ChunkTexts
    <3>2. Ink(Concat(WithCurrent)) \in Seq(TextSymbols)
      BY <3>1, ConcatType, InkType DEF ChunkTexts
    <3>3. Ink(Concat(waiting)) = <<>>
      BY <2>1, ConcatNone, InkNone
    <3>. QED  BY <2>2, <3>2, <3>3, ConcatEmptySeq
  <2>5. chunks' \in Seq(ChunkTexts) /\ ChunksAreSound'
    <3>1. GroupsKeep(Sentences(Strip(text)), Len(Sentences(Strip(text))), WithCurrent)
      BY <2>2, <2>3
    <3>. QED  BY <1>0, <2>1, <2>4, <3>1, ReturnedSound
  <2>6. <<>> \in ChunkTexts
    BY EmptySeq DEF ChunkTexts
  <2>. QED  BY <1>0, <2>1, <2>5, <2>6 DEF ChunkingInv
<1>4. CASE UNCHANGED chunkVars
  BY <1>4 DEF chunkVars, ChunkingInv, GroupingInv, WithCurrent, ChunksAreSound
<1>. QED  BY <1>1, <1>2, <1>3, <1>4 DEF ChunkNext

\* Whatever the similarities of its sentences are, a text is chunked without
\* loss into chunks that fit, and semantic_chunk keeps every sentence whole
\* that fits one.
THEOREM ChunkingIsSound == ChunkSpec => []ChunksAreSound
<1>1. ChunkingInv => ChunksAreSound
  BY DEF ChunkingInv
<1>. QED  BY <1>1, ChunkInitHolds, ChunkNextHolds, PTL DEF ChunkSpec
=============================================================================
