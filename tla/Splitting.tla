----------------------------- MODULE Splitting -----------------------------
(***************************************************************************)
(* Texts as sequences of symbols, and what splitting one at a separator    *)
(* (JavaScript's split, Python's re.split) leaves.                         *)
(***************************************************************************)
EXTENDS Integers, Sequences, FiniteSets

\* The separators of a text are the spans <<first, last>> they occupy, which
\* do not overlap; these are they from left to right.
InOrderOfText(gaps) ==
  [n \in 1..Cardinality(gaps) |->
     CHOOSE gap \in gaps : Cardinality({g \in gaps : g[1] < gap[1]}) = n - 1]

\* The parts between the separators, empty ones included.
Split(text, gaps) ==
  LET ordered == InOrderOfText(gaps)
      n == Len(ordered)
  IN  [i \in 1..n + 1 |->
         SubSeq(text, IF i = 1 THEN 1 ELSE ordered[i - 1][2] + 1,
                      IF i > n THEN Len(text) ELSE ordered[i][1] - 1)]

\* All texts of at most that many symbols.
TextsUpTo(symbols, length) == UNION {[1..n -> symbols] : n \in 0..length}
=============================================================================
