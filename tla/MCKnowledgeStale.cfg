SPECIFICATION Spec
CONSTANTS
  DocIds <- MCDocIds
  Texts <- MCTexts
  Blank = "blank"
  Query = "query"
  Rewrites = {"rewrite"}
  Distance <- MCDistance
  CandidatePool = 2
  TopK = 1
  UseExpansion = TRUE
  UseRerank = TRUE
  MaxChunks = 2
  MaxRewrites = 2
  MaxIngests = 2
INVARIANTS
  OldVersionGone
