SPECIFICATION Spec
CONSTANTS
  Sessions = {s1, s2, s3}
  NoSession = NoSession
  MaxToken = 4
  MaxClock = 3
SYMMETRY Symmetry
INVARIANTS
  IssueOrder
PROPERTIES
  VisibleInOrder
  TakesTokensAtomically
