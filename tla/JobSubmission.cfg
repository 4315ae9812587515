SPECIFICATION Spec
CONSTANTS
  Requests = {r1, r2, r3, r4}
  Keys = {k1}
  Ids = {i1, i2, i3}
  NoRequest = NoRequest
  NoId = NoId
INVARIANTS
  AnswersAgree
  OneJobPerKey
PROPERTIES
  EveryRequestEnds
  IsAtomic
