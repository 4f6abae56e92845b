\* One question, three calls of which two are the same but for key order.
SPECIFICATION LoopSpec
CONSTANTS
  x1 = x1
  x2 = x2
  u1 = u1
  u2 = u2
  ca = ca
  caSwapped = caSwapped
  cb = cb
  Asks = {x1}
  Users = {u1, u2}
  UserOf <- AskOfOne
  Streamed = {x1}
  NoUser = NoUser
  Calls = {ca, caSwapped, cb}
  KeyOf <- SameFunction
  Chars <- Sizes
  MaxEvidenceChars = 6
  MinEvidencePerCall = 1
  CompactChars = 4
  MaxPerRound = 2
  MaxConvs = 1
  MaxCrashes = 0
INVARIANTS
  EvidenceIsWhole
  EvidenceIsAudited
  AnswersHold
  BoundedOvershoot
PROPERTIES
  EndedIsFinal
  LoopIsRounds
  EveryQuestionEnds
CHECK_DEADLOCK FALSE
