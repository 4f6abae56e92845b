\* Two questions of one person, one streamed, in up to two conversations that may be deleted.
SPECIFICATION PairSpec
CONSTANTS
  x1 = x1
  x2 = x2
  u1 = u1
  u2 = u2
  ca = ca
  caSwapped = caSwapped
  cb = cb
  Asks = {x1, x2}
  Users = {u1, u2}
  UserOf <- AsksOfOne
  Streamed = {x1}
  NoUser = NoUser
  Calls = {ca}
  KeyOf <- KeyOfOne
  Chars <- SizeOfOne
  MaxEvidenceChars = 6
  MinEvidencePerCall = 1
  CompactChars = 4
  MaxPerRound = 1
  MaxConvs = 2
  MaxCrashes = 1
INVARIANT
  AnswersHold
CHECK_DEADLOCK FALSE
