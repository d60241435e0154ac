SPECIFICATION Spec
CONSTANTS
  Letter = Letter
  Dash = Dash
  Width = 2
  MaxText = 2
  MaxStr = 3
  FieldTexts <- MCFieldTexts
  ValueTexts <- MCValueTexts
  MaxFields = 2
  Space = Space
  LzvnMin = 8
  LzvnLimit = 24
  Sizes <- MCSizes
  Payloads <- MCPayloads
  Values = {v1, v2}
  Sets = {s1, s2}
  Indices <- MCIndices
  MaxList = 3
  Garbage = Garbage
  Nil = Nil
  Members = {1, 2, 3}
  Scores <- MCScores
  Deltas <- MCDeltas
  Keys = {k1, k2}
  Tokens = {"int", "word", "empty", "addr", "huge"}
  MaxValues = 3
  Absent = Absent
  Clients = {c1, c2}
  Limit = 3
  Numbers = {0, 1, 2}
  MaxDbs = 4
  MaxRestarts = 2
SYMMETRY Symmetry
INVARIANTS EncodingSound ScanFinds Mirrored RoundTrip ReadsInBounds FreshNumbers Selectable
PROPERTIES IndicesWrap LoadIsStable PlainTextSurvives  ErrorChangesNothing
CHECK_DEADLOCK FALSE
