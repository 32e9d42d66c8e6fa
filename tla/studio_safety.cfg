SPECIFICATION MCSpec
CONSTANTS
  c1 = c1
  d1 = d1
  f1 = f1
  s1 = s1
  t1 = t1
  t2 = t2
  q1 = q1
  q2 = q2
  Client <- OneClient
  Draft <- OneDraft
  Foreign <- OneForeign
  Studio <- OneStudio
  Template <- TwoTemplates
  Disruptive <- OneDisruptive
  Query <- TwoQueries
  Empty = Empty
  Mainline = Mainline
  NoRow = NoRow
  Removed = Removed
  Nil = Nil
  SilentLoss = FALSE
  MaxLate = 1
  MaxEdits = 1
VIEW NoCodes
INVARIANTS
  TypeOK
  UnracedWriteIsGuarded
  DraftHoldsOnlyPreviews
  ProtectedStudiosStay
