SPECIFICATION MCSpec
CONSTANTS
  c1 = c1
  d1 = d1
  f1 = f1
  t1 = t1
  r1 = r1
  r2 = r2
  Client <- OneClient
  Draft <- OneDraft
  Foreign <- OneForeign
  Text <- OneText
  RequestId <- TwoIds
  Nil = Nil
  EagerEntry <- OnlyFirst
  MaxLate = 0
PROPERTIES
  RefusedChangesNothing
