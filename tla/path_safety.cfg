SPECIFICATION MCSpec
CONSTANTS
  c1 = c1
  d1 = d1
  f1 = f1
  pathA = pathA
  pathB = pathB
  desc = desc
  label = label
  mode = mode
  v1 = v1
  v2 = v2
  bad = bad
  Client <- OneClient
  Draft <- OneDraft
  Foreign <- OneForeign
  Path <- TwoPaths
  Key <- Keys
  ForbiddenKey <- OneForbidden
  Document <- Documents
  AllowedKeys <- AllowedSets
  WordsIn <- BadWords
  NoDoc = NoDoc
  Nil = Nil
  SilentLoss = FALSE
  MaxPreviews = 1
  MaxLate = 1
  MaxEdits = 1
VIEW NoCodes
INVARIANTS
  TypeOK
  UnracedWriteChangesOnlyNamed
  ForbiddenLeavesStay
  WordsAreOfTheMainline
  RowsWerePreviewed
