SPECIFICATION Spec
CONSTANTS
  c1 = c1
  d1 = d1
  f1 = f1
  g1 = g1
  g2 = g2
  s1 = s1
  r1 = r1
  r2 = r2
  p1 = p1
  m1 = m1
  m2 = m2
  x = x
  y = y
  Client <- OneClient
  Draft <- OneDraft
  Foreign <- OneForeign
  Group <- Groups
  Service <- Services
  Rule <- Rules
  Policy <- Policies
  Monitor <- Monitors
  Content <- Contents
  Batch <- AllBatches
  Disruptive <- Disruptives
  StartDoc <- UsualAndOdd
  LeftBehind <- DanglingOrMalformed
  Any = Any
  Absent = Absent
  Malformed = Malformed
  NoDoc = NoDoc
  Nil = Nil
  MaxOperations = 3
  SilentLoss = FALSE
  MaxPreviews = 2
  MaxLate = 1
  MaxEdits = 1
VIEW NoCodes
INVARIANTS
  TypeOK
  UnracedWriteDoesAsSaid
  DraftDocumentsAreWhole
  DraftIsAPreviewedDocument
PROPERTIES
  KeepsPromise
