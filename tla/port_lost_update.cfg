SPECIFICATION MCSpec
CONSTANTS
  c1 = c1
  c2 = c2
  d1 = d1
  f1 = f1
  profile = profile
  vlans = vlans
  v1 = v1
  v2 = v2
  base = base
  Client <- TwoClients
  Draft <- OneDraft
  Foreign <- OneForeign
  Leaf <- OnePort
  VlanList <- ListOfPort
  ProfileOf <- ProfileOfPort
  Value <- Strings
  ValidList <- Strings
  PortMode <- NoPortMode
  PortProfiles <- FourProfiles
  ProfileLists <- UpToThreeProfiles
  Blank = Blank
  Nil = Nil
  NoDoc = NoDoc
  SilentLoss = FALSE
  MaxLate = 0
  MaxEdits = 0
PROPERTIES
  PreservesSiblings
