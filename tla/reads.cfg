SPECIFICATION MCSpec
CONSTANTS
  Group <- Groups
  Key <- Keys
  GroupOf <- GroupOfKey
  Limited <- LimitedKeys
  Rate <- Rates
  Period <- TwoTicks
  DisableLists <- Lists
  MaxTime = 5
  ConfigKey = "device.config"
  Device <- Three
  AccessPoint <- TheThird
  HostnameOf <- Names
  ShortFor <- LongForms
  Targets <- AllTargets
  MaxAttempts = 3
  MaxVersion = 1
  None = None
INVARIANTS
  TypeOK
  AtMostRateInAnyWindow
  DeniedOnlyWhenFull
  TextIsOfTheTarget
  ComplianceTextIsOfTheCall
  FullMeansWhole
PROPERTIES
  SearchEnds
