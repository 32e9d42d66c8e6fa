SPECIFICATION Spec
CONSTANTS
  Device <- Switches
  Host <- Hosts
  Port <- Ports
  PortMac <- SwitchThree
  NoEth <- SwitchTwo
  LocalId <- LocalIds
  WithSerial <- OneAndThree
  TreeAnswers <- SwitchThree
  Star = Star
  None = None
  Lab <- SwitchThree
  Cap <- Caps
  Wirings <- SixWirings
  MapCalls <- FourCalls
  MaxChanges = 1
  MaxFaults = 1
  ExtraLimit = 2
INVARIANT
  VerifiedLinksJoinTwoDevices
