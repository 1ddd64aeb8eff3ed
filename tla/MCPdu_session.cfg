SPECIFICATION Spec
CONSTANTS
  MAC_ADDRESS_LENGTH = 2
  RANDOM_NUM_LENGTH = 3
  NAME_LENGTH = 3
  DATA_UDP_LENGTH = 6
  PORT_LENGTH = 3
  MaxName = 3
  MaxSituation = 4
  MaxElements = 4
  Fresh = {0, 50, 76}
  Table <- MCTable
  Config <- MCConfig
  SrvMac <- MCSrvMac
  RandomNum <- MCRandomNum
  UdpPort <- MCUdpPort
  Reason <- MCReason
INVARIANTS TypeOK AcceptsOffer Agreed FoundIsSender InfoKept EchoBoundary
