CONSTANTS
  MaxPackets = 7
  MaxResets = 0
SPECIFICATION FairSpec
PROPERTIES
  KeepsMonitoring
