CONSTANTS
  Robots = {ra, rb}
  Bodies = {b1}
  Channels = {80, 200}
  FullRecs = 1
  MaxRecs = 2
  InboxCap = 2
  MaxDatagrams = 2
  MaxResets = 1
SPECIFICATION FairSpec
INVARIANTS
  Addressed
  SpinWaitsForOnePacket
  ChannelsCoherent
PROPERTIES
  AirUndisturbed
  ForwardsInOrder
  ReturnsOrStuck
