CONSTANTS
  Robots = {ra}
  Bodies = {b1}
  Channels = {80, 200}
  FullRecs = 2
  MaxRecs = 2
  InboxCap = 1
  MaxDatagrams = 2
  MaxResets = 0
SPECIFICATION FairSpec
PROPERTIES
  EveryDatagramHandled
