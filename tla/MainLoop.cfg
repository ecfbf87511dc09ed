CONSTANTS
  W = 16
  Period = 3
  Interval <- SomeIntervals
  MaxTurn = 6
  MaxDatagrams = 3
SPECIFICATION FairSpec
INVARIANTS
  NeverLate
  DigitsAgree
  DatagramsCounted
PROPERTIES
  NeverEarly
  TimersFire
