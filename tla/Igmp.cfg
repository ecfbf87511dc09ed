CONSTANTS
  MaxResps = {4, 9, 20}
  Queries = {"general", "specific", "specific to all"}
  MaxMessages = 5
SPECIFICATION FairSpec
INVARIANTS
  LastReporterIsUs
  AnswerScheduled
PROPERTIES
  QueryAnswered
