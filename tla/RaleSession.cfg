SPECIFICATION FairSpec
CONSTANTS
  MaxSockets = 4
  MaxCommands = 3
INVARIANTS
  TypeOK
  CommandsAreSerial
  AnswersStayOnSocket
  MixedOnlyByTimeout
PROPERTIES
  CommandsSettle
