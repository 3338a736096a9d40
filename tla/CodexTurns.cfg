CONSTANTS
  AskCalls = {a1, a2}
  Reads = {r1}
  Ids = {q1}
  NoAsk = NoAsk
  MaxMessages = 1
  MaxFailures = 1
SPECIFICATION TurnsFairSpec
CHECK_DEADLOCK FALSE
INVARIANTS TurnsTypeOK MessagesInOrder FailureExplained
PROPERTIES UsesEnd
