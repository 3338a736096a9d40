CONSTANTS
  AskCalls = {a1, a2}
  Reads = {r1}
  Ids = {q1}
  NoAsk = NoAsk
  MaxMessages = 1
  MaxFailures = 0
SPECIFICATION TurnsSpec
CHECK_DEADLOCK FALSE
INVARIANTS ActiveTurnRegistered
