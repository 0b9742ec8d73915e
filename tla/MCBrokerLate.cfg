SPECIFICATION BrokerSpec
CONSTANTS
  QUEUE_SIZE = 2
  INDICES = 4
  Lengths = {2}
  MaxDeclared = 2
  BUFFER_BYTES = 3
  MaxAsks = 4
INVARIANT NoAnswerMisattributed
CHECK_DEADLOCK FALSE
