SPECIFICATION BrokerSpec
CONSTANTS
  QUEUE_SIZE = 2
  INDICES = 4
  Lengths = {2, 3, 4}
  MaxDeclared = 2
  BUFFER_BYTES = 3
  MaxAsks = 4
INVARIANTS OneInFlight OnlyPaidPublicLeaves AnswersTheQuestion AtMostOneLateAnswer
CHECK_DEADLOCK FALSE
