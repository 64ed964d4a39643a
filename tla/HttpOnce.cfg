SPECIFICATION HttpSpec
CONSTANTS
  Requests = 2
  Kinds = {"get", "badte"}
  EarlyAnswers = 1
INVARIANT DeliveredOnce
