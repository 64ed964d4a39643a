SPECIFICATION AllFairSpec
CONSTANTS
  Handlers = {"dns", "http"}
  k1 = k1
  k2 = k2
  Clients = {k1, k2}
  Resolver = Resolver
  Nil = Nil
  Host <- Hosts
  TxnIds = {7, 8}
  dnstimeout = 1
  Budget = 2
  MaxClock = 3
  Requests = 2
  Kinds <- AllKinds
  EarlyAnswers = 1
INVARIANT QueriesSound
INVARIANT AnswerMatches
INVARIANT InputConserved
INVARIANT OneAtATime
PROPERTY LookupEnds
PROPERTY NoStall
PROPERTY ErrorIsFinal
