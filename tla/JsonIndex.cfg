SPECIFICATION PartsSpec
CONSTANTS
  Parts_ = {"json"}
  ta = ta
  tb = tb
  tc = tc
  Frames = 4
  Scripts <- SomeScripts
  Timers = {ta, tb, tc}
  NoTimer = NoTimer
  Heap = {tb}
  Repeat = {ta}
  RunNow = {ta}
  Period <- PeriodOf
  ClockWrap = 5
  MaxTime = 6
  align = 3
  Chars = {1, 2}
  Header <- OneByte
  MaxBuf = 4
  Main = Main
  Workers = {w1, w2}
  Others = {o1}
  NoCall = NoCall
  Gil = TRUE
  MaxCalls = 2
  Functions_ = {"none"}
  Alphabet <- AlphabetOf
  OperandAlphabet <- OperandAlphabetOf
  MaxText <- MaxTextOf
  MaxOperand <- MaxOperandOf
  Wide = 4095
  Block = 4
  Half = 64
  Groups = 4
  ByteBits = 2
  Peers <- PeersAsked
  Heads <- SomeHeads
  MaxHeaders = 2
  Bodies <- SomeBodies
  IntDigits = 3
  Payloads <- SomePayloads
  Forms <- SomeForms
  Lookups <- SomeLookups
  NameSize = 16
  PacketMax = 84
  MaxAnswers = 3
  MaxPointers = 2
  Follow <- Following
  Docs <- SomeDocs
  Names = {"a", "b"}
  Indices = {"0", "1"}
  IndexOf <- Index
  MaxPath = 3
  MaxDepth = 2
INVARIANT MissingNotFound
CHECK_DEADLOCK FALSE
