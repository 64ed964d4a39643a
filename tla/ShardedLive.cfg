SPECIFICATION FairSpec
CONSTANTS
  N = 1
  Conns = {c1, c2}
  NoConn = NoConn
  MaxConns = 0
  Ctl = {t1}
  Piped = {}
  PipeCap = 1
  Stalled = {c1}
  MaxRuns = 1
PROPERTY DrainEndsRun
PROPERTY StopEndsRun
PROPERTY HandOffCompletes
