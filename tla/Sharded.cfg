SPECIFICATION Spec
CONSTANTS
  N = 2
  Conns = {c1, c2}
  NoConn = NoConn
  MaxConns = 1
  Ctl = {t1}
  Piped = {0, 1, 2}
  PipeCap = 1
  Stalled = {}
  MaxRuns = 2
INVARIANT OneOwner
INVARIANT WakeupsRouteHome
INVARIANT NoLostWakeup
INVARIANT DrainMarksAll
INVARIANT Quiescent
INVARIANT DestroyedClean
INVARIANT DrainLosesNothing
PROPERTY ImplementsAdmission
PROPERTY DrainAdmitsNoMore
SYMMETRY Symmetry
