SPECIFICATION Spec
CONSTANTS
  Peers = {p1, p2}
  Clients = {k1, k2}
  Listener = Listener
  Pipe = Pipe
  Nil = Nil
  max_connections = 1
  idle_timeout_ms = 0
  request_timeout_ms = 0
  connect_timeout_ms = 0
  max_send_buffer = 1
  RecvSize = 1
  Word = 64
  Budget = 2
  MaxClock = 1
INVARIANT WalkSound
INVARIANT PassVisitsAll
INVARIANT CountsExact
INVARIANT DrainMarksAll
PROPERTY ImplementsAdmission
SYMMETRY Symmetry
