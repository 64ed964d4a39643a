SPECIFICATION Spec
CONSTANTS
  Peers = {p1}
  Clients = {k1}
  Listener = Listener
  Pipe = Pipe
  Nil = Nil
  max_connections = 0
  idle_timeout_ms = 1
  request_timeout_ms = 1
  connect_timeout_ms = 1
  max_send_buffer = 0
  RecvSize = 2
  Word = 64
  Budget = 2
  MaxClock = 3
INVARIANT SurvivorsInTime
PROPERTY ConnectInTime
