SPECIFICATION Spec
CONSTANTS
  Peers = {p1}
  Clients = {}
  Listener = Listener
  Pipe = Pipe
  Nil = Nil
  max_connections = 0
  idle_timeout_ms = 0
  request_timeout_ms = 1
  connect_timeout_ms = 0
  max_send_buffer = 0
  RecvSize = 2
  Word = 64
  Budget = 2
  MaxClock = 4
INVARIANT RequestInWindow
