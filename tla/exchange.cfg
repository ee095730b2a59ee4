SPECIFICATION Spec
CONSTANTS
  StreamDeadline = 6
  RequestDeadline = 4
  HeartbeatInterval = 2
  Delay = 1
  MaxCompute = 9
  Faults = {"connect", "net", "shutdown", "token", "db", "limit"}
INVARIANT ResponseIsTheHandlers
INVARIANT NoSpuriousTimeout
PROPERTY NothingLeftBehind
CHECK_DEADLOCK FALSE
