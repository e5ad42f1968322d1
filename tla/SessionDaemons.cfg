CONSTANTS
  Daemons = {d1, d2}
  Clients = {c1}
  Dirs = {"run", "here", "deep"}
  Long = {"deep"}
  Relative = {"here"}
  Environments <- MCVaried
  NoOne = NoOne
  Backlog = 1
  MaxWakeups = 1
  Behaviours = {"kill", "errors", "bad_input"}
SPECIFICATION Spec
INVARIANTS
  TypeOK
  OwnSocket
  SocketLeft
  CrashCause
PROPERTIES
  LaunchedReachable
\* Everybody exits in the end, or has crashed.
CHECK_DEADLOCK FALSE
