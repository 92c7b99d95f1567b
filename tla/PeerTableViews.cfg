\* A peer that opts in from port 60000 and listens on port 65023.
CONSTANTS
  Hosts = {h1}
  Ports = {60000, 60001, 65023, 65024}
  OptInPorts = {60000}
  DjPorts = {60000, 60001}
  OptOutPorts = {60000}
  ListenPorts = {65023, 65024}
  DefaultPort = 65023
  Timeout = 2
  UptimeWrap = 3
  MaxControllers = 2
  Horizon = 2
  MaxTime = 4
  None = None
SPECIFICATION Spec
INVARIANT ViewAtPublishedAddress
