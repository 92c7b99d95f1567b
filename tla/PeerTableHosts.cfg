\* Two hosts for a short time: their packets interleave.
CONSTANTS
  Hosts = {h1, h2}
  Ports = {60000, 60001, 65023}
  OptInPorts = {60000}
  DjPorts = {60000, 60001}
  OptOutPorts = {60000}
  ListenPorts = {65023}
  DefaultPort = 65023
  Timeout = 1
  UptimeWrap = 3
  MaxControllers = 2
  Horizon = 1
  MaxTime = 2
  None = None
SPECIFICATION Spec
INVARIANTS HostsKeptApart
