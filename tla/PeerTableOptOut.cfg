\* A peer that sends its OptOut as TCNetClient does, from a port the system picks.
CONSTANTS
  Hosts = {h1}
  Ports = {60000, 60001, 65023, 65024, 50000}
  OptInPorts = {60000}
  DjPorts = {60000, 60001}
  OptOutPorts = {50000}
  ListenPorts = {65023, 65024}
  DefaultPort = 65023
  Timeout = 2
  UptimeWrap = 3
  MaxControllers = 2
  Horizon = 2
  MaxTime = 4
  None = None
SPECIFICATION Spec
PROPERTY LeaversDropped
