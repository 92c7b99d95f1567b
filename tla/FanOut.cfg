\* Two peers that come, go and change role, and packets of both kinds of queue.
CONSTANTS
  Peers = {p, q}
  Roles = {"Master", "Repeater"}
  Absent = Absent
  MaxPackets = 2
  MaxChanges = 3
SPECIFICATION FairSpec
INVARIANTS TypeOK RolesServed OrderKept
PROPERTIES LeaversLeftAlone KeepsAnnouncing
