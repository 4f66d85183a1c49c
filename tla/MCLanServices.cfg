SPECIFICATION ServerSpec
CONSTANTS
  Macs = {m1, m2}
  NoMac = NoMac
  Cap = 2
  Reserved = {}
  Away = {}
  Honest = TRUE
  EventCap = 1
  MaxPushes = 2
  MaxStarts = 1
  Duids = {d1, d2}
  ClientMacs = {e1, e2}
  NoDuid = NoDuid
  NoMac6 = NoMac6
  Suffixes = {1, 2, 3}
  Pool6 = {1, 2}
  PdSlots = {1}
  Parents = {1, 2}
  DeviceQueue = 1
  MaxDeviceEdits = 2
  MaxPrefixChanges = 1
  MaxServerRuns = 1
  Eps = {s1, s2}
  StreamEps = {s1, s2}
  DnsLegs = {l1, l2}
  ConnIds = {1, 2, 3}
  max_conns = 1
  MinConns = {0, 1}
  NoEp = NoEp
  NoConn = NoConn
INVARIANTS DnsPoolInv   
CHECK_DEADLOCK FALSE
