SPECIFICATION ControlSpec
CONSTANTS
  Rows = {r1}
  FlowIds = {1, 2}
  FlowOwners = {w1}
  Operators = {p1, p2}
  EventRoom = 1
  DeviceRoom = 1
  MaxChanges = 3
  Clients = {c1, c2}
  NoClient = NoClient
  Keys = {k1, k2}
  Clock = {1}
  MAX_RETRIES = 2
  MaxBatch = 2
  MaxCalls = 3
  Ips = {1, 2}
  WorkerSlots = {1, 2}
  WanRoom = 1
  MaxDdnsSteps = 2
  DnsCallers = {d1, d2, d3}
  Traced = {d1}
  UpIps = {u1, u2}
  has_udp = TRUE
  attempts = 2
  fanout = 2
  MAX_CNAME_DEPTH = 1
  UPSTREAM_FAILURE_THRESHOLD = 2
  ProbeLoops = {1, 2}
INVARIANTS FlowInv TransactionsSound  DnsLookupInv
CHECK_DEADLOCK FALSE
