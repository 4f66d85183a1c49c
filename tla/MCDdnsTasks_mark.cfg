SPECIFICATION DdnsSpec
CONSTANTS
  Ips = {1, 2}
  WorkerSlots = {1, 2}
  WanRoom = 1
  MaxDdnsSteps = 1
INVARIANT RacingMarkHonoured
