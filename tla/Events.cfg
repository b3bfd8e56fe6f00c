CONSTANTS
  ct1 = ct1
  ct2 = ct2
  daemon = daemon
  monitor = monitor
  dump1 = dump1
  None = None
  Cts = {ct1, ct2}
  Listeners = {daemon, monitor}
  Dumps = {dump1}
  Groups <- MCGroups
  Options <- MCOptions
  Requesters = {daemon}
  Family <- MCFamily
  Asked = {10}
  Related = {ct2}
  QueueLen <- MCQueueLen
  RoomMax = 1
SPECIFICATION FairSpec
INVARIANTS TypeOK RefsBalanced NoSilentLoss ReliableNotForgotten StableReported
PROPERTY DyingLeave
