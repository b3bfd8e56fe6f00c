CONSTANTS
  None = None
  Bits <- MCBits
  Fields = {"src", "sport", "icmp_id"}
  Protocols = {"tcp", "icmp", "sctp"}
  ZoneIds = {0, 1}
  Entries <- MCEntries
  MaxCriteria = 4
SPECIFICATION Spec
CHECK_DEADLOCK FALSE
INVARIANTS FilterExact
PROPERTY NarrowingNeverWidens
