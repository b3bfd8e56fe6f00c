CONSTANTS
  cpu1 = cpu1
  cpu2 = cpu2
  dump1 = dump1
  ct1 = ct1
  None = None
  CPUs = {cpu1, cpu2}
  Readers = {}
  Conns = {ct1}
  Packets <- LastEndPackets
  SeqMod <- MCSeqMod
  TrackerStates <- RaceTrackerStates
  TrackerInfos <- Infos
  FlagSets <- RaceFlags
  ZoneBounds <- OneBound
SPECIFICATION Spec
INVARIANT LastEndOfSegment
