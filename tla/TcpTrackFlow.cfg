CONSTANTS
  cpu1 = cpu1
  cpu2 = cpu2
  dump1 = dump1
  ct1 = ct1
  None = None
  CPUs = {cpu1, cpu2}
  Readers = {}
  Conns = {ct1}
  Packets <- FlowPackets
  SeqMod <- MCSeqMod
  TrackerStates <- FlowTrackerStates
  TrackerInfos <- Infos
  FlagSets <- FlowFlags
  ZoneBounds <- Bounds
SPECIFICATION Spec
SYMMETRY Symmetry
PROPERTIES SegmentRecorded
VIEW FlowView
