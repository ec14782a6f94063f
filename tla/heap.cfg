SPECIFICATION Spec
CONSTANTS
  Semi = 12
  WeakBlock = 4
  MaxSteps = 7
  Base = 5
  StartupSpace = 1
  FinalizeBytes = FALSE
  ChannelIndexes <- OneChannel
  Uses <- AllUses
INVARIANTS HeapSound CollectionIsIdeal ChannelsAgree
PROPERTIES FoundAll DumpLeavesHeap ImageRestored
