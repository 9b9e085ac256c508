CONSTANTS
  k1 = k1
  k2 = k2
  txt = txt
  Keys = {k1}
  Text = {txt}
  IntMax = 1
  MsPerSecond = 2
  TicksPerMs = 1
  None = None
  Commands <- CollectionCommands
  MaxTime = 3
  MaxList = 2
SPECIFICATION FairSpec
INVARIANTS NoEmptyCollection
PROPERTIES Linearizable RangeExact EventuallySwept ShutdownEnds
