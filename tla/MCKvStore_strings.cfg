CONSTANTS
  k1 = k1
  k2 = k2
  txt = txt
  Keys = {k1, k2}
  Text = {txt}
  IntMax = 1
  MsPerSecond = 2
  TicksPerMs = 2
  None = None
  Commands <- StringCommands
  MaxTime = 5
  MaxList = 2
SPECIFICATION Spec
INVARIANTS TypeOK
PROPERTIES Linearizable DeadlineHonoured TtlTruthful LapsesOnTime
