SPECIFICATION Spec
CONSTANTS
  high = high
  mid = mid
  low = low
  e1 = e1
  e2 = e2
  g1 = g1
  f1 = f1
  f2 = f2
  m1 = m1
  m2 = m2
  Task = {high, mid, low}
  Idle = idle
  Event = {e1, e2}
  LowestPrio = 5
  MaxNesting = 1
  Ticks = {0, 1}
  Msg = {m1, m2}
  None = none
  Reserved = reserved
  MaxCnt = 1
  Counts = {0}
  Size = 2
  MaxQs = 1
  Group = {g1}
  Flag = {f1, f2}
  Apps <- AllApps
INVARIANTS
  TablesConsistent
  ReadyConsistent
  WaitConsistent
  RunsHighest
  NothingMissed
  GrantsKept
  MutualExclusion
  NoInversion
PROPERTY
  ImplementsChannel
