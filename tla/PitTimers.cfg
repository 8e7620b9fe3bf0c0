\* Two slots, three timers, with interrupts between any two field writes.
SPECIFICATION TimersSpec
CONSTANTS
  h1 = h1
  h2 = h2
  Slots = {0, 1}
  Ids = {1, 2, 3}
  Handlers = {h1, h2}
  Periods <- MCPeriods
  Step = 10
  Width = 40
INVARIANTS OneSlotPerTimer CallsMeant RingsOnTime
PROPERTY RingsForEver
