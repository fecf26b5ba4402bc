SPECIFICATION AttachSpec
CONSTANTS
  r1 = r1
  r2 = r2
  AttachRuns = {r1, r2}
  MaxClients = 3
INVARIANT DestroyedHoldsNoSlot
