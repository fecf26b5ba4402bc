SPECIFICATION Spec
CONSTANTS
  c1 = c1
  c2 = c2
  h1 = h1
  h2 = h2
  l1 = l1
  Callers = {c1}
  Handlers = {h1, h2}
  Locs = {l1}
  MaxAdds = 1
  LateAttach = FALSE
  Refusable = {}
  LegacyCasing = FALSE
\* The session may be over with nobody left to call: the system stops there.
CHECK_DEADLOCK FALSE
INVARIANT PolledStopIsCurrent
