SPECIFICATION ApplicationSpec
CONSTANTS
  Holders = {h1, h2}
  Courtesy = Courtesy
  Consoles = {c1, c2, c3}
  NoConsole = NoConsole
  Consumers = {q1, q2}
  Lines = {l1, l2, l3}
  NoLine = NoLine
  Clients = {w1, w2}
  MaxSessions = 2
  MaxLines = 3
  MaxGap = 2
  Previews = {p1, p2}
  Signalers = {s1, s2, s3}
  Nothing = Nothing
  MaxUploads = 3
  Targets = {t1, t2}
  LocalTarget = t1
  EventIds = {e1, e2}
  NoEvent = NoEvent
  MaxPuts = 4
  FileCap = 2
  Readers = {r1}
  d1 = d1
  n1 = n1
  b1 = b1
  Callers = {d1}
  Handlers = {n1}
  Locs = {b1}
  MaxAdds = 1
  a1 = a1
  a2 = a2
  AttachRuns = {a1, a2}
  MaxClients = 3
  LateAttach = TRUE
  Refusable = {"Continue", "Step", "AddBreakpoints", "Threads", "StackTrace", "Variables", "Execute",
               "VariablesRetry"}
  LegacyCasing = TRUE
INVARIANTS
  ServicesTypeOK
  NoOrphan
  WindowInStep
  LeaseHasConsole
  NoLineOrphaned
  WindowHoldsItsLine
  NoLineLost
  NoLineTwice
  NoClientLeftBehind
  StoppedLeavesNothing
  OneAttempt
  OnlyLookupEnds
  KeepaliveHasSession
  StoredIsFound
  ReadsOwnEvent
  HaltedUnlessLate
  AttachTypeOK
  SessionIsUsable
  OneLiveClient
PROPERTIES
  EndsInSilence
  InstalledRunEnds
  EndSettles
  LateEndKeepsSession
  AttachSettles
