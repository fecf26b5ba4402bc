SPECIFICATION VideoSpec
CONSTANTS
  Previews = {p1, p2}
  Signalers = {s1, s2}
  Nothing = Nothing
INVARIANT StoppedIsConfirmed
