SPECIFICATION PoolSpec
CONSTANTS
  Holders = {h1, h2}
  Courtesy = Courtesy
  Consoles = {c1, c2, c3}
  NoConsole = NoConsole
INVARIANT LastReleaseCloses
