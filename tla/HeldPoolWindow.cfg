SPECIFICATION HeldSpec
CONSTANTS
  Consumers = {q1, q2}
  Lines = {l1, l2}
  NoLine = NoLine
INVARIANT HeldOnlyByOpenWindow
