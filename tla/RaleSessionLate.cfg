SPECIFICATION Spec
CONSTANTS
  MaxSockets = 3
  MaxCommands = 3
INVARIANT
  NoCrossContamination
