CONSTANTS
  long = long
  short = short
  other = other
  None = None
  NoFrame = NoFrame
  Tracks <- MCTracks
  Length <- MCLength
  Format <- MCFormat
  Frame <- MCFrame
  Batch <- MCBatch
  Capacity = 3
  Chunk = 2
  Block = 2
  MaxCommands = 3
  MaxArms = 2
  MaxFailures = 1
SPECIFICATION Spec
VIEW View
CHECK_DEADLOCK FALSE
INVARIANTS
  HeardAsTold
  CommandsHold
PROPERTIES
  BufferIsFifo
  EndIsHeard
