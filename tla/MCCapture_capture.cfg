\* Two captures, a queue and a disk that fill up, buffers shorter and longer
\* than the room that is left; a timeout too short for the longer interval.
CONSTANTS
  MaxCaptures = 2
  QueueRoom = 3
  DiskBudget = 3
  Preroll = 2
  Ceiling = 2
  Buffers = {1, 3}
  MaxHeard = 5
  Seconds = {1, 2}
  MaxSameSecond = 0
  MaxHeld = 2
  Configured = "configured"
  Stamps = {"configured", "on"}
  MaxFrames = 2
  Window = 1
  Reported = {"MicrophoneGap"}
  Quiets = {0, 2}
  Intervals = {1, 2}
  MaxEdits = 2
  MaxStarts = 1
  MaxTime = 3
SPECIFICATION Spec
CHECK_DEADLOCK FALSE
INVARIANTS
  RecordedIsWhole MemoryIsTheCapture KeptIsThere ShowsWhatIs SettingsAreSound
PROPERTIES
  SavesWhole
