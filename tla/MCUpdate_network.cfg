CONSTANTS
  c1 = c1  v1 = v1  v2 = v2  v3 = v3  v4 = v4
  Client = {c1}
  Version = {v1, v2, v3}
  NoVersion = NoVersion
  Corrupt = Corrupt
  FileSize <- Lengths
  Release <- ReleaseMain
  MaxSequence = 4
  MaxInFlight = 2
  UPDATE_SIZE = 6
  FRAG_FLOOR = 4
  NO_FRAG = 2
  MAX_RETRIES = 0
  BEGIN_PERIOD = 1
  METER_PERIOD = 1
  POLL_PERIOD = 1
  PIECE_PERIOD = 1
  NonTOS = {}
  AutoUpdate = {c1}
  Duplicates = TRUE
  Blackhole = FALSE
  Stale = TRUE
  Reloads = FALSE
  Faults = {"publish"}
SPECIFICATION Spec
INVARIANTS PieceFitsDatagram InstalledIsRelease
