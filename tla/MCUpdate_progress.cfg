CONSTANTS
  c1 = c1  v1 = v1  v2 = v2  v3 = v3  v4 = v4
  Client = {c1}
  Version = {v1, v2, v3}
  NoVersion = NoVersion
  Corrupt = Corrupt
  FileSize <- LengthsHole
  Release <- ReleaseMain
  MaxSequence = 4
  MaxInFlight = 2
  UPDATE_SIZE = 16
  FRAG_FLOOR = 7
  NO_FRAG = 5
  MAX_RETRIES = 2
  BEGIN_PERIOD = 1
  METER_PERIOD = 1
  POLL_PERIOD = 1
  PIECE_PERIOD = 1
  NonTOS = {}
  AutoUpdate = {c1}
  Duplicates = FALSE
  Blackhole = TRUE
  Stale = FALSE
  Reloads = FALSE
  Faults = {}
SPECIFICATION FairSpec
PROPERTY EventuallyUpToDate
