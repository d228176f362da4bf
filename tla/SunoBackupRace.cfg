\* The instance of SunoBackup.cfg, against what the comments promise of an indexed clip.
SPECIFICATION BackupSpec
CONSTANTS
  c1 = c1
  c2 = c2
  Tracks <- MCTracks
  Old <- MCOld
  FeedPage = 1
  RecentPages = 1
  Concurrency = 2
  Chunks = 1
  MaxFaults = 1
  MaxCrashes = 1
INVARIANTS
  IndexedIsComplete
