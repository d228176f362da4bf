\* Pages of one clip, of two for page 1 of a profile, which tile; one row a lane and
\* pass, two events of any kind.
SPECIFICATION Spec
CONSTANTS
  clipA = clipA
  clipB = clipB
  late = late
  author = author
  tag = tag
  list = list
  Clips <- MCClips
  Creators = {author}
  Tags = {tag}
  Playlists = {list}
  Author <- MCAuthor
  Published <- MCPublished
  Tagged <- MCTagged
  Contents <- MCContents
  Owner <- MCOwner
  Editorial = {list}
  Contest = {clipA}
  Cohort <- MCCohort
  Start <- MCStart
  Fragile = {clipA, list}
  Volatile = {clipA}
  MaxEvents = 2
  Floor = 1
  MaxCount = 2
  PageSize = 1
  FirstPage = 2
  SecondPage = 2
  PerPass = 1
  GiveUp = 2
  SeedTries = 2
INVARIANTS
  DoneMeansCovered
PROPERTIES
  QueuesDrain
  HistoryImplemented
