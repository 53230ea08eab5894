SPECIFICATION FairSpec
CONSTANTS
  Files <- Written
  Unreadable = Unreadable
  Environment <- Set
  NeedsAllowlist <- Adapters
  NoGuard = NoGuard
  NotLoaded = NotLoaded
  NoRoute = NoRoute
  Turns = {t1, t2}
  ShutdownGrace = 3
  DefaultTimeout = 1
  ReadTime = 1
  Mapped <- OneOne
  ShortBits <- TwoBits
  Unparseable = Unparseable
  Blank = Blank
  Malformed = Malformed
INVARIANTS
  TypeOK
  ExitReleasesTheStore
  OnlySlowTurnsAreCut
  
  ServingAnswersSomeone
PROPERTY
  StopsInTime
CHECK_DEADLOCK FALSE
