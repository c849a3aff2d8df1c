CONSTANTS
  r1 = r1  r2 = r2  r3 = r3
  Global = Global
  None = None
  Main = Main
  Receivers = {t1}
  RoomIds = {r1, r2, r3}
  Providers = {bttv}
  MaxRooms = 2
  RoomIdle = 1
  SweepSeconds = 2
  RetrySeconds = 1
  MaxFailures = 2
  MaxDoublings = 1
  MaxClock = 3
  MaxGeneration = 5
SYMMETRY RoomSymmetry
SPECIFICATION Spec
INVARIANTS SetsOwned PendingWhileFetching
PROPERTIES EvictsIdleOrOldest LoadedStays
CHECK_DEADLOCK FALSE
