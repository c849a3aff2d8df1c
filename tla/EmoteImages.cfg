CONSTANTS
  r1 = r1  r2 = r2  u7 = u7  uF = uF
  Global = Global  None = None
  RoomIds = {r1, r2}
  Names = {1, 2}
  Urls = {u7, uF}
  ProviderOf <- MCProviderOf
  Identity <- MCIdentity
  Numbers = {1, 2, 3, 4}
  MaxRooms = 1
  MaxRoom = 2
  MaxGlobal = 1
  MaxHistory = 2
  RoomIdle = 0
  SweepSeconds = 1
  HistorySeconds = 2
  MaxDelay = 1
  MaxClock = 4
SYMMETRY RoomSymmetry
SPECIFICATION Spec
INVARIANTS OneImagePerNumber
PROPERTIES KeepsServed
