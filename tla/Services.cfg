CONSTANTS
  Names = {1, 2, 3}  Providers = {0, 1, 2}  MaxItems = 2  MaxEntries = 3
  Global = Global  None = None  Main = Main  Receivers = {t1}
  RoomIds = {r1}  PendingProviders = {bttv, ffz}
  MaxRooms = 1  RoomIdle = 1  SweepSeconds = 2  RetrySeconds = 1
  MaxFailures = 2  MaxDoublings = 1  MaxClock = 2  MaxGeneration = 3
  NoThread = NoThread  UserThread = UserThread  LogThreads = {t1}
  LineSizes = {1, 2}  RotationSize = 1  LogLimit = 2  MaxLines = 2  MaxLaunches = 2
  Keys = {k1, k2, k3, k4}  Identifiers = {i1, i2, i3, i4}  LabelSlots = 3  CounterWrap = 6
  a = a  w = w  Do = Do  Sp = Sp  Nb = Nb
  Narrow = {a}  Wide = {w}  Marks = {Do}  Blanks = {Sp}  OtherBlanks = {Nb}
  Frames <- FewFrames  NameSets <- CodeSets
  MaxWord = 3  MaxAdditions = 2  MaxGrowth = 3
  u1 = u1  u2 = u2  NoUser = NoUser  Users = {u1, u2}  Batches <- FewBatches
SPECIFICATION Spec
CHECK_DEADLOCK FALSE
INVARIANTS RankDecides SizeBounded ReportAgrees QuietWhenOff LabelsHeld FrameRewritten LocalTextKept
PROPERTIES PendingEnds
