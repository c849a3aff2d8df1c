CONSTANTS
  c1 = c1  c2 = c2  c3 = c3
  u1 = u1  u2 = u2  u3 = u3
  None = None
  Channels = {c1, c2, c3}
  Urls = {u1, u2, u3}
  Renditions = {}
  Players = 1
  MaxStreams = 2
  MaxRoutes = 2
  StreamTtl = 1
  BackupLife = 1
  MaxClock = 2
  MaxGeneration = 3
  RetiredRoutes = 2
  CounterSize = 8
  Playlists <- SomePlaylists
SPECIFICATION Spec
INVARIANTS LookupsFresh
PROPERTIES ImplementsStreamTable LostRoutesExplained
