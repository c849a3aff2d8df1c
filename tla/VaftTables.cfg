CONSTANTS
  c1 = c1  c2 = c2  c3 = c3
  u1 = u1  u2 = u2  u3 = u3
  low = low  high = high
  None = None
  Channels = {c1, c2, c3}
  Urls = {u1, u2, u3}
  Renditions = {high}
  Players = 1
  MaxStreams = 2
  MaxRoutes = 2
  StreamTtl = 1
  BackupLife = 1
  MaxClock = 2
  MaxGeneration = 3
  Workers = {w1}
  Listings <- ThreeListings
  RenditionOf <- OneRendition
SPECIFICATION Spec
PROPERTIES EvictsLeastRecent ImplementsService
