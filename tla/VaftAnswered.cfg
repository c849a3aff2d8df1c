CONSTANTS
  c1 = c1  c2 = c2  c3 = c3
  u1 = u1  u2 = u2  u3 = u3
  low = low  high = high
  None = None
  Channels = {c1, c2}
  Urls = {u1, u2}
  Renditions = {high}
  Players = 2
  MaxStreams = 1
  MaxRoutes = 2
  StreamTtl = 1
  BackupLife = 1
  MaxClock = 1
  MaxGeneration = 2
  Workers = {w1, w2}
  Listings <- SwitchListings
  RenditionOf <- OneRendition
SPECIFICATION FairSpec
PROPERTIES EveryPlaylistAnswered
