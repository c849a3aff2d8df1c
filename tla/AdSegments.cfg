CONSTANTS
  a1 = a1  a2 = a2  v1 = v1  t1 = t1  t2 = t2  q1 = q1 
  None = None
  Ads = {a1, a2}
  Lives = {v1}
  Playlists <- MCPlaylists
  Strippers = {t1, t2}
  Loads = {q1}
  MaxSegments = 2
  Lifetime = 1
  MaxClock = 4
SYMMETRY ThreadSymmetry
SPECIFICATION Spec
PROPERTIES LeakExplained BlankJustified
