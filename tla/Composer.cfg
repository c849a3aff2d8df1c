CONSTANTS
  a = a  Sp = Sp  Co = Co  Ba = Ba  Ob = Ob
  Letters = {a}  Space = Sp  Colon = Co  Bar = Ba  Object = Ob
  MaxFragment = 2  Catalogs <- RoomCatalogs  Names <- RoomNames
  MaxTokens = 2  MaxRendered = 3  MaxLength = 3
  None = None  Absent = Absent  NoEmote = NoEmote
  m1 = m1  m2 = m2  x1 = x1  a1 = a1  a2 = a2
  Managers = {m1, m2}  Selectors = {x1}  Addresses = {a1, a2}
  Heights = {0, 1}  Unreadable = {}  MaxPublished = 2  MaxSwitches = 2
  b1 = b1  b2 = b2  b3 = b3  g1 = g1  g2 = g2
  Images = {b1, b2, b3, g1, g2}  Broken = {b1, b2, b3}  Rows <- TileRows
  MaxPending = 2  MaxFailed = 4  Backoff = 1  RequestTime = 1
  n1 = n1  n2 = n2
  Animated = {n1, n2}  Delays <- FrameDelays  Gaps <- TickGaps
  MaxFrames = 3  MaxDelta = 25  MaxSteps = 16
  Accent = Accent  Plain = Plain  Nil = Nil  Selectable = {1, 3}
  p1 = p1  p2 = p2  c1 = c1
  Channels = {c1}  Providers = {0}  Palettes = {p1, p2}
  Layouts <- PaletteLayouts  RowHeight = 48  MaxRevision = 2
  e1 = e1  e2 = e2  Emotes = {e1, e2}
SPECIFICATION Spec
CHECK_DEADLOCK FALSE
INVARIANTS TextKept CatalogCurrent SelectorRestored FrameDue FooterRestored LibraryCurrent PaletteLent OneHandoff
PROPERTIES CatalogCatchesUp TilesLoad DetailsFresh StripReturns
