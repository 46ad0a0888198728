SPECIFICATION RoutingSpec
CONSTANTS
  Sorted <- EntryNames
  Known <- Types
  Kinds = {"torrent", "usenet", "webdl"}
  Supports <- Services
  Keys = {"k"}
  Generals = {1, 2}
  Malformed = {3}
  DefaultGeneral = 1
  Overrides = {0, 2}
  Toggles <- UsenetToggles
  Requests = {r1, r2}
  Adders = {a1}
  HostTakers = {"torbox", "work"}
  MaxChanges = 3
  MaxRestarts = 1
SYMMETRY RequestSymmetry
INVARIANT RowsRouteBack
CHECK_DEADLOCK FALSE
