CONSTANTS
  Items = {i1}
  ContentOf <- OneContent
  RowIds = {r1, r2, r3}
  NoRow = norow
  NoItem = noitem
  Requests = {q1, q2}
  Ops = {"arr", "manual", "delete", "readd"}
  MaxPending = 1
  MaxRestarts = 0
SPECIFICATION DiscoverySpec
SYMMETRY RequestSymmetry
INVARIANTS DiscoveryTypeOK NoGhosts ArrRowsAreManaged
