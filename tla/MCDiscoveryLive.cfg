CONSTANTS
  Items = {i1, i2}
  ContentOf <- OneContent
  RowIds = {r1, r2, r3}
  NoRow = norow
  NoItem = noitem
  Requests = {q1}
  Ops = {"delete"}
  MaxPending = 1
  MaxRestarts = 1
SPECIFICATION FairDiscoverySpec
PROPERTY NewItemsShowUp
