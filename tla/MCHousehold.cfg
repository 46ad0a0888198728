CONSTANTS
  Users = {u1, u2, u3}
  Categories = {"tv", "anime"}
  DefaultArrCategories = {"tv"}
  Dirs = {"/disk"}
  MaxChanges = 6
  MaxFailures = 2
  MaxRestarts = 2
SPECIFICATION HouseholdSpec
SYMMETRY UserSymmetry
INVARIANTS HouseholdTypeOK OneOwner CategoriesAreKnown DeletedCategoriesStayGone
CHECK_DEADLOCK FALSE
