SPECIFICATION OfficeSpec
CONSTANTS
  Images = {1, 2}
  AdminRequests = {a1, a2}
  MaxAssets = 2
  MaxMarks = 1
  PictureRequests = {a1, a2}
  MaxCategories = 3
  TreeRequests = {a1, a2}
SYMMETRY OfficeSymmetry
CHECK_DEADLOCK FALSE
INVARIANTS
  CatalogHolds
  PictureRowHolds
  TreeAsAsked
PROPERTIES
  PolicyHoldsAtSave
