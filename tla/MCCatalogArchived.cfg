SPECIFICATION CatalogSpec
CONSTANTS
  Images = {1, 2}
  AdminRequests = {r1, r2}
PROPERTIES ArchivedIsReviewed
CHECK_DEADLOCK FALSE
