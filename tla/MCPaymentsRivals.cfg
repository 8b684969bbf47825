SPECIFICATION RivalsSpec
CONSTANTS
  Ids = {p1, p2}
  Requests = {r1, r2}
  Handlers = {h1}
  None = None
  MaxFaults = 0
  AddressIds = {a1, a2, a3}
  AddressRequests = {r1, r2}
  PermissionIds = {s1}
  SystemPermissions = {}
  RoleIds = {admins}
  AdminRoles = {}
  AccessRequests = {r1, r2}
  ReviewIds = {v1, v2}
  Texts = {x1, x2}
  ReviewRequests = {r1, r2}
  MaxOrders = 6
SYMMETRY RivalsSymmetry
CHECK_DEADLOCK FALSE
INVARIANTS
  RivalsTypeOK
  RestockedIffCancelled
  SettledPaymentMovedOrder
  SecondPaymentNeedsFailure
  OneDefaultAddress
  AssignmentsHold
  SchemaFollowsVersion
  SeedsAgree
PROPERTIES
  BooksOutliveCatalogue
  SettlementIsKept
  UnvettedOnlyByMixing
  ImplementsChargeBook
