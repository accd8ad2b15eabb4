SPECIFICATION Spec
CONSTANTS
  RoomId = {"room1"}
  DeviceId = {"lock1", "fire1", "unknown"}
  UserId = {"admin", "owner1", "owner2", "tenant1"}
  Slot = {s1, s2}
  BillCall = {}
  None = None
  Registered = {"lock1", "fire1"}
  RoomOf <- MCRoomOf
  TypeOf <- MCTypeOf
  OwnerOf <- MCOwnerOf
  Admins = {"admin"}
  Tenants = {"tenant1"}
  BillTenant <- MCBillTenant
  SeedTenant <- Rented
  SeedOnline = {"fire1"}
  Attempts = 3
  MaxStalled = 1
  Concurrency = 0
  Page = 2
  Reader = {}
  Faults = TRUE
SYMMETRY Symmetry
INVARIANTS TypeOK AuditTrail NothingBeforeTheAlert CommandsFit NotifiedWitnesses
PROPERTY AlertsResolvedByManagers
CHECK_DEADLOCK FALSE
