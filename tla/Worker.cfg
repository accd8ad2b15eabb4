SPECIFICATION WorkerSpec
CONSTANTS
  RoomId = {"room1"}
  DeviceId = {"fire1"}
  UserId = {"owner1", "tenant1"}
  Slot = {}
  BillCall = {b1}
  None = None
  Registered = {"fire1"}
  RoomOf <- MCRoomOf
  TypeOf <- MCTypeOf
  OwnerOf <- MCOwnerOf
  Admins = {}
  Tenants = {"tenant1"}
  BillTenant <- MCBillTenant
  SeedTenant <- Vacant
  SeedOnline = {"fire1"}
  Attempts = 2
  MaxStalled = 1
  Concurrency = 1
  Faults = TRUE
  Page = 2
  Reader = {"tenant1"}
INVARIANTS CompletedDelivered CopiesBounded AnswerUpToDate
PROPERTIES ReadStays JobsSettle ImplementsMailbox
CHECK_DEADLOCK FALSE
