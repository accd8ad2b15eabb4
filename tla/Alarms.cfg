SPECIFICATION BridgeSpec
CONSTANTS
  RoomId = {"room1"}
  DeviceId = {"lock1"}
  UserId = {"owner1"}
  Slot = {s1, s2}
  BillCall = {}
  None = None
  Registered = {"lock1"}
  RoomOf <- MCRoomOf
  TypeOf <- MCTypeOf
  OwnerOf <- MCOwnerOf
  Admins = {}
  Tenants = {}
  BillTenant <- NoBills
  SeedTenant <- Vacant
  SeedOnline = {"lock1"}
  Attempts = 3
  MaxStalled = 1
  Concurrency = 1
  Page = 2
  Reader = {}
  Faults = TRUE
  Script = {"script1"}
  Client = {}
  Behind <- MCBehind
  Lines <- MCLines
  Orders = {}
  Limit = 1
  Outages = 1
PROPERTIES AlarmReported
CHECK_DEADLOCK FALSE
