SPECIFICATION Spec
CONSTANTS
  UserId = {"admin", "owner1", "owner2", "tenant1", "u1"}
  RoomId = {"room1", "room2", "room3"}
  BillId = {"bill1", "bill2"}
  Email = {"m1", "m2", "m3", "m4", "m6"}
  Period = {1}
  Slot = {s1}
  None = None
  SeedRooms <- RoomEach
  SeedUsers <- People
  SeedBills <- PendingBill
  DeviceRooms = {"room1"}
  Routes = {"createRoom", "assignTenant", "updateStatus", "deleteRoom", "inviteOwner", "registerTenant", "createBill", "confirmPayment", "sendBillReminders"}
  Serial = TRUE
  Faults = FALSE
INVARIANTS TypeOK AnnouncedAtOnce TenancyConsistent OneRoomPerTenant DebtsKeepTheirRoom DevicesKeepTheirRoom
PROPERTY ImplementsHomes
