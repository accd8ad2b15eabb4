SPECIFICATION Spec
CONSTANTS
  UserId = {"owner1", "tenant1", "tenant2"}
  RoomId = {"room1"}
  BillId = {"bill1", b1, b2}
  Email = {"m2", "m4", "m5"}
  Period = {1, 2}
  Slot = {s1, s2}
  None = None
  SeedRooms <- LetRoom
  SeedUsers <- LetPeople
  SeedBills <- LastMonth
  DeviceRooms = {}
  Routes = {"createBill", "confirmPayment", "sendBillReminders", "assignTenant", "updateStatus", "deleteRoom"}
  Serial = FALSE
  Faults = TRUE
SYMMETRY Symmetry
INVARIANTS OneBillPerPeriod PaidOnce NoticesToBilledTenant
PROPERTIES BillsFrozen ImplementsLedger
