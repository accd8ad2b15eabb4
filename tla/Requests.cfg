SPECIFICATION RemindingSpec
CONSTANTS
  UserId = {"owner1", "owner2", u1, u2}
  RoomId = {"room1"}
  BillId = {b1}
  Email = {"m2", "m3", "m6"}
  Period = {1}
  Slot = {s1, s2}
  None = None
  SeedRooms <- TwoRooms
  SeedUsers <- People
  SeedBills <- NoBills
  DeviceRooms = {}
  Routes = {"assignTenant", "updateStatus", "deleteRoom", "registerTenant", "createBill", "confirmPayment", "sendBillReminders"}
  Serial = FALSE
  Faults = TRUE
INVARIANTS OccupiedHasTenant OnlyTenantsLiveInRooms EmailsUnique
PROPERTIES RoomsChangeByManagers EveryRequestAnswered EveryBillAnnounced
