SPECIFICATION Spec
CONSTANTS
  UserId = {"owner1", "tenant1"}
  RoomId = {"room1"}
  BillId = {b1}
  Email = {"m2", "m4"}
  Period = {1}
  Slot = {s1, s2}
  None = None
  SeedRooms <- LetRoom
  SeedUsers <- LetPeople
  SeedBills <- NoBills
  DeviceRooms = {}
  Routes = {"createBill", "updateStatus", "deleteRoom"}
  Serial = FALSE
  Faults = FALSE
INVARIANT DebtsKeepTheirRoom
