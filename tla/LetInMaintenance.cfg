SPECIFICATION Spec
CONSTANTS
  UserId = {"owner1", "u1"}
  RoomId = {"room1"}
  BillId = {b1}
  Email = {"m2", "m4"}
  Period = {1}
  Slot = {s1}
  None = None
  SeedRooms <- TwoRooms
  SeedUsers <- People
  SeedBills <- NoBills
  DeviceRooms = {}
  Routes = {"updateStatus", "registerTenant"}
  Serial = TRUE
  Faults = FALSE
PROPERTY MaintenanceNotLet
