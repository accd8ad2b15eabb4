SPECIFICATION Spec
CONSTANTS
  UserId = {"owner1", "tenant1"}
  RoomId = {"room1", "room2"}
  BillId = {b1}
  Email = {"m2", "m4"}
  Period = {1}
  Slot = {s1, s2}
  None = None
  SeedRooms <- TwoRooms
  SeedUsers <- People
  SeedBills <- NoBills
  DeviceRooms = {}
  Routes = {"assignTenant"}
  Serial = FALSE
  Faults = FALSE
INVARIANT OneRoomPerTenant
