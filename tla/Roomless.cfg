SPECIFICATION Spec
CONSTANTS
  User = {"admin", "owner1"}
  Admins = {"admin"}
  Room = {"room1", "room2", "room3"}
  OwnerOf <- MCOwnerOf
  SeedRooms = {"room2"}
  Movable = {"room3"}
  Doc <- OthersDoc
  SeedDocs <- NoDocs
  Asked <- Overview
  Asks <- OverviewAsks
  Changes = 2
  Slot = {s1}
  TTL = 2
  None = None
  Faults = FALSE
INVARIANT AnswersWereTrue
