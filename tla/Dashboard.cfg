SPECIFICATION FairSpec
CONSTANTS
  User = {"admin", "owner1"}
  Admins = {"admin"}
  Room = {"room1", "room2", "room3"}
  OwnerOf <- MCOwnerOf
  SeedRooms = {"room1", "room2", "room3"}
  Movable = {"room3"}
  Doc <- MCDoc
  SeedDocs <- MCSeedDocs
  Asked <- MCAsked
  Asks <- MCAsks
  Changes = 2
  Slot = {s1, s2}
  TTL = 2
  None = None
  Faults = TRUE
INVARIANTS TypeOK AnswersWereTrue
PROPERTY CacheComesRight
