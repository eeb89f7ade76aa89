SPECIFICATION Spec
CONSTANTS
  Word = 16
  Child = 4
  Parent = 2
  Others = {1, 3, 5}
  Elder = 1
  Infos = {"low", "high"}
  Info <- Data
  Ballots <- Packets
  HashFunctions = 2
  Digest <- Hash
  StaticBits = 13
  BitsPer <- SevenForTwo
  MaxTuples = 6
INVARIANTS
  TypeOK
  AnnouncedCovers
  ReadAsWritten
  OnlyMissingSent
  NothingLost
  OneTuplePerLink
CHECK_DEADLOCK FALSE
