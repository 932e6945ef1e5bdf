SPECIFICATION FairSpec
CONSTANTS
  Ids = {a1, a2}
  Users = {cli}
  Workers = {live}
  Named = {"pending", "approved", "executed", "rejected", "expired", "cancelled"}
  KeepLast = 1
  MaxCommands = 2
  MaxCrashes = 1
INVARIANTS
  TypeOK
  FiredOnlyIfApproved
  RefireNeedsCause
PROPERTIES
  NoOpenEntryVanishes
  ApprovedSettles
