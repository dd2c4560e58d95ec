SPECIFICATION Spec
CONSTANTS
  Chats <- MCChats
  Values <- MCValues
  Jids <- MCJids
  Skills = {}
  Groups <- MCGroups
  Phone <- MCPhone
  Lid <- MCLid
  Messages <- ResearchMessages
  Edits <- NoEdits
  InitDoc <- PersonalDoc
  Multiplex = TRUE
  SafeProfiles = {"cgpt"}
  VouchedGroups = {}
  ProfileDirs = {"cgpt", "personal"}
  PerUser = TRUE
  MaxEdits = 0
INVARIANTS
  GroupSafety
