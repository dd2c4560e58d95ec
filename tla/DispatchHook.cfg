SPECIFICATION Spec
CONSTANTS
  Chats <- MCChats
  Values <- MCValues
  Jids <- MCJids
  Skills = {}
  Groups <- MCGroups
  Phone <- MCPhone
  Lid <- MCLid
  Messages <- HookMessages
  Edits <- HookEdits
  InitDoc <- PlainDoc
  Multiplex = TRUE
  SafeProfiles = {"cgpt"}
  VouchedGroups = {}
  ProfileDirs = {"cgpt", "personal"}
  PerUser = FALSE
  MaxEdits = 1
INVARIANTS
  OnlyWhereAllowed
  NotOverheard
  PausedSilent
  NotIgnored
  AsConfigured
  CleanAfterPause
  Stealth
PROPERTIES
  EditsByAdmins
  AdminsKept
