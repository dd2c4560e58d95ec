SPECIFICATION Spec
CONSTANTS
  Chats <- MCChats
  Values <- MCValues
  Jids <- MCJids
  Skills = {}
  Groups <- MCGroups
  Phone <- MCPhone
  Lid <- MCLid
  Messages <- ProfileMessages
  Edits <- ProfileEdits
  InitDoc <- ReplyingDoc
  Multiplex = TRUE
  SafeProfiles = {"cgpt"}
  VouchedGroups = {}
  ProfileDirs = {"cgpt", "personal"}
  PerUser = TRUE
  MaxEdits = 1
INVARIANTS
  RoutedProfile
  GroupSafeWhenStable
  
