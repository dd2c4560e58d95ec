SPECIFICATION FairSpec
CONSTANTS
  Chats <- MCChats
  Values <- MCValues
  Jids <- MCJids
  Skills <- MCSkills
  Threads = {"t1", "t2"}
  Readers = {"r"}
  Procs = {"gateway"}
  Process <- OneProcess
  NoThread = "none"
  Requests <- MCRequests
  InitDoc <- MCInitDoc
  DistinctStamps = FALSE
  ReadsFail = TRUE
  MaxTicks = 2
INVARIANTS
  NeverStale
PROPERTIES
  LockReleased
  AtomicSpec
