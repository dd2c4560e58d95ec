SPECIFICATION Spec
CONSTANTS
  Chats <- MCChats
  Values <- MCValues
  Jids <- MCJids
  Skills <- MCSkills
  Threads = {"t1", "t2"}
  Readers = {"r"}
  Procs = {"gateway", "cron"}
  Process <- TwoProcesses
  NoThread = "none"
  Requests <- MCRequests
  InitDoc <- MCInitDoc
  DistinctStamps = TRUE
  ReadsFail = FALSE
  MaxTicks = 2
PROPERTY AtomicSpec
