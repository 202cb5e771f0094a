SPECIFICATION FairSpec
CONSTANTS
  Req <- Requests
  MaxMentions = 1
  PtrSize = 8
INVARIANTS TypeOK NoFault
PROPERTY AllFreed
