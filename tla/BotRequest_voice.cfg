SPECIFICATION Spec
CONSTANTS
  Req <- Requests
  MaxMentions = 1
  PtrSize = 8
PROPERTY FileIdReadable
