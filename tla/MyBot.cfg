SPECIFICATION FairSpec
CONSTANTS
  Thread = {"main", "h1", "h2"}
  Main = "main"
  File <- MCFile
  FileId <- MCFileId
  Size <- MCSize
  Audio = "audio.oga"
  NoFile = NoFile
  Hole = Hole
  MaxLate = 1
  Jobs <- MCJobs
  Stack = {7}
  IntHalf = 3
  Before = {0, 6}
  Earlier = Earlier
INVARIANTS EditsOwnMessage SentOnce DownloadsOwn
PROPERTIES HandlersReturn
