\* A setup, its reading thread, two threads that close or write.
SPECIFICATION FairSpec
CONSTANTS
  Client = {c1, c2}
  Setter = {c1}
  Reader = Reader
  Nobody = Nobody
  Fd = {1, 2}
  Names <- MCNames
  EcmPid = 3
  Version = {0}
  MaxEvents = 1
  Faults = {"stop", "read", "poll"}
  MaxParses = 1
  MaxEcms = 1
INVARIANTS BooksAgree
PROPERTY CloseReturns
\* Everything has been closed.
CHECK_DEADLOCK FALSE
