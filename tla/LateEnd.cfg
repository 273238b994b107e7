\* One client whose calls succeed, and an end of the stream that overtakes its stop.
SPECIFICATION FairSpec
CONSTANTS
  Client = {c1}
  Calls <- AllCalls
  Faults = {}
PROPERTY PreparedWhenStarted
