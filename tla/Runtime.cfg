\* A ring of two chunks of two bytes; three threads with one object; two messages
\* of two items; an event loop with a controller, another caller and two starts.
SPECIFICATION PartsSpec
CONSTANTS
  Byte = {0, 1}
  Inputs <- MCInputs
  Asks <- MCAsks
  ChunkSize = 2
  ChunkCount = 2
  Word = 16
  Garbage = 9
  Null = Null
  Holder = {r1, r2, r3}
  Maker = r1
  MaxPointers <- MCPointers
  INITIAL_STRONG_VALUE = 100
  Msg = {m1, m2}
  ItemName = {"replyID", "a", "b"}
  ReplyID = "replyID"
  Object = {o1, o2}
  NoObject = NoObject
  kMaxNumItems = 2
  Client = {c1, c2}
  Controller = c1
  Looper = {l1, l2}
  Delays <- SomeDelays
  MaxNow = 1
  MaxTime = 2
  MaxPosts = 3
  Nobody = Nobody
INVARIANTS NothingIsUsedAfterFree NothingIsLeft
  ItemsHoldTheirObjects LooperIsSound
PROPERTIES ImplementsByteQueue DeliveredInOrder EverybodyIsServed
\* An object without pointers is left alone, a looper nobody posts to too.
CHECK_DEADLOCK FALSE
