\* Two clients, any call of the plug-in may fail, its stop waits for its events or not.
SPECIFICATION FairSpec
CONSTANTS
  Client = {c1, c2}
  Calls <- AllCalls
  Faults <- AnyFault
INVARIANT ObjectAndPluginAgree
PROPERTIES PreparedUnlessLate MethodsReturn
