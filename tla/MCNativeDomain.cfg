SPECIFICATION Spec
CONSTANTS
  Threads = {t1, t2, t3, t4}
  NoThread = NoThread
  MaxGeneration = 4
INVARIANTS
  ExclusiveNative
  NoLostRelease
PROPERTIES
  ImplementsSession
