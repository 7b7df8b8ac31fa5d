SPECIFICATION FairSpec
CONSTANTS
  Threads = {t1, t2, t3}
  Stuck = {t1}
  Pointers = {p1, p2}
  Payload = payload
  Null = null
  SpinLimit = 2
  MaxAllocFailures = 1
INVARIANTS
  TypeOK
  OneInitializer
  SafeTables
  NoLeak
PROPERTIES ImplementsPromise CallReturns SlotReleased
