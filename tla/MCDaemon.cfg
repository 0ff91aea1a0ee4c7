SPECIFICATION FairSpec
CONSTANTS
  c1 = c1
  c2 = c2
  None = None
  Calls <- OneNative
  LegacyCalls <- OneLegacy
  MaxSubs = 2
  LegacyMaxSubs = 1
  MaxAttempts = 2
PROPERTIES
  EveryRecordIsSettled
  EveryTaskEnds
  WarmShutdownEnds
  ImplementsQueues
