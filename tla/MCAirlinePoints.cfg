\* One request at a time, with a crash between any two of its steps.
SPECIFICATION Spec
CONSTANTS
  Report = {r1, r2}
  Slot = {s1}
  Config <- MCConfig
  MaxCalls = 3
  MaxCrashes = 1
  None = None
INVARIANTS
  TypeOK
  RecordsAreEarned
  DeliveredOnce
  AttemptsAreCounted
  NoneForgotten
PROPERTIES SyncedStays
