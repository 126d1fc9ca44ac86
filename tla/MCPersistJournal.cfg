SPECIFICATION Spec
CONSTANTS
    a = a
    b = b
    Zero = Zero
    Torn = Torn
    Clean = Clean
    Sector <- MCSector
    Payloads <- MCPayloads
    MaxSectors = 2
    GenLimit = 3
INVARIANTS
    CrashRecoversCommitted
    DistinctGenerations
    CheckPasses
    JournalInv
PROPERTIES
    ActiveSlotUntouched
    ImplementsDurableStore
