SPECIFICATION FairSpec
CONSTANTS
  PS7_MASK_POLL_TIME = 2
  APU_FREQ = 4000
  WordMod = 16384
  CallerTables <- Tables
  MaxCalls = 4
INVARIANTS
  TypeOK
  ResetOnlyBypassed
  FabricReleasedLast
  NoWriteIgnored
  BootedMeansUp
PROPERTIES
  BypassEndsLocked
  DdrReleasedReady
  DelayLasts
  Returns
