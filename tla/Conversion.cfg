SPECIFICATION Spec
CONSTANTS
  Converters <- MCConverters
  Scopes <- MCScopes
  KnownLosses <- MCKnownLosses
  KnownCrashes <- MCKnownCrashes
  NONE = NONE
INVARIANTS
  AppliedIsPlanned
  RefreshedIsTrue
  ImportIsComplete
  
