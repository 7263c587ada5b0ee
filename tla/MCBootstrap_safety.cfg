CONSTANTS
  N <- MCN
SPECIFICATION Spec
INVARIANT TypeOK RegistryComplete DebugAfterAllResponses
