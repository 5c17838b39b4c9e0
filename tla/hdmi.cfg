SPECIFICATION FairSpec
CONSTANTS
  Parameters = {"startup", "passthrough", "scaled", "experimental", "plain"}
  Sources <- MCSources
  Dual <- MCDual
INVARIANTS BusExclusive ReadyMeansConfigured
PROPERTIES PackingSteady SourceIsCaptured RemoveTerminates
