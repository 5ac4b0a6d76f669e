SPECIFICATION Spec
CONSTANTS
  Run = {1, 2}
  Sources <- MCSources
  Old = Old
  Router = Router
  NoApp = NoApp
  NoToken = NoToken
  Partial = Partial
CONSTRAINT OneReleaseShared
INVARIANTS
  PublishedIsWhole
  TokenMatches
  ManifestNamesBackup
PROPERTIES
  FailedRunRestores
  PublicationSpec
CHECK_DEADLOCK FALSE
