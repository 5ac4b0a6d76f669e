\* Two runs over one release, every other release by one run.
SPECIFICATION Spec
CONSTANTS
  r1 = r1  r2 = r2
  Run = {r1, r2}
  Sources <- MCSources
  Teams = {"team", "adhoc"}
  Adhoc = "adhoc"
  Old = Old
  NoApp = NoApp
  NoToken = NoToken
  Partial = Partial
SYMMETRY Runs
CONSTRAINT OneReleaseShared
INVARIANTS PairIsWhole OneToken
PROPERTIES PublicationIsUndone PublicationSpec
CHECK_DEADLOCK FALSE
