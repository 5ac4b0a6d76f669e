\* Two requests, one of them a voice call, and one change: the mode, an account
\* or a child that hangs.
SPECIFICATION FairGSpec
CONSTANTS
  Account = {1, 2}
  Request = {1, 2}
  CandidateLists <- MCLists
  MaxAge = 0
  Controller = 1
  MaxSequence = 2
  MaxRevision = 2
  CacheTTL = 1
  MaxRecords = 1
  MaxChanges = 1
  Voice = {2}
  Flaky = {2}
  AutoMode = AutoMode
  NoTicket = NoTicket
  Nobody = Nobody
  NoSnapshot = NoSnapshot
INVARIANTS
  RevisionIdentifiesMode
  ExplicitAccountOrNobody
  PayerWasEnabledSinceDecision
  OutcomeTellsWhetherSent
  AutoConsidersEveryAccount
  NoLoadLeftBehind
  SentReachesTheHistory

  
CHECK_DEADLOCK FALSE
