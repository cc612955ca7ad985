SPECIFICATION FairInstallation
CONSTANTS
  p1 = p1
  p2 = p2
  c1 = c1
  c2 = c2
  good = good
  alien = alien
  Components = {p1, p2}
  PluginsOf = {p1, p2}
  Plugins = {p1, p2}
  Contents = {good, alien}
  Genuine = {good}
  NoContent = NoContent
  MaxRevision = 2
  Consents = {c1, c2}
  NoPlugin = NoPlugin
  MaxSequence = 3
INVARIANT CommitsWhatWasPrepared
INVARIANT NoLostUpdate
INVARIANT CleansUp
INVARIANT ReadyFleet
INVARIANT NoFalseAlarm
PROPERTY RollbackSeesStore
PROPERTY EnablesWhatWasPrepared
PROPERTY EndsOrWaits
CHECK_DEADLOCK FALSE
