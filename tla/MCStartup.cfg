CONSTANTS
  home = home
  var = var
  other = other
  None = None
  Paths = {home, var, other}
  CliDefault = home
  DEFAULT_SEED_PATH = var
  Settings <- MCSettings
  MaxStarts = 3
  MaxEdits = 2
SPECIFICATION Spec
INVARIANTS TypeOK AnnouncedIsDurable ServesItsMode
PROPERTIES LightResetKeepsIdentity NeverOverwritten
CHECK_DEADLOCK FALSE
