CONSTANTS
  km1 = km1
  km2 = km2
  alice = alice
  bob = bob
  anon = anon
  r1 = r1
  r2 = r2
  ssh = ssh
  gpg = gpg
  u1 = u1
  None = None
  KmKeys = {km1, km2}
  Identities = {alice, bob, anon}
  DefaultIdentity = anon
  NpubForm <- MCNpubForm
  Realms = {r1, r2}
  Types = {ssh, gpg}
  Uids = {u1}
  UserMap <- MCUserMap
  Allowlist = {alice, anon}
  HardenedBase = 2
  SeqModulus = 4
  AttachRequests <- MCAllRequests
  Methods <- MCAllMethods
  MaxEvents = 3
  MaxBoots = 1
SPECIFICATION Spec
SYMMETRY MCSymmetry
INVARIANTS TypeOK HandledSessionLives OneSessionPerKm ListenerIffSession
PROPERTIES FreshAckIsBacked OnlyOwnKmEndsSession
CHECK_DEADLOCK FALSE
