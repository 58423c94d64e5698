CONSTANTS
  km1 = km1
  alice = alice
  bob = bob
  r1 = r1
  r2 = r2
  ssh = ssh
  gpg = gpg
  u1 = u1
  c1 = c1
  c2 = c2
  None = None
  KmKeys = {km1}
  Identities = {alice, bob}
  DefaultIdentity = alice
  NpubForm <- MCNpubForm
  Realms = {r1, r2}
  Types = {ssh}
  Uids = {u1}
  UserMap <- MCUserMap
  Allowlist = {}
  HardenedBase = 2
  SeqModulus = 4
  AttachRequests <- MCLiveRequests
  Methods <- MCMethods
  MaxEvents = 2
  MaxBoots = 0
  Conns = {c1}
  HasUserMap = TRUE
  MaxRequests = 2
SPECIFICATION laSpec
INVARIANT IdentityScoped
PROPERTIES RequestCompletes ListenerEnds LoopDrains
CHECK_DEADLOCK FALSE
