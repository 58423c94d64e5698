CONSTANTS
  km1 = km1
  alice = alice
  bob = bob
  r1 = r1
  r2 = r2
  ssh = ssh
  gpg = gpg
  u1 = u1
  c1 = c1
  c2 = c2
  None = None
  KmKeys = {km1}
  Identities = {alice, bob}
  DefaultIdentity = alice
  NpubForm <- MCNpubForm
  Realms = {r1, r2}
  Types = {ssh}
  Uids = {u1}
  UserMap <- MCNoUserMap
  Allowlist = {}
  HardenedBase = 2
  SeqModulus = 4
  AttachRequests <- MCOneRequest
  Methods <- MCMethods
  MaxEvents = 2
  MaxBoots = 1
  Conns = {c1, c2}
  HasUserMap = FALSE
  MaxRequests = 2
SPECIFICATION laSpec
SYMMETRY MCSymmetry
VIEW MCView
INVARIANTS laTypeOK PendingHasWaiter
PROPERTY laKeepsContract
CHECK_DEADLOCK FALSE
