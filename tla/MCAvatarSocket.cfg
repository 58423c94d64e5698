CONSTANTS
  km1 = km1
  km2 = km2
  alice = alice
  bob = bob
  anon = anon
  r1 = r1
  r2 = r2
  ssh = ssh
  gpg = gpg
  u1 = u1
  None = None
  KmKeys = {km1}
  Identities = {alice, bob, anon}
  DefaultIdentity = anon
  NpubForm <- MCNpubForm
  Realms = {r1, r2}
  Types = {ssh, gpg}
  Uids = {u1}
  UserMap <- MCUserMap
  Allowlist = {}
  HardenedBase = 2
  SeqModulus = 4
  AttachRequests <- MCAttachRequests
  Methods <- MCAttachDetach
  MaxEvents = 3
  MaxBoots = 0
SPECIFICATION Spec
INVARIANT AttachedUserHasSocket
CHECK_DEADLOCK FALSE
