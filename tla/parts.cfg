SPECIFICATION PartsSpec
CONSTANTS
  PoolSize = 3
  Cooldown = 1
  MaxBench = 2
  KeyCalls = {"a", "b"}
  Sessions = {"s1", "s2"}
  RouteModels = {"dear", "cheap"}
  MaxTurn = 2
  MaxSessions = 1
  SessionTtl = 1
  MaxTurns = 2
  CacheKeys <- Asked
  MaxEntries = 2
  CacheTtl = 1
  CacheCalls = {"a", "b"}
  LoopCalls = {"a", "b"}
  Threshold = 3
  Window = 1
  Keep = 2
  MaxCheck = 1
  MaxRows = 4
  AlertCooldown = 4
  ScanLimit = 2
  MaxScans = 2
  Replicas = {"r1", "r2"}
  NumFiles = 3
  Releases = {2, 3}
  MaxBootFails = 2
  Owners = {"o1", "o2"}
  MaxRowId = 3
  Artifacts <- ArtifactSet
  RouteOriginals = {"dear", "mid", "other"}
  Eps = 1
  MinSamples = 3
  SqlCalls = {"a", "b", "c"}
  Users = {"ann", "bob"}
  Creator = "ann"
  Invitations = {1}
  InviteRoles = {"member"}
  SsoRole = "viewer"
  Seats = 3
  OrgRequests = {"q1", "q2"}
  MaxMarked = 1
  Deliveries = {"d1", "d2"}
  MaxChanges = 3
  Invoices = {"i1", "i2", "i3"}
  CreditCap = 1
  Recorders = {"d1", "d2"}
  Passes = {"s1", "s2"}
  MaxGrants = 2
INVARIANTS
  PartsTypeOK KeyTurns NewestTurnKept HitOwnProject LoopSeen
  SchemaInOrder KeysKeepTheirMaster RewriteJustified SharedConnectionIsAtomic
  OneOwnerUnlessRaced PlanFollowsStripe CreditsNearCap GrantedOnce
PROPERTIES AlertsApart BootsEnd AdmittedByInvitation
CHECK_DEADLOCK FALSE
