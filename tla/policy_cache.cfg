SPECIFICATION FairSpec
CONSTANTS
  Tags = {"feature"}
  Default = "default"
  Ttl = 2
  MaxVersion = 2
  MaxLoads = 2
INVARIANTS LoaderTypeOK StaleAtMostTtl
PROPERTIES Converges
