SPECIFICATION Spec
CONSTANTS
  Tags = {"feature"}
  Default = "default"
  Ttl = 2
  MaxVersion = 2
  MaxLoads = 2
PROPERTIES NullFansOut
