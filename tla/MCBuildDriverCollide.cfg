CONSTANTS
  Configs <- CollisionConfigs
  Ident <- MCIdent
  VendorOf <- MCVendorOf
  None = None
SPECIFICATION Spec
INVARIANT ObjectsSurvive
