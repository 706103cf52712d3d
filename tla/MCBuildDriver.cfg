CONSTANTS
  Configs <- MCConfigs
  Ident <- MCIdent
  VendorOf <- MCVendorOf
  None = None
SPECIFICATION Spec
INVARIANT LinkLine
INVARIANT FatBinaryWhole
INVARIANT FailureWritesNothing
INVARIANT SuccessIsComplete
INVARIANT TempRemoved
INVARIANT ProfileWritten
