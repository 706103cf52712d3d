SPECIFICATION Spec
CONSTANTS
  Files = {"h"}
  Macros = {"A", "B"}
  Modules = {}
  UnitOf <- NoUnits
  Main = "main"
  Programs <- DisjunctionPrograms
  PreIncludes <- NoPre
  MaxIncludeDepth = 3
  None = None
INVARIANT SkippedHeaderIsInert
CHECK_DEADLOCK FALSE
