SPECIFICATION FairSpec
CONSTANTS
  Files = {"g", "h", "um", "un"}
  Macros = {"A", "B"}
  Modules = {"M", "N"}
  UnitOf <- UnitFiles
  Main = "main"
  Programs <- MCPrograms
  PreIncludes <- PreH
  MaxIncludeDepth = 3
  None = None
INVARIANTS KeepsWhatIsSelected NoActiveInDead GuardedHeaderIsInert ModuleReadOnce StackBound
PROPERTIES ImportReadsOnce OnceFirstRespected WalkEnds
CHECK_DEADLOCK FALSE
