SPECIFICATION KSpec
CONSTANTS
  Threads <- T
  Zero = 0
  WordSize = 4
  Kernels <- MCKernels
  WarpSize = 8
  Bits = 6
  Opening <- MCOpening
INVARIANT NoRace
PROPERTIES ImplementsCalls AllReturn ShuffleReads
CHECK_DEADLOCK FALSE
