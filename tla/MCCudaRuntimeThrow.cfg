CONSTANTS
  Units = {"a"}
  Kernels <- OneKernel
  Vars <- NoVars
  Embeds <- OneImage
  SM <- MCSM
  Ordinals = {0}
  Configs = {1, 2}
  MaxFatbins = 1
  MaxKernels = 1
  MaxVars = 0
  MaxConfigs = 4
  MaxDepth = 2
  None = None
SPECIFICATION Spec
INVARIANT StubPopsItsConfig
CHECK_DEADLOCK FALSE
