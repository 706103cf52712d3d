CONSTANTS
  Units = {"a", "b", "c"}
  Kernels <- MCKernels
  Vars <- MCVars
  Embeds <- MCEmbeds
  SM <- MCSM
  Ordinals = {0, 1}
  Configs = {1, 2}
  MaxFatbins = 2
  MaxKernels = 1
  MaxVars = 1
  MaxConfigs = 2
  MaxDepth = 2
  None = None
  Link <- MCLink
  DynamicInits <- MCDynamicInits
  Offloads = {"a", "b", "c"}
  Locals = {"l", "m"}
  Destroyed = {"x", "l", "m"}
SPECIFICATION PSpec
INVARIANTS ConfigKept LaunchesItsKernel NoModuleLeaks FailedLaunchIsKnown SeesWhatItSaw InitializedOnce DestroyedAtExit
PROPERTY ReverseOfCompletion
CHECK_DEADLOCK FALSE
