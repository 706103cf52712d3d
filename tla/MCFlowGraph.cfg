CONSTANT
  Bodies <- MCBodies
SPECIFICATION Spec
INVARIANT FallingOffIsReported
INVARIANT LiveCodeNotReported
INVARIANT ReportedReturnIsMissing
