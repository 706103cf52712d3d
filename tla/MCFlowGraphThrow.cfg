CONSTANT
  Bodies <- ThrowBodies
SPECIFICATION Spec
INVARIANT FallingOffIsReported
