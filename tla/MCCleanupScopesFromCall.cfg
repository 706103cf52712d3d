CONSTANT Bodies <- FromCallBodies
SPECIFICATION Spec
INVARIANT SparesUnbuilt
