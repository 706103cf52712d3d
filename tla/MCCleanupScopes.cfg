CONSTANT Bodies <- MCBodies
SPECIFICATION Spec
INVARIANT DestroysOnlyBuilt
INVARIANT NotBuiltTwice
INVARIANT ReverseOrder
INVARIANT TemporariesGoFirst
INVARIANT NothingLeft
INVARIANT CatchesEnded
INVARIANT CaughtInside
