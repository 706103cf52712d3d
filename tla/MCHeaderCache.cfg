SPECIFICATION FairSpec
CONSTANTS
  u1 = u1
  u2 = u2
  u3 = u3
  r1 = r1
  r2 = r2
  d1 = d1
  cxx = cxx
  cuda = cuda
  Units = {u1, u2, u3}
  Routes = {r1, r2}
  Displays = {d1}
  Modes = {cxx, cuda}
  Contents = {old, new}
  DisplayOf <- MCDisplayOf
  ModeOf <- MCModeOf
  Shareable <- MCShareable
  MaxEdits = 2
  None = None
  Absent = Absent
INVARIANTS
  ReadOnce
  Agreement
PROPERTIES
  ImplementsStore
  OpenReturns
CHECK_DEADLOCK FALSE
