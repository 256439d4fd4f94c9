CONSTANTS
  r1 = r1
  r2 = r2
  f1 = f1
  f2 = f2
  f3 = f3
  i1 = i1
  i2 = i2
  Rtes = {r1, r2}
  Fds = {f1, f2, f3}
  Ids = {i1, i2}
  None = None
SPECIFICATION Spec
INVARIANTS TypeOK FdOwned ReadyIsWhole DestructorNeverThrows
PROPERTY ReadyUndisturbed
SYMMETRY Symmetry
