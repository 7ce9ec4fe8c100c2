SPECIFICATION Spec
CONSTANTS
  Creator = {p1, p2, p3, p4}
  Copier = {k1, k2}
  Directory = {d1, d2, d3}
  Data = {a1, a2}
  ENTRIES = 3
  None = None
  Together <- Apart
INVARIANTS DirectoriesWhole CopiesWhole
