SPECIFICATION Spec
CONSTANTS
  Name = {a, b}
  Driver = {d1, d2}
  MaxBlocks = 9
  MaxOpen = 2
SYMMETRY Symmetry
INVARIANTS TypeOK BlocksOwned
PROPERTIES ImplementsTable RenamesTheDevice
