\* Three names that collide, in a table of two slots.
SPECIFICATION Spec
CONSTANTS
  n1 = n1
  n2 = n2
  n3 = n3
  c1 = c1
  c2 = c2
  c3 = c3
  Absent = Absent
  Names <- ThreeNames
  TABLE_SIZE = 2
  hash <- Colliding
  Addresses <- ThreeCells
SYMMETRY Alike
INVARIANTS
  TypeOK
  NoDanglingEntry
  OneEntryPerName
PROPERTY ImplementsRegistry
