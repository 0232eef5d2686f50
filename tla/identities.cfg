SPECIFICATION Spec
CONSTANTS
  o1 = o1
  o2 = o2
  o3 = o3
  o4 = o4
  a1 = a1
  a2 = a2
  Nowhere = Nowhere
  NoObject = NoObject
  Objects <- FourObjects
  Addresses <- TwoAddresses
  MaxGeneration = 3
SYMMETRY Alike
\* When every object is dead nothing happens any more.
CHECK_DEADLOCK FALSE
INVARIANTS
  TypeOK
  MappedWindowResolves
  ClosedRefStaysInvalid
  EntryIdentitiesDiffer
