\* Two names in two directories, three handles with three descriptors, two days.
CONSTANTS
  Name = {a, b}
  Dir = {x, y}
  StartDir = x
  Handle = {h1, h2, h3}
  Fd = {d1, d2, d3}
  LastDay = 1
  Null = Null
SPECIFICATION Spec
SYMMETRY Interchangeable
INVARIANTS DescriptorsOwned ReachableIsOpen LineOnItsDay
