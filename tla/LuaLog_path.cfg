\* What open returns, with and without a path in the name.
CONSTANTS
  Name = {a, b}
  Dir = {x, y}
  StartDir = x
  Handle = {h1, h2, h3}
  Fd = {d1, d2, d3}
  LastDay = 1
  Null = Null
SPECIFICATION Spec
SYMMETRY Interchangeable
INVARIANTS OpensWhatWasAsked
