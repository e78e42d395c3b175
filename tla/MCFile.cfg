\* Two goroutines write two versions.
SPECIFICATION Spec
CONSTANTS
  Writer = {w1, w2}
  Content = {x, y}
  Absent = Absent
  Torn = Torn
SYMMETRY WriterSymmetry
PROPERTY ImplementsAtomicFile
PROPERTY ModeIsKept
