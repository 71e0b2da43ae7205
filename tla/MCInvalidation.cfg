CONSTANTS
  p1 = p1
  p2 = p2
  p3 = p3
  p4 = p4
  n1 = n1
  n2 = n2
  n3 = n3
  o1 = o1
  o2 = o2
  o3 = o3
  alone = alone
  uses1 = uses1
  uses2 = uses2
  broken = broken
  v1 = v1
  v2 = v2
  Paths <- ThePaths
  Contents = {alone, uses1, uses2, broken}
  Absent = Absent
  Nodes = {n1, n2, n3, o1, o2, o3}
  Roots <- TheRoots
  Imports <- TheImports
  Unparsable = {broken}
  Versions = {v1, v2}
  Patterns <- ThePatterns
  MaxReasonDepth = 1
  MaxReasonSteps = 4
  MaxEdits = 2
  Spoiled = Spoiled
SYMMETRY Symmetry
SPECIFICATION Spec
INVARIANTS EvidenceIsFresh ReuseIsExact
