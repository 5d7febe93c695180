\* Four environments of two projects, chains of three at most, one reader, two writes.
SPECIFICATION Spec
CONSTANTS
  Projects = {pr1, pr2}
  Readers = {r1}
  MaxDepth = 2
  RowSecurity = FALSE
  MaxEnvs = 4
  MaxWrites = 2
SYMMETRY Symmetric
INVARIANTS
  ChainsEnd
  WalksStayInProject
  SteadyValueIsFound
  RefsResolveAtSource
