CONSTANTS
  n1 = n1
  n2 = n2
  i1 = i1
  e1 = e1
  x1 = x1
  b1 = b1
  b2 = b2
  c1 = c1
  Nobody = Nobody
  None = None
  h1 = h1
  h2 = h2
  Notices = {n1, n2}
  Inputs = {h1, h2}
  MaxImports = 2
  MaxBusy = 3
  Importers = {i1}
  Editors = {}
  Embedders = {}
  Backfills = {b1, b2}
  Configs = {c1}
  ConfigOf <- MCConfigs
SPECIFICATION Spec
SYMMETRY MCSymmetry
INVARIANT ClassificationComplete
