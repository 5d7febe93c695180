\* An environment and its parent, a path that configs and secrets share and one that
\* references name, any contents, one write during the export.
SPECIFICATION Spec
CONSTANTS
  Depth = 2
  ConfigPaths = {k}
  SecretPaths = {k, t}
  Targets = {t}
  MaxWrites = 1
  None = None
INVARIANTS
  ExportedWasCurrent
  SteadyValuesAreOverlaid
  NothingIsDroppedSilently
  DanglingIsReported
