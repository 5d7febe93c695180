\* The trait's three-transaction methods beside the audited ones, two calls, pods that
\* stay up.
SPECIFICATION FairSpec
CONSTANTS
  Clients = {c1, c2}
  Kinds = {"put", "rollback", "delete", "get"}
  Modes = {"audited", "plain"}
  Args = {1}
  MasterKeys = {k1, k2}
  MaxOps = 2
  None = None
INVARIANTS
  AadMatchesVersion
  ReadNeverDangles
PROPERTIES
  EveryCallEnds
  ImplementsVersionedSecret
