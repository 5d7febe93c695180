\* One secret, two callers of the audited methods, four calls.
SPECIFICATION Spec
CONSTANTS
  Clients = {c1, c2}
  Kinds = {"put", "rollback", "delete", "get"}
  Modes = {"audited"}
  Args = {1, 2}
  MasterKeys = {k1}
  MaxOps = 4
  None = None
SYMMETRY ClientSymmetry
INVARIANTS
  ReadNeverDangles
  AuditIffEffect
  AnswerIsTruthful
PROPERTIES
  NoLostUpdate
  ImplementsVersionedSecret
