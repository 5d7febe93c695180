SPECIFICATION Spec
CONSTANTS
  Clients = {c1, c2}
  Kinds = {"put", "rollback", "delete", "get"}
  Modes = {"audited"}
  Args = {1, 2}
  MasterKeys = {k1}
  MaxOps = 4
  None = None
INVARIANT PutNeedsNoExpectation
