\* Two puts of one key, two types, two attribute codes, two administrators who create
\* three definitions between them.
SPECIFICATION Spec
CONSTANTS
  Puts = {p1, p2}
  Types = {string, int}
  Codes = {owner, tags}
  Admins = {a1, a2}
  MaxDefs = 3
  None = None
SYMMETRY Symmetric
INVARIANTS
  LaterPutWins
  WhitelistHolds
PROPERTIES
  EditIsOfTheRowSeen
  ImplementsVersionedEntry
