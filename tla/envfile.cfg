\* Two lines of two paths and three names, three commands, one fault, one write or edit of
\* somebody else.
SPECIFICATION FileSpec
CONSTANTS
  MaxLines = 2
  MaxCommands = 3
  MaxFaults = 1
  MaxOther = 1
  None = None
INVARIANTS
  FileTypeOK
  RemovedOnlyWhenStored
  RoundTrip
  RunAndInjectAgree
