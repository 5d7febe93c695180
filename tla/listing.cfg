\* A script over a table and the audit page over the log: five rows, pages of one to three,
\* limits of zero and beyond the largest page, two clicks and one failure.
SPECIFICATION FairSpec
CONSTANTS
  LastKey = 5
  Asked = {0, 1, 2, 9}
  MaxPage = 3
  MaxClicks = 2
  MaxLosses = 1
INVARIANTS
  ListedOnce
  StayersAreListed
PROPERTIES
  ScriptEnds
