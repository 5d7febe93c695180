\* One tab of any page, two values, two clicks, one call of another client (or another tab).
SPECIFICATION FairSpec
CONSTANTS
  Tabs = {t1}
  Values = {x, y}
  Blank = Blank
  MaxClicks = 2
  MaxOther = 1
  None = None
  Failed = Failed
INVARIANTS
  OwnSavesAreListed
PROPERTIES
  ViewNeverGoesBack
  RevealedIsMasked
