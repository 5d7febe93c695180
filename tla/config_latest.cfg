\* The page of a config key, two saves.
SPECIFICATION FairSpec
CONSTANTS
  Tabs = {t1}
  Values = {x, y}
  Blank = Blank
  MaxClicks = 2
  MaxOther = 1
  None = None
  Failed = Failed
INVARIANTS
  LatestIsShown
