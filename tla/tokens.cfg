\* Two pods booting, two users, two requests, one death; everybody ends up serving.
SPECIFICATION FairSpec
CONSTANTS
  Pods = {p1, p2}
  Users = {u1, u2}
  MaxRequests = 2
  MaxCrashes = 1
  None = None
INVARIANTS
  SeedIsStored
  LogMatchesTable
PROPERTIES
  
  RevocationIsFinal
  EntitledWhenAsked
  EveryPodServes
