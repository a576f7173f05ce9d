SPECIFICATION FairSpec
CONSTANTS
  Contents <- TwoLists
  Hosts <- ThreeHosts
  Urls <- SomeUrls
  Policies <- TwoPolicies
  RelayAll = FALSE
  MaxWrites = 2
  None = None
INVARIANTS EgressInv
PROPERTIES RoutesAgree ListFollowsFile
