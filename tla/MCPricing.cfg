SPECIFICATION Spec
CONSTANTS
  Model = {"snap", "m52"}
  Prefix = {"fam", "v5", "v52"}
  FamilyRow = {"fam"}
  Version = {"five", "fiveTwo"}
  Matches <- MCMatches
  Length <- MCLength
  Ancestor <- MCAncestor
  SpecificPrefix <- MCSpecific
  FamilyPrefix <- MCFamily
  BackdateMaxDays = 1
  Refresher = {r1}
  Backfiller = {b1}
  MaxDeleted = 1
  Page <- MCPage
  SeedRow <- MCSeed
  LastDay = 3
  MaxEvents = 2
  MaxCandidates = 3
CHECK_DEADLOCK FALSE
INVARIANTS
  OfferedIsAccepted
  BannerTruthful
  WarnedOrOffered
PROPERTIES
  PastPricesStand
  AppliedSettles
  FamilyFollowsNewest
