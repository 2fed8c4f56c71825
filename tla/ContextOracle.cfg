CONSTANTS
  goal = goal
  a = a
  b = b
  c1 = c1
  NoId = NoId
  Ids <- MCIds
  Seeds <- MCSeeds
  CompIds <- MCCompIds
  Sizes <- MCSizes
  Offers <- MCOffers
  Window = 10
  Keyworded <- MCKeyworded
  Goals <- MCGoals
  Mentions <- MCMentions
SPECIFICATION OSpec
INVARIANTS
  OTypeOK
  OrderIsLinear
  LineageRecorded
  OnlyKeywordedCompressed
PROPERTIES
  ProtectedLeaveOnlyByRemove
  EvictionPolicy
  AdmissionFits
  OracleNeverRecreates
CHECK_DEADLOCK FALSE
