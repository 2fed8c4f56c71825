CONSTANTS
  goal = goal
  a = a
  b = b
  c1 = c1
  NoId = NoId
  Ids <- MCIds
  Seeds <- MCSeeds
  CompIds <- MCCompIds
  Sizes <- MCSizes
  Offers <- MCOffers
  Window = 10
  Keyworded <- MCNoKeywords
  Goals <- MCGoals
  Mentions <- MCMentions
SPECIFICATION OSpec
PROPERTIES
  PinnedNeverDemoted
CHECK_DEADLOCK FALSE
