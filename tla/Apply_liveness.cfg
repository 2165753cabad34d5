SPECIFICATION FairSpec
CONSTANTS
  Name <- Names
  Net = {"n", "m"}
  Image = {"v1", "v2"}
  Id <- Ids
  NoId = 0
  Stacks <- SameNet
  Selections <- Selects
  MaxFaults = 1
  MaxEvents = 2
PROPERTIES ApplyTerminates RetryConverges
