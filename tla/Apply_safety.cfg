SPECIFICATION Spec
CONSTANTS
  Name <- Names
  Net = {"n", "m"}
  Image = {"v1", "v2"}
  Id <- Ids
  NoId = 0
  Stacks <- Edits
  Selections <- Selects
  MaxFaults = 1
  MaxEvents = 2
INVARIANTS ExitZeroConverged ResultTruthful
PROPERTIES ForeignUntouched PartialScope DisabledSurvives DependenciesFirst FailsForACause
