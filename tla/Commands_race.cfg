SPECIFICATION Spec
CONSTANTS
  Name <- TwoNames
  Net = {"n"}
  Image = {"v1", "v2"}
  Id <- Ids
  NoId = 0
  Proc = {"p", "q", "r"}
  Declared <- Stack1
  Hosts <- OneHost
  Cmds <- UpCmds
  Args <- OneArg
  MaxFaults = 0
  MaxEvents = 0
INVARIANTS RacesLeaveRunning
