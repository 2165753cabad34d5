SPECIFICATION FairSpec
CONSTANTS
  Name <- Names
  Net = {"n"}
  Image = {"v1", "v2"}
  Id <- Ids
  NoId = 0
  Proc = {"p"}
  Declared <- Stack1
  Hosts <- SomeHosts
  Cmds <- AllCmds
  Args <- SomeArgs
  MaxFaults = 1
  MaxEvents = 1
INVARIANTS OkMeansDone DisableSticks
PROPERTIES ManagedOnly NoRevival CommandsEnd
