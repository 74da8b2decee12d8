SPECIFICATION FairSpec
CHECK_DEADLOCK FALSE
CONSTANTS
  UserSignals = {"TERM"}
  KillTargets = {{"root"}, {"root", "uplink", "downlink", "dnsmasq", "command"}}
  StopTargets = {{"command"}}
  MaxEvents = 2
INVARIANTS
  NoOrphans
  RulesRemoved
  InternalChecksHold
  ExitStatusExplained
PROPERTIES
  TreeEnds
  StoppedResumes
