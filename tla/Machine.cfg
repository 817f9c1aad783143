SPECIFICATION MachineSpec
VIEW MachineView
CONSTRAINT MachineBound
CONSTANTS
  Dirs = {dflt, own}
  InstallDirs = {own}
  Accounts = {work}
  Rcs = {bashrc, profile}
  Kinds = {"systemd", "launchd", "none"}
  MaxTrees = 2
  MaxRuns = 2
  None = None
  Bad = Bad
  Unread = Unread
  Scenes <- MCScenes
INVARIANTS
  BlockInAndOut
  QrReadBack
PROPERTIES
  UninstalledIsClean
  AgentSpared
  Recoverable
CHECK_DEADLOCK FALSE
