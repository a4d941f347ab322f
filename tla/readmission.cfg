SPECIFICATION OwnSpec
CONSTANTS
  None = None
  o = o
  ann = ann
  l1 = l1
  l2 = l2
  l3 = l3
  w1 = w1
  Person <- PersonOf
  Creator = o
  Top = top
  Ids = {o, ann}
  Devices = {o}
  Subs = {}
  CustomRoles = {}
  AppPerms = {}
  Invites = {}
  Logs = {l1, l2, l3}
  MaxLen = 1
  MaxCodes = 1
  AssignedRoles = {"member", "moderator"}
  DefinedPerms = {}
  Cuts <- Held
  Drops = {FALSE}
  Privacy = {FALSE}
  WriteRoles = {{}}
  Removable = {}
  Records = {}
  Commits = {}
  MaxEpoch = 0
  TypeNames = {}
  MaxVersions = 0
  ListedLogs = {}
  MaxHelpers = 1
  SettingChoices = {}
  Me = ann
  Generations <- OneAfterAnother
  Writers = {w1}
  MaxStarts = 2
CHECK_DEADLOCK FALSE
INVARIANTS OwnTypeOK OneHeader NothingInCut PreparedLogsStayOut
PROPERTY WritesEnd
