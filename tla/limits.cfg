SPECIFICATION DecisionSpec
CONSTANTS
  None = None
  o = o
  ann = ann
  l1 = l1
  Person <- PersonOf
  Creator = o
  Top = top
  Ids = {o, ann}
  Devices = {o}
  Subs = {sub}
  CustomRoles = {}
  AppPerms = {}
  Invites = {}
  Logs = {l1}
  MaxLen = 2
  MaxCodes = 1
  AssignedRoles = {"member", "moderator"}
  DefinedPerms = {}
  Cuts <- Held
  Drops = {TRUE, FALSE}
  Privacy = {FALSE}
  WriteRoles = {{"moderator"}}
  Removable = {}
  Records = {}
  Commits = {}
  MaxEpoch = 0
  TypeNames = {}
  MaxVersions = 0
  ListedLogs = {}
  MaxHelpers = 1
  SettingChoices = {}
CHECK_DEADLOCK FALSE
INVARIANTS DropHolds ReadersAgree
PROPERTIES CutIsFinal KeptInTop
