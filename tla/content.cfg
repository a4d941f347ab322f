SPECIFICATION DecisionSpec
CONSTANTS
  None = None
  o = o
  ann = ann
  l1 = l1
  Person <- PersonOf
  Creator = o
  Top = top
  Ids = {o, ann}
  Devices = {o, ann}
  Subs = {}
  CustomRoles = {}
  AppPerms = {}
  Invites = {}
  Logs = {}
  MaxLen = 0
  MaxCodes = 0
  AssignedRoles = {"moderator"}
  DefinedPerms = {}
  Cuts <- NoCuts
  Drops = {FALSE}
  Privacy = {TRUE, FALSE}
  WriteRoles = {{}}
  Removable = {}
  Records = {r}
  Commits = {k1, k2}
  MaxEpoch = 1
  TypeNames = {"post"}
  MaxVersions = 2
  ListedLogs = {l1}
  MaxHelpers = 1
  SettingChoices <- AnySetting
CHECK_DEADLOCK FALSE
INVARIANTS PublicNeverKeyed
PROPERTIES KeysStayKnown  TypesOnlyGrow
