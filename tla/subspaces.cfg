SPECIFICATION Spec
CONSTANTS
  None = None
  o = o
  ann = ann
  bob = bob
  o2 = o2
  Person <- PersonOf
  Creator = o
  Top = top
  Ids = {o, ann, bob}
  Devices = {o, ann, bob}
  Subs = {sub}
  CustomRoles = {}
  AppPerms = {}
  Invites = {}
  Logs = {}
  MaxLen = 0
  MaxCodes = 0
  AssignedRoles = {"admin", "moderator"}
  DefinedPerms = {}
  Cuts <- NoCuts
  Drops = {FALSE}
  Privacy = {FALSE}
  WriteRoles = {{}}
  Removable = {}
SYMMETRY Others
CHECK_DEADLOCK FALSE
INVARIANTS OneOwner SpeakersMayWrite
PROPERTY RankRespected
