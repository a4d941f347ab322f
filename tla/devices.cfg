SPECIFICATION Spec
CONSTANTS
  None = None
  o = o
  ann = ann
  bob = bob
  o2 = o2
  Person <- PersonOf
  Creator = o
  Top = top
  Ids = {o, ann, bob}
  Devices = {o, o2, ann}
  Subs = {}
  CustomRoles = {"crew"}
  AppPerms = {}
  Invites <- CrewInvites
  Logs = {}
  MaxLen = 0
  MaxCodes = 1
  AssignedRoles = {"admin", "crew"}
  DefinedPerms = {{"decide", "post"}, {"invite", "post"}}
  Cuts <- NoCuts
  Drops = {TRUE, FALSE}
  Privacy = {FALSE}
  WriteRoles = {{}}
  Removable = {o, ann}
CHECK_DEADLOCK FALSE
INVARIANTS TypeOK OneSettlerPerDecider GoneDevicesSilent BaseFollowsView UsesCounted
