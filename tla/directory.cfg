SPECIFICATION Spec
CONSTANTS
  None = None
  ann = ann
  bob = bob
  k1 = k1
  k2 = k2
  k3 = k3
  Members = {ann, bob}
  Keys = {k1, k2, k3}
  Path <- PathOf
  PARTS = 2
  FEW = 1
  FETCHES = 1
  MAX_QUEUE = 1
  MAX_PENDING = 1
  Scenes <- DirScenes
CHECK_DEADLOCK FALSE
INVARIANTS DirectoryTypeOK WaitingCounted UsesKeepCore SettledHeard
 
