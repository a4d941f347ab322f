SPECIFICATION Spec
CONSTANTS
  None = None
  ann = ann
  bob = bob
  cat = cat
  dan = dan
  Devices = {ann, bob, cat, dan}
  Founder = ann
  Rank <- RankOf
  Scenes <- KeyScenes
CHECK_DEADLOCK FALSE
INVARIANTS KeysTypeOK NewKeysStayIn
  
