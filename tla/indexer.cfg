SPECIFICATION Spec
CONSTANTS
  None = None
  a1 = a1
  a2 = a2
  b1 = b1
  Logs = {a1, a2, b1}
  Author <- AuthorOf
  Rank <- RankOf
  Editable <- EditableBy
  OnePerMember = {"vote"}
  MaxLen = 4
  Batch = 2
  Scenes <- IndexScenes
CHECK_DEADLOCK FALSE
INVARIANTS IndexTypeOK RowsMatchBlocks HolesWatched
  
