\* FETCH FIRST 1 ROW ONLY, a table that does not change, every query answered.
SPECIFICATION LobSpec
CONSTANTS
  LobCols <- mcLobCols
  ChunkLimit = 2
  WindowTarget = 2
  ReplyTarget = 500
  BatchLimit = 1
  Orders = {FALSE}
  RowLimits = {0, 1}
  MaxLob = 3
  MaxTableRows = 2
  MaxChanges = 0
  MaxAttempts = 1
INVARIANT LobsAsStored
CHECK_DEADLOCK FALSE
