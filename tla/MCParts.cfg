SPECIFICATION Spec
CONSTANTS
  \* Dss
  First = 2
  Cont = 2
  MaxLen = 7
  MaxMessages = 2
  \* Ddm
  Inline = 9
  FirstChunk = 3
  NextChunk = 2
  MaxData = 6
  MaxObjects = 2
  MaxParams = 2
  \* Rows
  Shapes <- mcShapes
  ShortFrom = 1024
  ShortLeast = 16
  MaxRows = 2
  Blocks = {1, 150}
  \* Handshake
  Confs <- mcConfs
  MaxReplies = 3
  MaxConnects = 2
  \* ZosSelect
  Selects = {"like", "lob", "hidden"}
  Like = {"like"}
  LobColumns = {"lob"}
  LobValues = {"hidden"}
  MaxSection = 3
  MaxEntries = 2
  MaxSelects = 3
  \* LobChunks
  LobCols <- mcLobCols
  ChunkLimit = 2
  WindowTarget = 4
  ReplyTarget = 4
  BatchLimit = 2
  Orders = {FALSE, TRUE}
  RowLimits = {0, 1}
  MaxLob = 3
  MaxTableRows = 2
  MaxChanges = 1
  MaxAttempts = 1
  \* Handles
  JsClients = {"j1"}
  Queries = {"q"}
  Transactions = {"t1"}
  Clients = {"c1", "c2"}
  MaxStatements = 2
  \* Params
  Inputs <- mcInputs
  Given <- mcGiven
  MaxGiven = 2
  Entries = 1
  MaxVarying = 4
  MaxPrefix = 30
INVARIANTS
  FramesAreTheMessages
  ObjectsSurvive
  
  SessionIsGranted
  OneRefusal
  SecretsProtected
  SetUpBeforeUse
  
  
  LobsAreNotCached
  LobsRebuilt
  
  OneHolder
  
  CancelsItsOwn
  ParamsArrive
CHECK_DEADLOCK FALSE
