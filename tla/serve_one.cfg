\* One connection, two databases, a catalog that changes, every kind of message.
SPECIFICATION Spec
CONSTANTS
  Alphanumeric = {"a", "b"}
  None = None
  RequestIds = {"r1", "r2"}
  Names <- TwoBareNames
  PathNames <- APath
  Statements <- MCStatements
  Conns = {c1}
  Paths = {"p", "q"}
  Catalogs <- TwoNames
  Bodies <- OneConn
  MaxResultRows = 0
  MaxSessions = 2
  MaxWrites = 2
INVARIANTS
  TypeOK
  RegionOwnsTransaction
  ReplyTruth
  SessionIdNamesOneDatabase
PROPERTIES
  PublishedByRequest
  OpenSeesCatalog
