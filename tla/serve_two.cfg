\* Two connections, each with a session on the same database.
SPECIFICATION Spec
CONSTANTS
  Alphanumeric = {"a", "b"}
  None = None
  RequestIds = {"r1"}
  Names <- OneBareName
  PathNames <- NoPath
  Statements <- MCStatements
  Conns = {c1, c2}
  Paths = {"p"}
  Catalogs <- OneName
  Bodies <- TwoConns
  MaxResultRows = 0
  MaxSessions = 1
  MaxWrites = 2
SYMMETRY ConnSymmetry
INVARIANTS
  ReplyTruth
PROPERTIES
  PublishedByRequest
