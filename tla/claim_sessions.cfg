\* A region serves a request naming another session.
SPECIFICATION Spec
CONSTANTS
  Alphanumeric = {"a", "b"}
  None = None
  RequestIds = {"r1", "r2"}
  Names <- TwoBareNames
  PathNames <- APath
  Statements <- MCStatements
  Conns = {c1}
  Paths = {"p", "q"}
  Catalogs <- TwoNames
  Bodies <- Claimed
  MaxResultRows = 0
  MaxSessions = 1
  MaxWrites = 1
INVARIANT
  DifferentSessionIsRefused
