\* A thread of a stopping daemon commits while the next daemon runs.
SPECIFICATION DaemonSpec
CONSTANTS
  Alphanumeric = {"a", "b"}
  None = None
  RequestIds = {"r1"}
  Names <- OneBareName
  PathNames <- NoPath
  Statements <- MCStatements
  Procs = {p1, p2}
  Threads = {t1}
  MaxBacklog = 1
  Conns <- MCConns
  Paths = {"p"}
  Catalogs <- OneName
  Bodies <- OneWriter
  MaxResultRows = 0
  MaxSessions = 1
  MaxWrites = 1
PROPERTY
  CommitsAlone
