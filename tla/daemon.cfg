\* One process, its threads and their clients, under fairness.
SPECIFICATION DaemonLiveSpec
CONSTANTS
  Alphanumeric = {"a", "b"}
  None = None
  RequestIds = {"r1"}
  Names <- OneBareName
  PathNames <- NoPath
  Statements <- MCStatements
  Procs = {p1}
  Threads = {t1, t2}
  MaxBacklog = 1
  Conns <- MCConns
  Paths = {"p"}
  Catalogs <- OneNameAtTimes
  Bodies <- Several
  MaxResultRows = 0
  MaxSessions = 1
  MaxWrites = 1
INVARIANTS
  DaemonTypeOK
PROPERTIES
  GoneClientIsCleanedUp
  ShutdownHonoured
