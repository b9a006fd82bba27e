\* A status probe is taken for a daemon.
SPECIFICATION Spec
CONSTANTS
  Procs = {p1, p2}
  Threads = {t1}
  MaxBacklog = 1
  None = None
PROPERTY
  RunningMeansDaemon
