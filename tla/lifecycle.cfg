\* Two processes started, probed, stopped and crashed in every order.
SPECIFICATION LiveSpec
CONSTANTS
  Procs = {p1, p2}
  Threads = {t1, t2}
  MaxBacklog = 2
  None = None
INVARIANTS
  TypeOK
  SocketOwned
  AddressFree
  EndpointRestricted
  WakeUpComes
PROPERTIES
  ShutdownStops
