SPECIFICATION Spec
CONSTANTS
  a = a
  b = b
  t1 = t1
  q1 = q1
  q2 = q2
  q3 = q3
  None = None
  Reclaimer = Reclaimer
  Listeners = {a, b}
  Tasks = {t1}
  Requests = {q1, q2, q3}
  ActionOf <- RestoreAndSync
  MaxAttempts = 1
  MaxPublications = 2
  Faults = {"crash", "noconn"}
  MaxFaults = 1
INVARIANTS WorkerKeepsRow
PROPERTIES LateReadersStandDown KeepsPromise
SYMMETRY Containers
CHECK_DEADLOCK FALSE
