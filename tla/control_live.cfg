SPECIFICATION LiveSpec
CONSTANTS
  a = a
  b = b
  t1 = t1
  q1 = q1
  q2 = q2
  q3 = q3
  None = None
  Reclaimer = Reclaimer
  Listeners = {a, b}
  Tasks = {t1}
  Requests = {q1}
  ActionOf <- OneRestart
  MaxAttempts = 0
  MaxPublications = 1
  Faults = {"crash", "drop", "fail", "linger", "noconn"}
  MaxFaults = 2
INVARIANTS VerdictIsReal
PROPERTIES NoRowLeftBehind WorkersComeBack
CHECK_DEADLOCK FALSE
