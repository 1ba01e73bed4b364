\* A node whose modules come and go, and an application that calls verbs from
\* one thread.  It may be left alone at any time, so deadlock is not an error.
SPECIFICATION Spec
CONSTANTS
  Threads = {t1}
  Mrs = {m1, m2}
  Qps = {q1, q2}
  NULL = NULL
  Ini <- SmallIni
  Max <- SmallMax
INVARIANTS TypeOK KeyNamesObject NothingLeaks OwnersLoaded DeviceRests UsersHaveDevice
CHECK_DEADLOCK FALSE
