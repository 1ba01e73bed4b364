\* Two threads of an application register memory at the same time.
SPECIFICATION Spec
CONSTANTS
  Threads = {t1, t2}
  Mrs = {m1, m2}
  Qps = {q1}
  NULL = NULL
  Ini <- SmallIni
  Max <- SmallMax
INVARIANTS KeyNamesObject
CHECK_DEADLOCK FALSE
