SPECIFICATION Spec
CONSTANTS
  Endpoints = {e1}
  Guards = {g1, g2}
  Tasks = {t1, t2}
INVARIANT GuardKeepsFetcher
CHECK_DEADLOCK FALSE
