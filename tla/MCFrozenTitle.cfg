SPECIFICATION Spec
CONSTANTS
  i1 = i1
  m1 = m1
  m2 = m2
  p1 = p1
  t1 = t1
  r1 = r1
  v1 = v1
  v2 = v2
  None = None
  Absent = Absent
  Issues = {i1}
  Manual = {m1, m2}
  Quiet = {m2}
  Posts = {p1}
  Tasks = {t1}
  Requests = {r1}
  Addresses = {1, 2}
  Visitors = {v1, v2}
  Hook = 9
  MaxTitle = 1
  MaxEvents = 2
INVARIANTS FrozenIsTranslated

CHECK_DEADLOCK FALSE
