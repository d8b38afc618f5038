CONSTANTS
  p1 = p1  p2 = p2  v0 = v0  v1 = v1
  m1 = m1  m2 = m2  m3 = m3  i1 = i1  e1 = e1
  Params = {p1, p2}
  Values = {v0, v1}
  Default = v0
  Null = Null
  Invalid = Invalid
  Checks = {{p1, p2}}
  Servers = {m1, m2}
  Admins = {}
  Editors = {e1}
  Mortal = {m1}
  MaxCalls = 1
  Apart = FALSE
SPECIFICATION ReadySpec
INVARIANTS LogReplays
CHECK_DEADLOCK FALSE
