\* app/executors/dispatch.py: a later hit with a different grep filters the full result.
SPECIFICATION Spec
CONSTANTS
  c1 = c1
  c2 = c2
  c3 = c3
  k1 = k1
  k2 = k2
  pod = pod
  phone = phone
  Calls = {c1, c2, c3}
  Keys = {k1}
  Lines = {pod, phone}
  Secrets = {phone}
  Block = {}
  BlockEnds = {}
  Beginnings = {}
  NoNeedle = NoNeedle
  Ttl = 2
  Keep = 3
  MaxRun = 1
  MaxTime = 5
INVARIANTS
  HitFiltersTheWhole
SYMMETRY CallSymmetry
CHECK_DEADLOCK FALSE
