CONSTANTS
  c1 = c1  o1 = o1  r1 = r1  r2 = r2  s1 = s1  s2 = s2
  NoCR = NoCR  NoArtifact = NoArtifact  NoChart = NoChart  NoRequest = NoRequest
  Charts = {c1}
  Anon = {c1}
  Operators = {o1}
  Requests = {r1, r2}
  Specs = {s1, s2}
  Invalid = {}
  Unrenderable = {}
  TTL = 1
  MaxTime = 2
  MaxEdits = 3
  MaxFaults = 1
SPECIFICATION ServiceSpec
INVARIANT
  ServiceTypeOK ServedWasWanted ReadyIsExact NoOrphan Copies
PROPERTY
  NoRollback ReadyStays
SYMMETRY Symmetry
