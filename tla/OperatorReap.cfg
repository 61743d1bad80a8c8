CONSTANTS
  c1 = c1  c2 = c2  o1 = o1  o2 = o2
  s1 = s1  s2 = s2  bad = bad  broken = broken
  NoCR = NoCR  NoArtifact = NoArtifact  NoChart = NoChart
  Charts = {c1}
  Anon = {c1}
  Operators = {o1}
  Specs = {s1, s2}
  Invalid = {}
  Unrenderable = {}
  TTL = 1
  MaxTime = 2
  MaxEdits = 3
  MaxFaults = 0
SPECIFICATION Spec
PROPERTY
  ReapsOnlyExpired
