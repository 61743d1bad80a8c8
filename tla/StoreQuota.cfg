CONSTANTS
  None = None
  Names = {"n1"}
  Blank = ""
  Typed = {"f"}
  Files = {}
  StorageModes = {"reads"}
  MaxCalls = 2
  MaxLoads = 1
SPECIFICATION Spec
INVARIANT
  SessionCoherent
