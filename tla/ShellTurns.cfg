CONSTANTS
  None = None
  n1 = n1
  n2 = n2
  Names = {n1, n2}
  Blank = ""
  Typed = {"f"}
  Files = {"f"}
  StorageModes = {"all", "none"}
  MaxCalls = 2
  MaxLoads = 2
  MaxUses = 2
SPECIFICATION MCSpec
INVARIANT
  TypeOK BusyOnlyWithCall FileNameIsText FilesOfOpenChart NeverBlank OneClientId RemembersAnswered
PROPERTY
  AnswersKeepInput
SYMMETRY Symmetry
