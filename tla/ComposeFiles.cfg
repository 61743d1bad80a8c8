CONSTANTS
  Words = {0}
  Numbers = {2}
  Spellings = {"kebab", "upper", "snake"}
  DependencyKeys = {"postgresql"}
  Ports = {0, 8080, 70000}
  MaxServices = 3
  MaxPorts = 2
SPECIFICATION MCSpec
CHECK_DEADLOCK FALSE
INVARIANT
  TypeOK NamesDistinct ImportsFit HonorsFile ServicesAccounted
