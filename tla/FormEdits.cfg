CONSTANTS
  Kebab = {"api"}
  Odd = "my api"
  Flags = {"shared_secrets_config"}
  Patterns = {"api-microservice", "grpc-service", "edge-gateway", "worker", "scheduler", "admin-dashboard", "node-agent"}
  Ports = {0, 9090, 70000}
  IngressRules = {"alb", "istio", "none"}
  MaxRows = 2
  MaxEdits = 2
SPECIFICATION Spec
INVARIANT
  TypeOK  WarningsMirrorEngine EditsStayValid PanelsFollowRows RegeneratesSame OneCall ScrollLocked
