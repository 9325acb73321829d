SPECIFICATION Spec
CONSTANTS
  p1 = p1
  p2 = p2
  Processes = {p1, p2}
  ControlInputs <- Controls
  OperationalInputs <- Operationals
  IntegrationInputs <- Integrations
  AdminInputs = {}
  EnvReader = FALSE
  EnvOdoo = FALSE
  ScanSeconds <- Seconds
  RequestTimeout = 45
  RetriesShown = 12
PROPERTIES
  ContactNeedsPhrase
