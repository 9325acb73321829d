SPECIFICATION Spec
CONSTANTS
  p1 = p1
  p2 = p2
  Processes = {p1, p2}
  ControlInputs <- Controls
  OperationalInputs <- Operationals
  IntegrationInputs <- Integrations
  AdminInputs <- Admins
  EnvReader = FALSE
  EnvOdoo = FALSE
  ScanSeconds <- Seconds
  RequestTimeout = 45
  RetriesShown = 12
SYMMETRY Symmetry
INVARIANTS
  RowConsistent
  EnabledWasApproved
  OdooContactAfterSetup
  ContactsExclude
  RetryComputable
PROPERTIES
  OverwriteNeedsRace
