SPECIFICATION Spec
CONSTANTS
  Processes <- MCProcesses
  Base <- MCBase
  Environment <- MCEnvironment
  Patches <- MCPatches
  AllowedRoles = {"trader", "observer", "risk_controller"}
  MinimumCash = 1
  Urls = {"local", "mirror"}
  Blanks = Blanks
  MaxIssued = 2
  Missing = Missing
INVARIANT
  FileLoads
PROPERTIES
  OnlyOverlapLoses
  RegistrationLands
  RequestsFollowTheFile
