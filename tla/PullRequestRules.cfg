SPECIFICATION Spec
CONSTANTS
  None = None
  Fields <- MCFields
  Aspects <- MCAspects
  Settings <- MCSettings
  Dependencies <- MCDependencies
  Inputs <- MCInputs
INVARIANTS MenuAgrees
PROPERTIES AnnouncedOnce
