SPECIFICATION Spec
CONSTANTS
  Definitions <- MCDefinitions
  top = top
  base = base
  Groups = {top, base}
  GroupOf <- MCGroupOf
  Dependencies <- MCDependencies
  Registered <- MCRegistered
  Enforce = TRUE
  NoId = NoId
  MaxExplicit = 2
  MaxDepth = 2
INVARIANTS
  LoadedIsCounted
  CountsAreHolds
  DependenciesLoaded
  ClearGoesOn
\* The database has been cleared, or clearDatabase is refused.
CHECK_DEADLOCK FALSE
