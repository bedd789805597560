\* Two processes, two logins, two grants, one crash, three generations to sign out from.
SPECIFICATION Spec
CONSTANTS
  p1 = p1
  p2 = p2
  Procs <- TwoProcs
  MaxTokens = 2
  MaxLogins = 2
  MaxCrashes = 1
  MaxGen = 3
SYMMETRY Symmetry
INVARIANTS
  TypeOK
  SignedInHasCredential
  GenerationNamesOneToken
  RefreshTokenUsedOnce
  EndedStaysOut
PROPERTY SignedOutStaysOut
CHECK_DEADLOCK FALSE
