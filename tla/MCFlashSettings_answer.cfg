CONSTANTS
  Offered <- MCOffered
SPECIFICATION Spec
INVARIANTS
  SuccessIsOk
