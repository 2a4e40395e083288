CONSTANTS
  Offered <- MCOffered
SPECIFICATION Spec
INVARIANTS
  SettingsAtomic
  BitrateNeverErased
  HaltNeedsHarm
  CopiesAgree
