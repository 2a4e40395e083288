SPECIFICATION FairSpec
CONSTANTS
  TxSize = 4
  Polled <- MCPolled
  Mailboxes = 3
  CountMod = 65536
  MaxVersion = 2
INVARIANTS
  TypeOK
  AcceptedNotLost
  NoLostWakeup
PROPERTIES
  CountServed
  PromiseKept
CHECK_DEADLOCK FALSE
