SPECIFICATION FairSpec
CONSTANTS
  TxSize = 4
  Polled <- MCPolled
  Mailboxes = 3
  CountMod = 65536
  MaxVersion = 2
PROPERTIES
  WaitingMessageSent
CHECK_DEADLOCK FALSE
