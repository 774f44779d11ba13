CONSTANTS
  Width = 2
  MaxWait = 2
  MaxMail = 3
SPECIFICATION FairSpec
INVARIANT MailExact
PROPERTY BitsArrive
PROPERTY TimeoutMissesNothing
PROPERTY WaitReturns
CHECK_DEADLOCK FALSE
