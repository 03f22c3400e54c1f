CONSTANTS
  NS = 2
  Sends <- SomeSends
  Recvs <- SomeRecvs
  MaxSends = 3
  MaxRecvs = 2
  MaxCrashes = 1
SPECIFICATION FairSpec
CHECK_DEADLOCK FALSE
INVARIANTS TypeOK NonOvertaking InPostedOrder NoMissedMatch RevokeQuiet SendersAnswered
PROPERTIES RevokedSendsEnd 
