SPECIFICATION FairSpec
CONSTANTS
  Conn = {c1,c2}
  Token = {t1}
  Nonce = {n1,n2,n3}
  MaxSeen = 2
  MaxConnsPerToken = 1
  MaxBytesPerConn = 1
  CopyBuffer = 1
INVARIANTS SlotsAreHeld BytesAreCapped RecentIsSeen
PROPERTIES EveryConnectionEnds
