CONSTANTS
  e1 = e1
  e2 = e2
  k1 = k1
  k2 = k2
  Entity = {e1, e2}
  Key = {k1, k2}
  EntityOf <- TwoEntities
  Client = {c1}
  QueueCap = 1
  MaxRev = 4
  MaxRestarts = 1
SPECIFICATION FairSpec
INVARIANTS TypeOK ViewOrOwed NoSendOnClosedChannel BucketTracked TotalMatches
PROPERTIES CardsNeverGoBack Converges
