CONSTANTS
  d1 = d1
  d2 = d2
  email = email
  sms = sms
  Deliveries = {d1, d2}
  Channels = {email, sms}
  Assignments <- OneOrTwo
  PoolSize = 2
  MaxRetries = 3
  Threshold = 2
SPECIFICATION FairSpec
INVARIANTS TypeOK CircuitFollowsResults
PROPERTIES DeliveriesSettle HalfOpenResolves
CHECK_DEADLOCK FALSE
