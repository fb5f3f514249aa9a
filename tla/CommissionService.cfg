SPECIFICATION ServiceFairSpec
CONSTANTS
  ldr = ldr
  dht = dht
  buzzer = buzzer
  Commissions = {ldr, dht, buzzer}
  NoCommission = NoCommission
  RingCap = 2
INVARIANTS SingleFlight OutcomesHonest RecentlySettledIsKnown
PROPERTIES PollerIsAnswered
CHECK_DEADLOCK FALSE
