SPECIFICATION FairSpec
CONSTANTS
  Period = {0}
  default_period = 2
  MaxGap = 4
  AccessTicks = 4
  Round = 28
  Settle = 26
  KickLatency = 15
INVARIANTS NoEarlyReset ResetInTime WritesHeeded
PROPERTY ResetDelivered
