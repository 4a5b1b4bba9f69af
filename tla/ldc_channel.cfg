SPECIFICATION FairSpec
CONSTANTS
  MaxPkts = 2
  Sizes = {2, 4}
  MAX_PKT_COPY = 1
  MaxConf = 1
  Coordinated = TRUE
INVARIANTS TypeOK NoLostWakeup ResetSeen
PROPERTIES FifoSpec Delivered
