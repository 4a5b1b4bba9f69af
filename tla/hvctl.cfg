SPECIFICATION FairSpec
CONSTANTS
  g1 = g1
  s1 = s1
  s2 = s2
  Guests = {g1}
  Strands = {s1, s2}
  GuestOf <- MCGuestOf
  BootOf <- MCBootOf
  HcallInfos = {"soft_state"}
  QLEN = 5
  SEQMOD = 3
  MaxEvents = 3
INVARIANTS TypeOK SessionAgrees RoomForAll NotifyOrder Informed
PROPERTIES ZeusLearns
CHECK_DEADLOCK FALSE
