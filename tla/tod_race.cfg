SPECIFICATION FairSpec
CONSTANTS
  g1 = g1
  s1 = s1
  s2 = s2
  Guests = {g1}
  Strands = {s1, s2}
  GuestOf <- MCGuestOf
  BootOf <- MCBootOf
  HcallInfos = {"tod"}
  QLEN = 5
  SEQMOD = 3
  MaxEvents = 3
INVARIANTS Informed
CHECK_DEADLOCK FALSE
