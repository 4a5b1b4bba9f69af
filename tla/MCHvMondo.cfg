SPECIFICATION FairSpec
CONSTANTS
  s1 = s1
  s2 = s2
  s3 = s3
  Strands = {s1, s2, s3}
  NWORDS = 2
  MaySend <- Chain
  MaxSends = 2
INVARIANTS TypeOK NoMboxAbort IntactMondo MailboxInv
PROPERTIES ImplementsMailbox MondosFlow
CHECK_DEADLOCK FALSE
