SPECIFICATION FairSpec
CONSTANTS
  Retriers <- AllRetriers
  Outcomes <- OpOutcomes
INVARIANTS LoopInv SuccessIsReal GivesUpOnStreak
PROPERTY DoReturns
CHECK_DEADLOCK FALSE
