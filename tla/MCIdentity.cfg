CONSTANTS
  Request = {r1, r2, r3, r4}
  Identifier = {ann, bob}
  Before = before
  CodesPer = 2
  MaxAttempts = 2
  Lockout = 2
  SessionLifetime = 2
  PendingLife = 1
  EnrolLife = 1
  InvitationLifetime = 2
  MaxTime = 2
  MaxDeaths = 1
SYMMETRY MCSymmetry
SPECIFICATION Spec
INVARIANTS
  GrantNeedsSecondFactor
  CodeSpentOnce
  ConsumedMeansEnrolled
  UntilHolds
PROPERTIES
  EndedStaysEnded
CHECK_DEADLOCK FALSE
