CONSTANTS
  o1 = o1
  c1 = c1
  c2 = c2
  p1 = p1
  p2 = p2
  Orders = {o1}
  Creators = {c1, c2}
  Pollers = {p1, p2}
  None = None
  MaxFaults = 2
SPECIFICATION FairSpec
INVARIANTS TypeOK CreditedIffPaid
PROPERTIES OutcomeIsFinal PaidIsCredited
CHECK_DEADLOCK FALSE
