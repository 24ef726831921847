CONSTANTS
  Accounts = {a1}
  Tasks = {t1, t2}
  Features = {f1}
  None = None
  FreezeAmounts = {1, 2}
  GiftAmounts = {2}
  TopUps = {1}
  SignupPoints = 2
  MaxFreezes = 2
  MaxTopUps = 0
  MaxTime = 1
SYMMETRY Symmetry
SPECIFICATION Spec
INVARIANT GiftPointsExpire
CHECK_DEADLOCK FALSE
