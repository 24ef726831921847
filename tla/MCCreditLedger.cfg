CONSTANTS
  Accounts = {a1}
  Tasks = {t1, t2}
  Features = {f1}
  None = None
  FreezeAmounts = {1, 2}
  GiftAmounts = {1}
  TopUps = {1}
  SignupPoints = 2
  MaxFreezes = 2
  MaxTopUps = 1
  MaxTime = 3
SYMMETRY Symmetry
SPECIFICATION Spec
INVARIANTS
  TypeOK
  BucketsAddUp
  FrozenIsReserved
  NoOverdraft
  LedgerReconciles
PROPERTIES
  ImplementsReservation
CHECK_DEADLOCK FALSE
