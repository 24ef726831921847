CONSTANTS
  t1 = t1
  l1 = l1
  Tasks <- MCTasks
  Locals <- MCLocals
  LinkOf <- MCLinkOf
  PollSlots = {p1}
SPECIFICATION Spec
INVARIANTS TypeOK OneRowPerTask ToldOnce
PROPERTIES ViewImplemented OpenRowsClose
CHECK_DEADLOCK FALSE
