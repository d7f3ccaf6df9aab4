CONSTANTS
  t1 = t1  t2 = t2  c1 = c1  c2 = c2  create = create  retire = retire  invalidate = invalidate
  Request = {create, retire, invalidate}
  AttemptOf <- MCAttemptOf
  Guarded = {create, retire}
  Disputable = {create}
  Locked = {retire}
  MaxEntries = 1
  Client = {c1, c2}
  Thread = {t1, t2}
  None = None
  MaxCalls = 4
  MaxWires = 2
  MaxEpoch = 2
SPECIFICATION MCSpec
INVARIANTS TypeOK AtMostOnce AnswersAreOwn ConnectedIsAttached
PROPERTIES CallsEnd
CHECK_DEADLOCK FALSE
