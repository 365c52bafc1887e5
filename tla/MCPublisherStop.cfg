SPECIFICATION FairSpec
CONSTANTS
  Callers = {c1, c2}
  Sender = sender
  NoThread = none
  Topics = {t1, t2}
  Data = {d1}
  MaxPublish = 2
PROPERTY DestructorReturns
CHECK_DEADLOCK FALSE
