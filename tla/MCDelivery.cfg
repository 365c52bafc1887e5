SPECIFICATION PubSubSpec
CONSTANTS
  Callers = {c1, c2}
  Sender = sender
  NoThread = none
  Topics = {t1, t2}
  Subscribed = {t1}
  Data = {d1, d2}
  MaxPublish = 3
SYMMETRY Interchangeable
INVARIANT DeliveredInOrder
PROPERTY ImplementsBusWhole
CHECK_DEADLOCK FALSE
