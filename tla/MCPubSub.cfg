SPECIFICATION PubSubFairSpec
CONSTANTS
  Callers = {c1, c2}
  Sender = sender
  NoThread = none
  Topics = {t1, t2}
  Subscribed = {t1}
  Data = {d1}
  MaxPublish = 3
INVARIANTS
  TypeOK
  MutualExclusion
  FifoNoLoss
  NoLostWakeup
  TopicOutlivesSubscribe
  CallbackRaceFree
PROPERTIES
  PublishedIsSent
  PublishReturns
  SentIsDelivered
  RequestReturns
  UnsubscribeReturns
CHECK_DEADLOCK FALSE
