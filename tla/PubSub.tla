-------------------------------- MODULE PubSub --------------------------------
(***************************************************************************)
(* The SimplePubSub library as the program puts it together: one publisher *)
(* and a subscriber per topic, in one ZeroMQ context. main() requests the  *)
(* publisher, register_subscriber requests the subscribers one after the   *)
(* other, and only then does anybody publish. The objects are destroyed in *)
(* any order, the publisher when no caller can be inside publish().        *)
(* PubSubBus states what the users of the library rely on (Bus.tla).       *)
(***************************************************************************)
EXTENDS Publisher, Subscriber

VARIABLE sent   \* history: the data sent on each topic

pubSubVars == <<vars, subVars, sent>>

ASSUME PubSubAssumption == Subscribed \subseteq Topics

PubSubInit == Init /\ SubInit /\ sent = [t \in Topics |-> <<>>]

(* Bug: main() listens for commands before it has registered.              *)
RegisteredAny == \E t \in Subscribed : userPc[t] # "absent"

(* register_subscriber has returned.                                       *)
Registered == \A t \in Subscribed : userPc[t] \notin {"absent", "spin", "assign"}

(* Its six requests are made one after the other.                          *)
Request(t) ==
  /\ \A u \in Subscribed : userPc[u] \in {"absent", "have"}
  /\ Construct(t)
  /\ UNCHANGED <<vars, sent>>

PublishCall(c, m) == Registered /\ Call(c, m) /\ UNCHANGED <<subVars, sent>>

(* A PUB socket learns of subscriptions when it reads its commands, which  *)
(* its first send does and a later one may put off.                        *)
Seen(learned) ==
  [t \in Subscribed |-> IF t \in learned THEN "seen" ELSE subscription[t]]

(* The two frames go to the pipe of the topic's subscriber, if the socket  *)
(* knows of one.                                                           *)
SendToPipes ==
  /\ Send
  /\ \E learned \in SUBSET {t \in Subscribed : subscription[t] = "made"} :
       /\ wire = <<>> => learned = {t \in Subscribed : subscription[t] = "made"}
       /\ subscription' = Seen(learned)
  /\ LET m == Head(inFlight) IN
       /\ sent' = [sent EXCEPT ![m.topic] = Append(@, m.data)]
       /\ pipe' = [t \in Subscribed |->
                     IF t = m.topic /\ subscription'[t] = "seen"
                     THEN Append(pipe[t], m.data) ELSE pipe[t]]
  /\ UNCHANGED <<userPc, receiverPc, topicAlive, subKeepRunning, subSocketInit,
                 hasCallback, taken, delivered>>

CallerStep(c) == CallerNext(c) /\ UNCHANGED <<subVars, sent>>
SenderLocalStep ==
  /\ \/ OpenSocket \/ TestRunning \/ SenderLock \/ TestPredicate \/ Block
     \/ Pop \/ Drained \/ CloseSocket
  /\ UNCHANGED <<subVars, sent>>
SendingStep == SenderLocalStep \/ SendToPipes
ReceiverStep(t) == ReceiverNext(t) /\ UNCHANGED <<vars, sent>>
RequestStep(t) == (SpinEnds(t) \/ AssignAndReturn(t)) /\ UNCHANGED <<vars, sent>>
JoinStep(t) == JoinReceiver(t) /\ UNCHANGED <<vars, sent>>

Destroy ==
  \/ Registered /\ \E t \in Subscribed : StopReceiving(t) /\ UNCHANGED <<vars, sent>>
  \/ Registered /\ StopRunning /\ UNCHANGED <<subVars, sent>>
  \/ (NotifyAll \/ Join) /\ UNCHANGED <<subVars, sent>>

PubSubNext ==
  \/ \E t \in Subscribed : Request(t) \/ RequestStep(t) \/ ReceiverStep(t) \/ JoinStep(t)
  \/ \E c \in Callers, m \in Message : PublishCall(c, m)
  \/ \E c \in Callers : CallerStep(c)
  \/ SendingStep
  \/ SpuriousWakeup /\ UNCHANGED <<subVars, sent>>
  \/ Destroy

PubSubSpec == PubSubInit /\ [][PubSubNext]_pubSubVars

(* As in Publisher.tla, for every thread of the library and its users.     *)
PubSubFairSpec ==
  /\ PubSubSpec
  /\ \A c \in Callers : /\ WF_pubSubVars(CallerStep(c))
                        /\ SF_pubSubVars(CallerLock(c) /\ UNCHANGED <<subVars, sent>>)
  /\ WF_pubSubVars(SendingStep)
  /\ SF_pubSubVars(SenderLock /\ UNCHANGED <<subVars, sent>>)
  /\ \A t \in Subscribed : /\ WF_pubSubVars(ReceiverStep(t))
                           /\ WF_pubSubVars(RequestStep(t))
                           /\ WF_pubSubVars(JoinStep(t))

------------------------------------------------------------------------------
(* Properties                                                              *)

(* What was sent on a topic is, in order and once each, what its callback  *)
(* has been called with, is being called with, or finds in its pipe: no    *)
(* message falls between the subscription and the callback's assignment.   *)
DeliveredInOrder ==
  \A t \in Subscribed :
    userPc[t] = "have" => sent[t] = delivered[t] \o taken[t] \o pipe[t]

(* Until its destructor begins, a subscriber's callback is called with     *)
(* everything that was sent on its topic.                                  *)
SentIsDelivered ==
  \A t \in Subscribed, n \in 1..MaxPublish :
    (Len(sent[t]) >= n) ~> (Len(delivered[t]) >= n \/ userPc[t] \in {"join", "destroyed"})

(* requestSubcriber returns.                                               *)
RequestReturns == \A t \in Subscribed : (userPc[t] = "spin") ~> (userPc[t] = "have")

(* ~Subscriber returns, even when messages keep arriving.                  *)
UnsubscribeReturns ==
  \A t \in Subscribed : (userPc[t] = "join") ~> (userPc[t] = "destroyed")

(* Until the first subscriber is destroyed, publisher, pipes and           *)
(* subscribers together implement the bus: the queue and the message in    *)
(* flight are the outbox; a message leaves its inbox when its callback has *)
(* been called with it, and stays where nobody has subscribed.             *)
PubSubBus == INSTANCE Bus WITH
  HighWater <- MaxPublish + 1,
  outbox <- inFlight \o messageQueue,
  inbox <- [t \in Topics |-> IF t \in Subscribed THEN taken[t] \o pipe[t] ELSE sent[t]]

AllHave == \A t \in Subscribed : userPc[t] \notin {"join", "destroyed"}

ImplementsBusWhole ==
  PubSubBus!BusInit /\ [][AllHave' => PubSubBus!BusNext]_(PubSubBus!busVars)

==============================================================================
