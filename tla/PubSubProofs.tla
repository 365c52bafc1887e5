----------------------------- MODULE PubSubProofs -----------------------------
(***************************************************************************)
(* What the handshake of requestSubcriber guarantees, for every set of     *)
(* subscribers, callers and messages: a receiver thread has read its topic *)
(* before the argument goes, and meets no message before every callback is *)
(* assigned; and that from then on every message sent on a topic reaches   *)
(* its callback.                                                           *)
(*                                                                         *)
(* None of these is inductive. The first rests on socketInit, which orders *)
(* the two threads of one subscriber (Handshake); the second on the order  *)
(* of main(): while a request is outstanding nobody publishes, so queue    *)
(* and pipes are empty and the sender has nothing to send (Silent). What   *)
(* the third adds is under "Delivery".                                     *)
(***************************************************************************)
EXTENDS PubSub, PublisherProofs

SubTypes ==
  /\ userPc \in [Subscribed -> UserPcs]
  /\ receiverPc \in [Subscribed -> ReceiverPcs]
  /\ topicAlive \in [Subscribed -> BOOLEAN]
  /\ subSocketInit \in [Subscribed -> BOOLEAN]

(* One subscriber's two threads, ordered by socketInit.                    *)
InStep(t) ==
  /\ userPc[t] = "absent" => receiverPc[t] = "none"
  /\ receiverPc[t] \in {"none", "connect", "subscribe", "ready"} => ~subSocketInit[t]
  /\ ~subSocketInit[t] => userPc[t] \in {"absent", "spin"}
  /\ userPc[t] \in {"spin", "assign"} => topicAlive[t]

Handshake == \A t \in Subscribed : InStep(t)

NothingPublished ==
  /\ messageQueue = <<>>
  /\ senderPc # "send"
  /\ \A c \in Callers : callerPc[c] = "idle"
  /\ pipe = [t \in Subscribed |-> <<>>]
  /\ \A t \in Subscribed : receiverPc[t] \notin {"receive", "check", "callback"}

(* Before the last request has returned.                                   *)
Silent == ~Registered => NothingPublished

SubInv == SubTypes /\ Handshake /\ Silent

------------------------------------------------------------------------------

LEMMA SubInvInit == PubSubInit => SubInv
BY DEF PubSubInit, Init, SubInit, SubInv, SubTypes, Handshake, InStep, Silent,
       NothingPublished, UserPcs, ReceiverPcs

(* A request: the owner's and the receiver's threads start together.       *)
LEMMA RequestKeeps ==
  ASSUME SubInv, NEW t \in Subscribed, Request(t)
  PROVE  SubInv'
<1> USE DEF Request, Construct, UserGoes, ReceiverGoes, SubInv
<1>1. SubTypes'
  BY DEF SubTypes, UserPcs, ReceiverPcs
<1>2. ASSUME NEW u \in Subscribed PROVE InStep(u)'
  BY DEF Handshake, InStep, SubTypes
<1>3. ~Registered
  BY DEF Registered
<1>4. NothingPublished'
  BY <1>3 DEF Silent, NothingPublished, SubTypes, vars
<1> QED
  BY <1>1, <1>2, <1>4 DEF Handshake, Silent

(* A step of one subscriber's owner: it only moves towards registration.   *)
LEMMA OwnerKeeps ==
  ASSUME SubInv, NEW t \in Subscribed,
         SpinEnds(t) \/ AssignAndReturn(t) \/ StopReceiving(t) \/ JoinReceiver(t),
         UNCHANGED <<vars, sent>>
  PROVE  SubInv'
<1> USE DEF SpinEnds, AssignAndReturn, StopReceiving, JoinReceiver, UserGoes, SubInv
<1>1. SubTypes'
  BY DEF SubTypes, UserPcs
<1>2. ASSUME NEW u \in Subscribed PROVE InStep(u)'
  BY DEF Handshake, InStep, SubTypes
<1>3. Registered => Registered'
  BY DEF Registered, SubTypes
<1>4. NothingPublished => NothingPublished'
  BY DEF NothingPublished, vars
<1> QED
  BY <1>1, <1>2, <1>3, <1>4 DEF Handshake, Silent

(* A step of a receiver: an empty pipe gives it nothing to receive.        *)
LEMMA ReceiverKeeps ==
  ASSUME SubInv, NEW t \in Subscribed, ReceiverStep(t)
  PROVE  SubInv'
<1> USE DEF ReceiverStep, ReceiverNext, Connect, Subscribe, Ready, TestReceiving, Poll,
            Receive, CheckCallback, Invoke, CloseReceiver, ReceiverGoes, SubInv
<1>1. SubTypes'
  BY DEF SubTypes, ReceiverPcs
<1>2. ASSUME NEW u \in Subscribed PROVE InStep(u)'
  BY DEF Handshake, InStep, SubTypes
<1>3. Registered' <=> Registered
  BY DEF Registered
<1>4. NothingPublished => NothingPublished'
  BY DEF NothingPublished, SubTypes, vars
<1> QED
  BY <1>1, <1>2, <1>3, <1>4 DEF Handshake, Silent

(* A step of the publisher or its callers: none begins before the          *)
(* registration ends, and none touches a subscriber but by sending.        *)
LEMMA PublisherKeeps ==
  ASSUME SubInv, UNCHANGED <<subVars, sent>>,
         \/ \E c \in Callers, m \in Message : Registered /\ Call(c, m)
         \/ \E c \in Callers : CallerNext(c)
         \/ OpenSocket \/ TestRunning \/ SenderLock \/ TestPredicate \/ Block
         \/ Pop \/ Drained \/ CloseSocket \/ SpuriousWakeup
         \/ StopRunning \/ NotifyAll \/ Join
  PROVE  SubInv'
<1>1. SubTypes' /\ Handshake'
  BY DEF SubInv, SubTypes, Handshake, InStep, subVars
<1>2. Registered' <=> Registered
  BY DEF Registered, subVars
<1>3. ASSUME ~Registered PROVE NothingPublished'
  <2>1. NothingPublished
    BY <1>3 DEF SubInv, Silent
  <2>2. ~ \E c \in Callers : CallerNext(c)
    BY <2>1 DEF NothingPublished, CallerNext, CallerLock, Emplace, NotifyOne
  <2>3. /\ messageQueue' = messageQueue /\ callerPc' = callerPc
        /\ senderPc' # "send"
    BY <1>3, <2>1, <2>2 DEF NothingPublished, OpenSocket, TestRunning, SenderLock,
       TestPredicate, Block, Pop, Drained, CloseSocket, SpuriousWakeup, StopRunning,
       NotifyAll, Notified, Join
  <2> QED
    BY <2>1, <2>3 DEF NothingPublished, subVars
<1> QED
  BY <1>1, <1>2, <1>3 DEF SubInv, Silent

(* Sending: only after the registration.                                   *)
LEMMA SendKeeps ==
  ASSUME SubInv, SendToPipes
  PROVE  SubInv'
<1>1. SubTypes' /\ Handshake'
  BY DEF SubInv, SubTypes, Handshake, InStep, SendToPipes
<1>2. Registered'
  BY DEF SubInv, Silent, NothingPublished, Registered, SendToPipes, Send
<1> QED
  BY <1>1, <1>2 DEF SubInv, Silent

LEMMA SubInvStep == SubInv /\ [PubSubNext]_pubSubVars => SubInv'
<1> SUFFICES ASSUME SubInv, [PubSubNext]_pubSubVars PROVE SubInv'
  OBVIOUS
<1>1. CASE UNCHANGED pubSubVars
  BY <1>1 DEF pubSubVars, vars, subVars, SubInv, SubTypes, Handshake, InStep, Silent,
     NothingPublished, Registered
<1>2. CASE \E t \in Subscribed : Request(t)
  BY <1>2, RequestKeeps
<1>3. CASE \E t \in Subscribed : RequestStep(t) \/ JoinStep(t)
  BY <1>3, OwnerKeeps DEF RequestStep, JoinStep
<1>4. CASE \E t \in Subscribed : ReceiverStep(t)
  BY <1>4, ReceiverKeeps
<1>5. CASE SendToPipes
  BY <1>5, SendKeeps
<1>6. CASE Destroy
  BY <1>6, OwnerKeeps, PublisherKeeps DEF Destroy
<1>7. CASE \/ \E c \in Callers, m \in Message : PublishCall(c, m)
           \/ \E c \in Callers : CallerStep(c)
           \/ SenderLocalStep
           \/ SpuriousWakeup /\ UNCHANGED <<subVars, sent>>
  BY <1>7, PublisherKeeps DEF PublishCall, CallerStep, SenderLocalStep
<1> QED
  BY <1>1, <1>2, <1>3, <1>4, <1>5, <1>6, <1>7 DEF PubSubNext, SendingStep

LEMMA SubInvHolds == PubSubSpec => []SubInv
BY SubInvInit, SubInvStep, PTL DEF PubSubSpec

(* A receiver never reads its topic after the argument of requestSubcriber *)
(* is gone, for any number of subscribers.                                 *)
THEOREM TopicOutlives == PubSubSpec => []TopicOutlivesSubscribe
<1>1. SubInv => TopicOutlivesSubscribe
  BY DEF SubInv, Handshake, InStep, TopicOutlivesSubscribe
<1> QED
  BY <1>1, SubInvHolds, PTL

(* No receiver tests or calls its callback while requestSubcriber assigns  *)
(* it, for any number of subscribers and callers.                          *)
THEOREM CallbacksDoNotRace == PubSubSpec => []CallbackRaceFree
<1>1. SubInv => CallbackRaceFree
  BY DEF SubInv, Silent, NothingPublished, Registered, CallbackRaceFree
<1> QED
  BY <1>1, SubInvHolds, PTL

------------------------------------------------------------------------------
(* The publisher inside the library                                        *)

(* Composed with subscribers, the publisher still is the one of Publisher. *)
THEOREM PubSubHasPublisher == PubSubSpec => Spec
<1>1. PubSubInit => Init
  BY DEF PubSubInit
<1>2. [PubSubNext]_pubSubVars => [Next]_vars
  BY DEF PubSubNext, Request, RequestStep, ReceiverStep, JoinStep, PublishCall, CallerStep,
     SendingStep, SenderLocalStep, SendToPipes, Destroy, Next, SenderNext, pubSubVars, vars
<1> QED
  BY <1>1, <1>2, PTL DEF PubSubSpec, Spec

------------------------------------------------------------------------------
(* Delivery                                                                *)
(*                                                                         *)
(* DeliveredInOrder is not inductive: that a message finds its subscriber  *)
(* rests on when the publisher's socket learns of a subscription, and that *)
(* it reaches the callback on what the receiver does in which step.        *)

DeliveryTypes ==
  /\ sent \in [Topics -> Seq(Data)]
  /\ pipe \in [Subscribed -> Seq(Data)]
  /\ taken \in [Subscribed -> Seq(Data)]
  /\ delivered \in [Subscribed -> Seq(Data)]
  /\ subscription \in [Subscribed -> {"none", "made", "seen"}]
  /\ subKeepRunning \in [Subscribed -> BOOLEAN]
  /\ hasCallback \in [Subscribed -> BOOLEAN]

(* What a receiver's place says of its subscription and its message.       *)
Receiving(t) ==
  /\ userPc[t] \notin {"join", "destroyed"} => subKeepRunning[t]
  /\ receiverPc[t] \in {"close", "done"} => ~subKeepRunning[t]
  /\ userPc[t] \notin {"absent", "spin", "assign"} => hasCallback[t]
  /\ receiverPc[t] \notin {"none", "connect", "subscribe", "done"} => subscription[t] # "none"
  /\ receiverPc[t] = "receive" => pipe[t] # <<>>
  /\ receiverPc[t] \notin {"check", "callback"} => taken[t] = <<>>
  /\ wire # <<>> /\ userPc[t] = "have" => subscription[t] = "seen"

Attached == \A t \in Subscribed : Receiving(t)

(* Before the last request has returned nothing has been sent.             *)
NothingSent ==
  /\ wire = <<>>
  /\ sent = [t \in Topics |-> <<>>]
  /\ delivered = [t \in Subscribed |-> <<>>]

Unsent == ~Registered => NothingSent

SendHasMessage == senderPc = "send" => \E m \in Message : inFlight = <<m>>

DeliveryInv ==
  /\ TypeOK /\ SubInv /\ DeliveryTypes /\ Attached /\ Unsent /\ SendHasMessage
  /\ DeliveredInOrder

LEMMA AppendKeepsDelivery ==
  ASSUME NEW d \in Seq(Data), NEW k \in Seq(Data), NEW p \in Seq(Data), NEW x \in Data
  PROVE  Append((d \o k) \o p, x) = (d \o k) \o Append(p, x)
<1>1. /\ d \o k \in Seq(Data)
      /\ (d \o k) \o p \in Seq(Data)
      /\ <<x>> \in Seq(Data)
  BY ConcatProperties
<1>2. Append((d \o k) \o p, x) = ((d \o k) \o p) \o <<x>>
  BY <1>1, AppendIsConcat
<1>3. Append(p, x) = p \o <<x>>
  BY AppendIsConcat
<1> QED
  BY <1>1, <1>2, <1>3, ConcatAssociative

LEMMA DeliveryInvInit == PubSubInit => DeliveryInv
<1> SUFFICES ASSUME PubSubInit PROVE DeliveryInv
  OBVIOUS
<1>1. TypeOK /\ SubInv
  BY TypesInit, SubInvInit DEF PubSubInit
<1>2. DeliveryTypes
  BY EmptySeq DEF PubSubInit, SubInit, DeliveryTypes
<1>3. Attached /\ Unsent /\ SendHasMessage /\ DeliveredInOrder
  BY DEF PubSubInit, Init, SubInit, Attached, Receiving, Unsent, NothingSent, SendHasMessage,
     DeliveredInOrder
<1> QED
  BY <1>1, <1>2, <1>3 DEF DeliveryInv

(* A request. Nothing has been sent yet.                                   *)
LEMMA RequestDelivers ==
  ASSUME DeliveryInv, SubInv', NEW t \in Subscribed, Request(t)
  PROVE  DeliveryTypes' /\ Attached' /\ Unsent' /\ DeliveredInOrder'
<1> USE DEF Request, Construct, UserGoes, ReceiverGoes, DeliveryInv
<1>1. DeliveryTypes'
  BY DEF DeliveryTypes
<1>2. ASSUME NEW u \in Subscribed PROVE Receiving(u)'
  BY DEF Attached, Receiving, SubInv, SubTypes, vars
<1>3. Unsent'
  BY DEF Unsent, NothingSent, Registered, vars
<1>4. DeliveredInOrder'
  BY DEF DeliveredInOrder, SubInv, SubTypes
<1> QED
  BY <1>1, <1>2, <1>3, <1>4 DEF Attached

(* A step of the owner. When the last request returns, what was sent, is   *)
(* in the pipe and has been delivered are all nothing.                     *)
LEMMA OwnerDelivers ==
  ASSUME DeliveryInv, SubInv', NEW t \in Subscribed,
         SpinEnds(t) \/ AssignAndReturn(t) \/ StopReceiving(t) \/ JoinReceiver(t),
         UNCHANGED <<vars, sent>>
  PROVE  DeliveryTypes' /\ Attached' /\ Unsent' /\ DeliveredInOrder'
<1> USE DEF SpinEnds, AssignAndReturn, StopReceiving, JoinReceiver, UserGoes, DeliveryInv
<1>1. DeliveryTypes'
  BY DEF DeliveryTypes
<1>2. ASSUME ~Registered PROVE NothingSent /\ NothingPublished
  BY <1>2 DEF Unsent, SubInv, Silent
<1>3. ASSUME NEW u \in Subscribed PROVE Receiving(u)'
  <2>1. CASE AssignAndReturn(t)
    BY <2>1, <1>2 DEF Attached, Receiving, SubInv, SubTypes, DeliveryTypes, Registered,
       NothingSent, vars
  <2>2. CASE SpinEnds(t) \/ StopReceiving(t) \/ JoinReceiver(t)
    BY <2>2 DEF Attached, Receiving, SubInv, SubTypes, DeliveryTypes, vars
  <2> QED
    BY <2>1, <2>2
<1>4. Registered => Registered'
  BY DEF Registered, SubInv, SubTypes
<1>5. Unsent'
  BY <1>4 DEF Unsent, NothingSent, vars
<1>6. ASSUME NEW u \in Subscribed, userPc'[u] = "have"
      PROVE  sent'[u] = delivered'[u] \o taken'[u] \o pipe'[u]
  <2>1. CASE userPc[u] = "have"
    BY <2>1 DEF DeliveredInOrder
  <2>2. CASE userPc[u] # "have"
    <3>1. AssignAndReturn(t) /\ u = t
      BY <2>2, <1>6 DEF SubInv, SubTypes
    <3>2. ~Registered
      BY <3>1 DEF Registered
    <3>3. sent[u] = <<>> /\ delivered[u] = <<>> /\ pipe[u] = <<>>
      BY <3>2, <1>2, PubSubAssumption DEF NothingSent, NothingPublished
    <3>4. taken[u] = <<>>
      BY <3>2, <1>2 DEF NothingPublished, Attached, Receiving
    <3> QED
      BY <3>1, <3>3, <3>4
  <2> QED
    BY <2>1, <2>2
<1> QED
  BY <1>1, <1>3, <1>5, <1>6 DEF Attached, DeliveredInOrder

(* A step of the receiver: the message goes from its pipe to the callback, *)
(* which is there, and only a receiver told to stop closes its pipe.       *)
LEMMA ReceiverDelivers ==
  ASSUME DeliveryInv, SubInv', NEW t \in Subscribed, ReceiverStep(t)
  PROVE  DeliveryTypes' /\ Attached' /\ Unsent' /\ DeliveredInOrder'
<1> USE DEF ReceiverStep, ReceiverNext, ReceiverGoes, DeliveryInv
<1>1. /\ delivered[t] \in Seq(Data) /\ taken[t] \in Seq(Data) /\ pipe[t] \in Seq(Data)
      /\ delivered[t] \o taken[t] \in Seq(Data)
      /\ <<>> \in Seq(Data)
  BY EmptySeq, ConcatProperties DEF DeliveryTypes
<1>2. CASE Connect(t) \/ Subscribe(t) \/ Ready(t) \/ TestReceiving(t) \/ Poll(t)
  <2> USE <1>2 DEF Connect, Subscribe, Ready, TestReceiving, Poll
  <2>1. DeliveryTypes'
    BY DEF DeliveryTypes
  <2>2. ASSUME NEW u \in Subscribed PROVE Receiving(u)'
    <3>1. CASE Subscribe(t)
      BY <3>1 DEF Attached, Receiving, SubInv, SubTypes, Handshake, InStep, DeliveryTypes,
         vars
    <3>2. CASE Connect(t)
      BY <3>2 DEF Attached, Receiving, SubInv, SubTypes, Handshake, InStep, DeliveryTypes,
         vars
    <3>3. CASE Ready(t) \/ TestReceiving(t) \/ Poll(t)
      BY <3>3 DEF Attached, Receiving, SubInv, SubTypes, DeliveryTypes, vars
    <3> QED
      BY <3>1, <3>2, <3>3
  <2>3. Unsent' /\ DeliveredInOrder'
    BY DEF Unsent, NothingSent, Registered, DeliveredInOrder, vars
  <2> QED
    BY <2>1, <2>2, <2>3 DEF Attached
<1>3. CASE Receive(t)
  <2> USE <1>3 DEF Receive
  <2>1. pipe[t] # <<>> /\ taken[t] = <<>>
    BY DEF Attached, Receiving
  <2>2. /\ <<Head(pipe[t])>> \in Seq(Data)
        /\ Tail(pipe[t]) \in Seq(Data)
        /\ (delivered[t] \o <<>>) \o pipe[t]
             = (delivered[t] \o <<Head(pipe[t])>>) \o Tail(pipe[t])
    <3>1. delivered[t] \in Seq(Data) /\ pipe[t] \in Seq(Data) /\ pipe[t] # <<>>
      BY <1>1, <2>1
    <3> QED
      BY <3>1, PopKeepsChain, Zenon
  <2>3. DeliveryTypes'
    BY <2>2 DEF DeliveryTypes
  <2>4. ASSUME NEW u \in Subscribed PROVE Receiving(u)'
    BY DEF Attached, Receiving, SubInv, SubTypes, DeliveryTypes, vars
  <2>5. Unsent'
    BY DEF Unsent, NothingSent, Registered, vars
  <2>6. DeliveredInOrder'
    BY <2>1, <2>2 DEF DeliveredInOrder, DeliveryTypes
  <2> QED
    BY <2>3, <2>4, <2>5, <2>6 DEF Attached
<1>4. CASE CheckCallback(t)
  <2> USE <1>4 DEF CheckCallback
  <2>1. DeliveryTypes'
    BY <1>1 DEF DeliveryTypes
  <2>2. ASSUME NEW u \in Subscribed PROVE Receiving(u)'
    BY DEF Attached, Receiving, SubInv, SubTypes, DeliveryTypes, vars
  <2>3. Unsent'
    BY DEF Unsent, NothingSent, Registered, vars
  <2>4. ASSUME NEW u \in Subscribed, userPc[u] = "have" PROVE taken'[u] = taken[u]
    BY <2>4 DEF Attached, Receiving, DeliveryTypes
  <2>5. DeliveredInOrder'
    BY <2>4 DEF DeliveredInOrder
  <2> QED
    BY <2>1, <2>2, <2>3, <2>5 DEF Attached
<1>5. CASE Invoke(t)
  <2> USE <1>5 DEF Invoke
  <2>1. (delivered[t] \o taken[t]) \o <<>> = delivered[t] \o taken[t]
    BY <1>1, ConcatEmptySeq
  <2>2. DeliveryTypes'
    BY <1>1 DEF DeliveryTypes
  <2>3. ASSUME NEW u \in Subscribed PROVE Receiving(u)'
    BY DEF Attached, Receiving, SubInv, SubTypes, DeliveryTypes, vars
  <2>4. Registered
    BY DEF SubInv, Silent, NothingPublished
  <2>5. Unsent'
    BY <2>4 DEF Unsent, Registered
  <2>6. DeliveredInOrder'
    BY <2>1 DEF DeliveredInOrder, DeliveryTypes
  <2> QED
    BY <2>2, <2>3, <2>5, <2>6 DEF Attached
<1>6. CASE CloseReceiver(t)
  <2> USE <1>6 DEF CloseReceiver
  <2>1. userPc[t] # "have"
    BY DEF Attached, Receiving
  <2>2. DeliveryTypes'
    BY <1>1 DEF DeliveryTypes
  <2>3. ASSUME NEW u \in Subscribed PROVE Receiving(u)'
    BY <2>1 DEF Attached, Receiving, SubInv, SubTypes, DeliveryTypes, vars
  <2>4. Unsent'
    BY DEF Unsent, NothingSent, Registered, vars
  <2>5. DeliveredInOrder'
    BY <2>1 DEF DeliveredInOrder, DeliveryTypes
  <2> QED
    BY <2>2, <2>3, <2>4, <2>5 DEF Attached
<1> QED
  BY <1>2, <1>3, <1>4, <1>5, <1>6

(* A step of the publisher that sends nothing.                             *)
LEMMA PublisherDelivers ==
  ASSUME DeliveryInv, UNCHANGED <<subVars, sent>>,
         \/ \E c \in Callers, m \in Message : Registered /\ Call(c, m)
         \/ \E c \in Callers : CallerNext(c)
         \/ OpenSocket \/ TestRunning \/ SenderLock \/ TestPredicate \/ Block
         \/ Pop \/ Drained \/ CloseSocket \/ SpuriousWakeup
         \/ StopRunning \/ NotifyAll \/ Join
  PROVE  DeliveryTypes' /\ Attached' /\ Unsent' /\ SendHasMessage' /\ DeliveredInOrder'
<1> USE DEF DeliveryInv
<1>1. wire' = wire
  BY DEF Call, CallerNext, CallerLock, Emplace, NotifyOne, OpenSocket, TestRunning,
     SenderLock, TestPredicate, Block, Pop, Drained, CloseSocket, SpuriousWakeup,
     StopRunning, NotifyAll, Join
<1>2. DeliveryTypes' /\ Attached' /\ Unsent' /\ DeliveredInOrder'
  BY <1>1 DEF DeliveryTypes, Attached, Receiving, Unsent, NothingSent, Registered,
     DeliveredInOrder, subVars
<1>3. CASE Pop
  <2>1. Head(messageQueue) \in Message
    BY <1>3, HeadTailProperties DEF Pop, TypeOK
  <2> QED
    BY <1>2, <1>3, <2>1 DEF Pop, SendHasMessage
<1>4. CASE ~Pop
  <2>1. senderPc' = "send" => senderPc = "send" /\ inFlight' = inFlight
    BY <1>4 DEF Call, CallerNext, CallerLock, Emplace, NotifyOne, Notified, OpenSocket,
       TestRunning, SenderLock, TestPredicate, Block, Drained, CloseSocket,
       SpuriousWakeup, StopRunning, NotifyAll, Join
  <2> QED
    BY <1>2, <2>1 DEF SendHasMessage
<1> QED
  BY <1>3, <1>4

(* Sending: every subscriber that has registered is known to the socket,   *)
(* by its first send at the latest, so the message enters its pipe.        *)
LEMMA SendDelivers ==
  ASSUME DeliveryInv, SubInv', SendToPipes
  PROVE  DeliveryTypes' /\ Attached' /\ Unsent' /\ SendHasMessage' /\ DeliveredInOrder'
<1> USE DEF DeliveryInv
<1>1. PICK m \in Message : inFlight = <<m>>
  BY DEF SendToPipes, Send, SendHasMessage
<1>2. Head(inFlight) = m /\ m.topic \in Topics /\ m.data \in Data
  BY <1>1 DEF Message
<1>3. ASSUME NEW t \in Subscribed
      PROVE  /\ sent[t] \in Seq(Data) /\ delivered[t] \in Seq(Data)
             /\ taken[t] \in Seq(Data) /\ pipe[t] \in Seq(Data)
             /\ Append(pipe[t], m.data) \in Seq(Data)
  BY <1>2, AppendProperties, PubSubAssumption DEF DeliveryTypes
<1>4. DeliveryTypes'
  <2>1. sent' \in [Topics -> Seq(Data)]
    BY <1>2, AppendProperties DEF SendToPipes, DeliveryTypes
  <2>2. pipe' \in [Subscribed -> Seq(Data)]
    BY <1>2, <1>3 DEF SendToPipes
  <2>3. subscription' \in [Subscribed -> {"none", "made", "seen"}]
    BY DEF SendToPipes, Seen, DeliveryTypes
  <2> QED
    BY <2>1, <2>2, <2>3 DEF SendToPipes, DeliveryTypes
<1>5. ASSUME NEW t \in Subscribed PROVE subscription[t] # "none" => subscription'[t] # "none"
  BY DEF SendToPipes, Seen
<1>6. ASSUME NEW t \in Subscribed, userPc[t] = "have" PROVE subscription'[t] = "seen"
  <2>1. subSocketInit[t] /\ subKeepRunning[t]
    BY <1>6 DEF SubInv, Handshake, InStep, Attached, Receiving
  <2>2. receiverPc[t] \notin {"none", "connect", "subscribe", "ready", "close", "done"}
    BY <2>1 DEF SubInv, Handshake, InStep, Attached, Receiving
  <2>3. subscription[t] \in {"made", "seen"}
    BY <2>2 DEF Attached, Receiving, DeliveryTypes
  <2>4. CASE wire = <<>>
    BY <2>3, <2>4 DEF SendToPipes, Seen
  <2>5. CASE wire # <<>>
    BY <1>6, <2>5 DEF SendToPipes, Seen, Attached, Receiving
  <2> QED
    BY <2>4, <2>5
<1>7. ASSUME NEW t \in Subscribed PROVE Receiving(t)'
  <2>1. receiverPc[t] = "receive" => pipe'[t] # <<>>
    <3>1. Append(pipe[t], m.data) # <<>>
      BY <1>2, <1>3, AppendProperties, EmptySeq
    <3> QED
      BY <1>2, <3>1 DEF SendToPipes, Attached, Receiving
  <2> QED
    BY <1>5, <1>6, <2>1 DEF SendToPipes, Attached, Receiving
<1>8. Registered /\ Registered'
  BY DEF SubInv, Silent, NothingPublished, Registered, SendToPipes, Send
<1>9. SendHasMessage'
  BY DEF SendHasMessage, SendToPipes, Send
<1>10. ASSUME NEW t \in Subscribed, userPc[t] = "have"
       PROVE sent'[t] = (delivered[t] \o taken[t]) \o pipe'[t]
  <2>1. sent[t] = (delivered[t] \o taken[t]) \o pipe[t]
    BY <1>10 DEF DeliveredInOrder
  <2>2. CASE t = m.topic
    <3>1. sent'[t] = Append(sent[t], m.data) /\ pipe'[t] = Append(pipe[t], m.data)
      BY <1>2, <1>6, <1>10, <2>2 DEF SendToPipes, DeliveryTypes
    <3>2. Append((delivered[t] \o taken[t]) \o pipe[t], m.data)
            = (delivered[t] \o taken[t]) \o Append(pipe[t], m.data)
      <4>1. /\ delivered[t] \in Seq(Data) /\ taken[t] \in Seq(Data)
            /\ pipe[t] \in Seq(Data) /\ m.data \in Data
        BY <1>2, <1>3
      <4> QED
        BY <4>1, AppendKeepsDelivery, Zenon
    <3> QED
      BY <2>1, <3>1, <3>2
  <2>3. CASE t # m.topic
    BY <1>2, <2>1, <2>3, PubSubAssumption DEF SendToPipes, DeliveryTypes
  <2> QED
    BY <2>2, <2>3
<1>11. DeliveredInOrder'
  BY <1>10 DEF DeliveredInOrder, SendToPipes
<1> QED
  BY <1>4, <1>7, <1>8, <1>9, <1>11 DEF Attached, Unsent

LEMMA DeliveryInvStep ==
  DeliveryInv /\ SubInv' /\ TypeOK' /\ [PubSubNext]_pubSubVars => DeliveryInv'
<1> SUFFICES ASSUME DeliveryInv, SubInv', [PubSubNext]_pubSubVars
             PROVE  /\ DeliveryTypes' /\ Attached' /\ Unsent' /\ SendHasMessage'
                    /\ DeliveredInOrder'
  BY DEF DeliveryInv
<1>1. CASE UNCHANGED pubSubVars
  BY <1>1 DEF pubSubVars, vars, subVars, DeliveryInv, DeliveryTypes, Attached, Receiving,
     Unsent, NothingSent, Registered, SendHasMessage, DeliveredInOrder
<1>2. ASSUME UNCHANGED vars PROVE SendHasMessage'
  BY <1>2 DEF DeliveryInv, SendHasMessage, vars
<1>3. CASE \E t \in Subscribed : Request(t)
  BY <1>2, <1>3, RequestDelivers DEF Request
<1>4. CASE \E t \in Subscribed : RequestStep(t) \/ JoinStep(t)
  BY <1>2, <1>4, OwnerDelivers DEF RequestStep, JoinStep
<1>5. CASE \E t \in Subscribed : ReceiverStep(t)
  BY <1>2, <1>5, ReceiverDelivers DEF ReceiverStep
<1>6. CASE SendToPipes
  BY <1>6, SendDelivers
<1>7. CASE Destroy
  BY <1>2, <1>7, OwnerDelivers, PublisherDelivers DEF Destroy
<1>8. CASE \/ \E c \in Callers, m \in Message : PublishCall(c, m)
           \/ \E c \in Callers : CallerStep(c)
           \/ SenderLocalStep
           \/ SpuriousWakeup /\ UNCHANGED <<subVars, sent>>
  BY <1>8, PublisherDelivers DEF PublishCall, CallerStep, SenderLocalStep
<1> QED
  BY <1>1, <1>3, <1>4, <1>5, <1>6, <1>7, <1>8 DEF PubSubNext, SendingStep

(* Every message sent on a topic reaches the callback of its subscriber,   *)
(* in order and once, until its destructor begins: no subscription is late *)
(* and no callback missing, for any number of subscribers and callers.     *)
THEOREM PubSubDelivers == PubSubSpec => []DeliveredInOrder
<1>1. PubSubSpec => []TypeOK
  BY PubSubHasPublisher, PublisherTypes
<1>2. DeliveryInv => DeliveredInOrder
  BY DEF DeliveryInv
<1> QED
  BY <1>1, <1>2, SubInvHolds, DeliveryInvInit, DeliveryInvStep, PTL DEF PubSubSpec

==============================================================================
