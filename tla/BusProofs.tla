------------------------------- MODULE BusProofs -------------------------------
(***************************************************************************)
(* The library implements Bus for every set of subscribers, callers and    *)
(* messages, until its first subscriber is destroyed: each step of         *)
(* PubSub's threads is a Publish, a Transmit, a Take or nothing at all to  *)
(* those who see only outbox and inbox.                                    *)
(*                                                                         *)
(* What has to be known of the state: a receiver about to call its         *)
(* callback has one message (OneTaken), and no pipe is ever full, because  *)
(* what is in it was sent (SentOnWire), hence queued (FifoNoLoss), hence   *)
(* part of one of at most MaxPublish calls (Counted).                      *)
(***************************************************************************)
EXTENDS PubSubProofs, FiniteSetTheorems

(* The callers that have not yet queued their message.                     *)
Waiting == {c \in Callers : callerPc[c] \in {"lock", "emplace"}}

Counted ==
  /\ IsFiniteSet(Waiting)
  /\ Len(published) + Cardinality(Waiting) <= calls

SentOnWire == \A t \in Topics : Len(sent[t]) <= Len(wire)

OneTaken ==
  \A t \in Subscribed :
    receiverPc[t] \in {"check", "callback"} => \E d \in Data : taken[t] = <<d>>

BusInv == IInv /\ DeliveryInv /\ Counted /\ SentOnWire /\ OneTaken

(* The mapping of PubSubBus.                                               *)
Outbox == inFlight \o messageQueue
Inbox == [t \in Topics |-> IF t \in Subscribed THEN taken[t] \o pipe[t] ELSE sent[t]]

------------------------------------------------------------------------------
(* Sequences                                                               *)

LEMMA FrontOfPair ==
  ASSUME NEW S, NEW x \in S, NEW q \in Seq(S)
  PROVE  /\ <<x>> \o q \in Seq(S) /\ <<x>> \o q # <<>>
         /\ Head(<<x>> \o q) = x
         /\ Tail(<<x>> \o q) = q
<1>1. /\ <<x>> \in Seq(S) /\ Len(<<x>>) = 1 /\ <<x>>[1] = x
      /\ Len(q) \in Nat
  BY LenProperties
<1> DEFINE r == <<x>> \o q
<1>2. /\ r \in Seq(S)
      /\ Len(r) = 1 + Len(q)
      /\ \A i \in 1..(1 + Len(q)) : r[i] = IF i <= 1 THEN <<x>>[i] ELSE q[i - 1]
  BY <1>1, ConcatProperties
<1>3. r # <<>> /\ Head(r) = x
  BY <1>1, <1>2
<1>4. /\ Tail(r) \in Seq(S)
      /\ Len(Tail(r)) = Len(q)
      /\ \A i \in 1..Len(q) : Tail(r)[i] = r[i + 1]
  BY <1>1, <1>2, <1>3, HeadTailProperties
<1>5. ASSUME NEW i \in 1..Len(q) PROVE Tail(r)[i] = q[i]
  <2>1. Tail(r)[i] = r[i + 1]
    BY <1>4
  <2>2. r[i + 1] = q[(i + 1) - 1]
    BY <1>1, <1>2
  <2> QED
    BY <1>1, <2>1, <2>2
<1>6. Tail(r) = q
  BY <1>4, <1>5, SeqEqual
<1> QED
  BY <1>2, <1>3, <1>6

(* A message moves along two sequences that are seen as one: unseen.       *)
LEMMA MoveIsUnseen ==
  ASSUME NEW S, NEW q \in Seq(S), q # <<>>
  PROVE  <<>> \o q = <<Head(q)>> \o Tail(q)
<1>1. <<>> \in Seq(S)
  BY EmptySeq
<1>2. (<<>> \o <<>>) \o q = (<<>> \o <<Head(q)>>) \o Tail(q)
  BY <1>1, PopKeepsChain, Zenon
<1>3. <<Head(q)>> \in Seq(S)
  BY HeadTailProperties
<1> QED
  BY <1>1, <1>2, <1>3, ConcatEmptySeq

(* Queueing at the end of the second of two sequences.                     *)
LEMMA AppendMessage ==
  ASSUME NEW p \in Seq(Message), NEW q \in Seq(Message), NEW x \in Message
  PROVE  Append(p \o q, x) = p \o Append(q, x)
<1>1. p \o q \in Seq(Message) /\ <<x>> \in Seq(Message)
  BY ConcatProperties
<1>2. Append(p \o q, x) = (p \o q) \o <<x>>
  BY <1>1, AppendIsConcat
<1>3. Append(q, x) = q \o <<x>>
  BY AppendIsConcat
<1> QED
  BY <1>1, <1>2, <1>3, ConcatAssociative

LEMMA AppendData ==
  ASSUME NEW p \in Seq(Data), NEW q \in Seq(Data), NEW x \in Data
  PROVE  Append(p \o q, x) = p \o Append(q, x)
<1>1. p \o q \in Seq(Data) /\ <<x>> \in Seq(Data)
  BY ConcatProperties
<1>2. Append(p \o q, x) = (p \o q) \o <<x>>
  BY <1>1, AppendIsConcat
<1>3. Append(q, x) = q \o <<x>>
  BY AppendIsConcat
<1> QED
  BY <1>1, <1>2, <1>3, ConcatAssociative

(* The second of three sequences and the third are no longer than all.     *)
LEMMA LastTwoFit ==
  ASSUME NEW S, NEW d \in Seq(S), NEW k \in Seq(S), NEW p \in Seq(S)
  PROVE  /\ k \o p \in Seq(S)
         /\ Len(k \o p) \in Nat
         /\ Len(k \o p) <= Len((d \o k) \o p)
<1> DEFINE kp == k \o p
<1> DEFINE dk == d \o k
<1> DEFINE all == dk \o p
<1>1. kp \in Seq(S) /\ Len(kp) = Len(k) + Len(p)
  BY ConcatProperties
<1>2. dk \in Seq(S) /\ Len(dk) = Len(d) + Len(k)
  BY ConcatProperties
<1> HIDE DEF dk
<1>3. Len(all) = Len(dk) + Len(p)
  BY <1>2, ConcatProperties
<1>4. Len(d) \in Nat /\ Len(k) \in Nat /\ Len(p) \in Nat
  BY LenProperties
<1> HIDE DEF kp, all
<1>5. Len(kp) \in Nat /\ Len(kp) <= Len(all)
  BY <1>1, <1>2, <1>3, <1>4
<1> QED
  BY <1>1, <1>5 DEF kp, dk, all

------------------------------------------------------------------------------
(* The invariant                                                           *)

LEMMA CountedInit == Init => Counted
<1> SUFFICES ASSUME Init PROVE Counted
  OBVIOUS
<1>1. Waiting = {}
  BY DEF Init, Waiting
<1> QED
  BY <1>1, FS_EmptySet, EmptySeq DEF Init, Counted

(* A call is counted when it begins, its message when it is queued.        *)
LEMMA CountedStep == TypeOK /\ Counted /\ [Next]_vars => Counted'
<1> SUFFICES ASSUME TypeOK, Counted, [Next]_vars PROVE Counted'
  OBVIOUS
<1>1. /\ calls \in Nat /\ Len(published) \in Nat /\ Cardinality(Waiting) \in Nat
      /\ IsFiniteSet(Waiting)
  BY FS_CardinalityType, LenProperties, PublisherAssumption DEF TypeOK, Counted
<1>2. CASE Waiting' = Waiting /\ UNCHANGED <<calls, published>>
  BY <1>2 DEF Counted
<1>3. ASSUME NEW c \in Callers, NEW m \in Message, Call(c, m) PROVE Counted'
  <2>1. c \notin Waiting /\ Waiting' = Waiting \cup {c}
    BY <1>3 DEF Call, Waiting, TypeOK
  <2>2. /\ IsFiniteSet(Waiting \cup {c})
        /\ Cardinality(Waiting \cup {c}) = Cardinality(Waiting) + 1
    BY <1>1, <2>1, FS_AddElement
  <2>3. calls' = calls + 1 /\ published' = published
    BY <1>3 DEF Call
  <2> QED
    BY <1>1, <2>1, <2>2, <2>3 DEF Counted
<1>4. ASSUME NEW c \in Callers, CallerLock(c) PROVE Counted'
  BY <1>2, <1>4 DEF CallerLock, Waiting, TypeOK
<1>5. ASSUME NEW c \in Callers, Emplace(c) PROVE Counted'
  <2>1. c \in Waiting /\ Waiting' = Waiting \ {c}
    BY <1>5 DEF Emplace, Waiting, TypeOK
  <2>2. /\ IsFiniteSet(Waiting \ {c})
        /\ Cardinality(Waiting \ {c}) = Cardinality(Waiting) - 1
    BY <1>1, <2>1, FS_RemoveElement
  <2>3. calls' = calls /\ published' = Append(published, callerMsg[c])
    BY <1>5 DEF Emplace
  <2>4. callerMsg[c] \in Message /\ published \in Seq(Message)
    BY DEF TypeOK
  <2>5. Len(published') = Len(published) + 1
    BY <2>3, <2>4, AppendProperties
  <2> QED
    BY <1>1, <2>1, <2>2, <2>3, <2>5 DEF Counted
<1>6. ASSUME NEW c \in Callers, NotifyOne(c) PROVE Counted'
  BY <1>2, <1>6 DEF NotifyOne, Waiting, TypeOK
<1>7. CASE SenderNext
  BY <1>2, <1>7 DEF SenderNext, OpenSocket, TestRunning, SenderLock, TestPredicate, Block,
                    Pop, Drained, Send, CloseSocket, Waiting
<1>8. CASE SpuriousWakeup \/ StopRunning \/ NotifyAll \/ Join
  BY <1>2, <1>8 DEF SpuriousWakeup, StopRunning, NotifyAll, Join, Waiting
<1>9. CASE UNCHANGED vars
  BY <1>2, <1>9 DEF vars, Waiting
<1> QED
  BY <1>3, <1>4, <1>5, <1>6, <1>7, <1>8, <1>9 DEF Next, CallerNext

(* Only SendToPipes sends, one message at a time.                          *)
LEMMA SentOnWireStep ==
  DeliveryInv /\ SentOnWire /\ [PubSubNext]_pubSubVars => SentOnWire'
<1> SUFFICES ASSUME DeliveryInv, SentOnWire, [PubSubNext]_pubSubVars PROVE SentOnWire'
  OBVIOUS
<1>1. CASE UNCHANGED <<sent, wire>>
  BY <1>1 DEF SentOnWire
<1>2. CASE SendToPipes
  <2>1. PICK m \in Message : inFlight = <<m>>
    BY <1>2 DEF SendToPipes, Send, DeliveryInv, SendHasMessage
  <2>2. m.topic \in Topics /\ m.data \in Data /\ wire \in Seq(Message)
    BY <2>1 DEF Message, DeliveryInv, TypeOK
  <2>3. wire' = wire \o <<m>> /\ sent' = [sent EXCEPT ![m.topic] = Append(@, m.data)]
    BY <1>2, <2>1 DEF SendToPipes, Send
  <2>4. Len(wire') = Len(wire) + 1 /\ Len(wire) \in Nat
    <3>1. <<m>> \in Seq(Message) /\ Len(<<m>>) = 1
      BY <2>1
    <3> QED
      BY <2>2, <2>3, <3>1, ConcatProperties, LenProperties
  <2>5. ASSUME NEW t \in Topics PROVE Len(sent'[t]) <= Len(wire')
    <3>1. sent[t] \in Seq(Data) /\ Len(sent[t]) <= Len(wire) /\ Len(sent[t]) \in Nat
      BY LenProperties DEF DeliveryInv, DeliveryTypes, SentOnWire
    <3>2. Len(Append(sent[t], m.data)) = Len(sent[t]) + 1
      BY <2>2, <3>1, AppendProperties
    <3>3. sent'[t] = IF t = m.topic THEN Append(sent[t], m.data) ELSE sent[t]
      BY <2>2, <2>3 DEF DeliveryInv, DeliveryTypes
    <3> QED
      BY <2>4, <3>1, <3>2, <3>3
  <2> QED
    BY <2>5 DEF SentOnWire
<1>3. CASE ~SendToPipes
  BY <1>1, <1>3 DEF PubSubNext, Request, RequestStep, ReceiverStep, JoinStep, PublishCall,
     Call, CallerStep, CallerNext, CallerLock, Emplace, NotifyOne, SendingStep,
     SenderLocalStep, OpenSocket, TestRunning, SenderLock, TestPredicate, Block, Pop,
     Drained, CloseSocket, SpuriousWakeup, Destroy, StopRunning, NotifyAll, Join,
     pubSubVars, vars
<1> QED
  BY <1>2, <1>3

LEMMA OneTakenStep ==
  DeliveryInv /\ OneTaken /\ [PubSubNext]_pubSubVars => OneTaken'
<1> SUFFICES ASSUME DeliveryInv, OneTaken, [PubSubNext]_pubSubVars PROVE OneTaken'
  OBVIOUS
<1>1. CASE UNCHANGED <<receiverPc, taken>>
  BY <1>1 DEF OneTaken
<1>2. ASSUME NEW t \in Subscribed, Request(t) PROVE OneTaken'
  BY <1>2 DEF Request, Construct, ReceiverGoes, OneTaken, DeliveryInv, SubInv, SubTypes
<1>3. ASSUME NEW t \in Subscribed, Receive(t) PROVE OneTaken'
  <2>1. Head(pipe[t]) \in Data
    BY <1>3, HeadTailProperties
       DEF Receive, ReceiverGoes, DeliveryInv, DeliveryTypes, Attached, Receiving
  <2> QED
    BY <1>3, <2>1 DEF Receive, ReceiverGoes, OneTaken, DeliveryInv, DeliveryTypes, SubInv,
       SubTypes
<1>4. ASSUME NEW t \in Subscribed, ReceiverNext(t), ~Receive(t) PROVE OneTaken'
  BY <1>4 DEF ReceiverNext, ReceiverGoes, Connect, Subscribe, Ready, TestReceiving, Poll,
     CheckCallback, Invoke, CloseReceiver, OneTaken, DeliveryInv, DeliveryTypes, SubInv,
     SubTypes
<1>5. ASSUME NEW t \in Subscribed,
             SpinEnds(t) \/ AssignAndReturn(t) \/ StopReceiving(t) \/ JoinReceiver(t)
      PROVE OneTaken'
  BY <1>1, <1>5 DEF SpinEnds, AssignAndReturn, StopReceiving, JoinReceiver
<1>6. CASE UNCHANGED subVars \/ SendToPipes
  BY <1>1, <1>6 DEF subVars, SendToPipes
<1> QED
  BY <1>2, <1>3, <1>4, <1>5, <1>6 DEF PubSubNext, RequestStep, ReceiverStep, JoinStep,
     PublishCall, CallerStep, SendingStep, SenderLocalStep, Destroy, pubSubVars

LEMMA BusInvHolds == PubSubSpec => []BusInv
<1>1. PubSubInit => Counted /\ SentOnWire /\ OneTaken
  <2> SUFFICES ASSUME PubSubInit PROVE SentOnWire /\ OneTaken
    BY CountedInit DEF PubSubInit
  <2> QED
    BY DEF PubSubInit, Init, SubInit, SentOnWire, OneTaken
<1>2. PubSubSpec => []IInv
  BY PubSubHasPublisher, Invariance
<1>3. PubSubSpec => []DeliveryInv
  BY PubSubHasPublisher, PublisherTypes, SubInvHolds, DeliveryInvInit, DeliveryInvStep, PTL
     DEF PubSubSpec
<1>4. DeliveryInv => TypeOK
  BY DEF DeliveryInv
<1>5. PubSubSpec => []Counted
  BY <1>1, <1>3, <1>4, CountedStep, PubSubHasPublisher, PTL DEF PubSubSpec, Spec
<1>6. PubSubSpec => []SentOnWire
  BY <1>1, <1>3, SentOnWireStep, PTL DEF PubSubSpec
<1>7. PubSubSpec => []OneTaken
  BY <1>1, <1>3, OneTakenStep, PTL DEF PubSubSpec
<1> QED
  BY <1>2, <1>3, <1>5, <1>6, <1>7, PTL DEF BusInv

------------------------------------------------------------------------------
(* Each step                                                               *)

LEMMA UnseenStep ==
  ASSUME Outbox' = Outbox, Inbox' = Inbox
  PROVE  UNCHANGED PubSubBus!busVars
BY DEF PubSubBus!busVars, Outbox, Inbox

(* publish() queues a message.                                             *)
LEMMA EmplacePublishes ==
  ASSUME BusInv, NEW c \in Callers, Emplace(c), UNCHANGED <<subVars, sent>>
  PROVE  PubSubBus!BusNext
<1>1. /\ inFlight \in Seq(Message) /\ messageQueue \in Seq(Message)
      /\ callerMsg[c] \in Message
  BY DEF BusInv, IInv, TypeOK
<1>2. Outbox' = Append(Outbox, callerMsg[c])
  <2>1. Append(inFlight \o messageQueue, callerMsg[c])
          = inFlight \o Append(messageQueue, callerMsg[c])
    BY <1>1, AppendMessage, Zenon
  <2> QED
    BY <2>1 DEF Emplace, Outbox
<1>3. Inbox' = Inbox
  BY DEF Inbox, subVars
<1>4. PICK t \in Topics, d \in Data : callerMsg[c] = [topic |-> t, data |-> d]
  BY <1>1 DEF Message
<1>5. PubSubBus!Publish(t, d)
  BY <1>2, <1>3, <1>4 DEF PubSubBus!Publish, Outbox, Inbox
<1> QED
  BY <1>5 DEF PubSubBus!BusNext

(* The sender moves a message from the queue to its hands.                 *)
LEMMA PopIsUnseen ==
  ASSUME BusInv, Pop, UNCHANGED <<subVars, sent>>
  PROVE  UNCHANGED PubSubBus!busVars
<1>1. messageQueue \in Seq(Message) /\ messageQueue # <<>> /\ inFlight = <<>>
  BY DEF BusInv, IInv, TypeOK, Pop, OneInFlight
<1>2. <<>> \o messageQueue = <<Head(messageQueue)>> \o Tail(messageQueue)
  BY <1>1, MoveIsUnseen, Zenon
<1>3. Outbox' = Outbox
  BY <1>1, <1>2 DEF Pop, Outbox
<1>4. Inbox' = Inbox
  BY DEF Inbox, subVars
<1> QED
  BY <1>3, <1>4, UnseenStep

(* What is in a subscriber's hands and pipe was sent; a topic nobody       *)
(* subscribes to keeps all of it.                                          *)
LEMMA InboxHasRoom ==
  ASSUME BusInv, Registered, AllHave, NEW t \in Topics
  PROVE  Inbox[t] \in Seq(Data) /\ Len(Inbox[t]) < MaxPublish + 1
<1>1. Len(sent[t]) <= MaxPublish /\ sent[t] \in Seq(Data) /\ Len(sent[t]) \in Nat
  <2>1. Len(sent[t]) <= Len(wire)
    BY DEF BusInv, SentOnWire
  <2>2. Len(wire) <= Len(published)
    <3>1. /\ wire \in Seq(Message) /\ inFlight \in Seq(Message)
          /\ messageQueue \in Seq(Message) /\ published = (wire \o inFlight) \o messageQueue
      BY DEF BusInv, IInv, TypeOK, FifoNoLoss
    <3>2. wire \o inFlight \in Seq(Message) /\ Len(wire \o inFlight) = Len(wire) + Len(inFlight)
      BY <3>1, ConcatProperties
    <3>3. Len(published) = Len(wire \o inFlight) + Len(messageQueue)
      BY <3>1, <3>2, ConcatProperties
    <3>4. Len(wire) \in Nat /\ Len(inFlight) \in Nat /\ Len(messageQueue) \in Nat
      BY <3>1, LenProperties
    <3> QED
      BY <3>2, <3>3, <3>4
  <2>3. Len(published) <= calls
    BY FS_CardinalityType, LenProperties, PublisherAssumption
       DEF BusInv, Counted, IInv, TypeOK
  <2>4. calls <= MaxPublish /\ calls \in Nat
    BY PublisherAssumption DEF BusInv, IInv, TypeOK
  <2>5. sent[t] \in Seq(Data)
    BY DEF BusInv, DeliveryInv, DeliveryTypes
  <2>6. Len(sent[t]) \in Nat /\ Len(wire) \in Nat /\ Len(published) \in Nat
    BY <2>5, LenProperties DEF BusInv, IInv, TypeOK
  <2> QED
    BY <2>1, <2>2, <2>3, <2>4, <2>5, <2>6, PublisherAssumption
<1>2. CASE t \in Subscribed
  <2>1. delivered[t] \in Seq(Data) /\ taken[t] \in Seq(Data) /\ pipe[t] \in Seq(Data)
    BY <1>2 DEF BusInv, DeliveryInv, DeliveryTypes
  <2>2. sent[t] = (delivered[t] \o taken[t]) \o pipe[t]
    <3>1. userPc[t] = "have"
      BY <1>2 DEF Registered, AllHave, BusInv, DeliveryInv, SubInv, SubTypes, UserPcs
    <3> QED
      BY <1>2, <3>1 DEF BusInv, DeliveryInv, DeliveredInOrder
  <2>3. /\ taken[t] \o pipe[t] \in Seq(Data)
        /\ Len(taken[t] \o pipe[t]) \in Nat
        /\ Len(taken[t] \o pipe[t]) <= Len((delivered[t] \o taken[t]) \o pipe[t])
    BY <2>1, LastTwoFit, Zenon
  <2>4. Inbox[t] = taken[t] \o pipe[t]
    BY <1>2 DEF Inbox
  <2>5. Inbox[t] \in Seq(Data) /\ Len(Inbox[t]) \in Nat /\ Len(Inbox[t]) <= Len(sent[t])
    BY <2>2, <2>3, <2>4, Zenon
  <2> QED
    BY <1>1, <2>5, PublisherAssumption
<1>3. CASE t \notin Subscribed
  BY <1>1, <1>3, PublisherAssumption DEF Inbox
<1> QED
  BY <1>2, <1>3

(* The sender's send: the message leaves the outbox and enters the inbox   *)
(* of its topic, which is known to the socket if it has a subscriber.      *)
LEMMA SendTransmits ==
  ASSUME BusInv, SendToPipes, AllHave
  PROVE  PubSubBus!BusNext
<1>1. PICK m \in Message : inFlight = <<m>>
  BY DEF SendToPipes, Send, BusInv, DeliveryInv, SendHasMessage
<1>2. /\ m.topic \in Topics /\ m.data \in Data /\ Head(inFlight) = m
      /\ messageQueue \in Seq(Message)
  BY <1>1 DEF Message, BusInv, IInv, TypeOK
<1>3. Outbox # <<>> /\ Head(Outbox) = m /\ Tail(Outbox) = messageQueue
  BY <1>1, <1>2, FrontOfPair DEF Outbox
<1>4. Outbox' = Tail(Outbox)
  <2>1. Outbox' = <<>> \o messageQueue
    BY DEF SendToPipes, Send, Outbox
  <2>2. <<>> \o messageQueue = messageQueue
    BY <1>2, ConcatEmptySeq
  <2> QED
    BY <1>3, <2>1, <2>2
<1>5. Registered
  BY DEF SendToPipes, Send, BusInv, DeliveryInv, SubInv, Silent, NothingPublished
<1>6. ASSUME NEW t \in Subscribed PROVE subscription'[t] = "seen"
  <2>1. userPc'[t] = "have"
    BY <1>5 DEF Registered, AllHave, BusInv, DeliveryInv, SubInv, SubTypes, UserPcs,
       SendToPipes
  <2>2. DeliveryInv /\ SubInv'
    BY SendKeeps DEF BusInv, DeliveryInv
  <2>3. Attached' /\ wire' # <<>>
    <3>1. Attached'
      BY <2>2, SendDelivers
    <3>2. wire' = wire \o <<m>> /\ wire \in Seq(Message) /\ <<m>> \in Seq(Message)
      BY <1>1 DEF SendToPipes, Send, BusInv, IInv, TypeOK
    <3>3. <<m>> # <<>>
      OBVIOUS
    <3> QED
      BY <3>1, <3>2, <3>3, ConcatSimplifications
  <2> QED
    BY <2>1, <2>3 DEF Attached, Receiving
<1>7. Inbox' = [Inbox EXCEPT ![m.topic] = Append(Inbox[m.topic], m.data)]
  <2>1. ASSUME NEW t \in Topics
        PROVE  Inbox'[t] = IF t = m.topic THEN Append(Inbox[t], m.data) ELSE Inbox[t]
    <3>1. CASE t \in Subscribed
      <4>1. taken[t] \in Seq(Data) /\ pipe[t] \in Seq(Data)
        BY <3>1 DEF BusInv, DeliveryInv, DeliveryTypes
      <4>2. Append(taken[t] \o pipe[t], m.data) = taken[t] \o Append(pipe[t], m.data)
        BY <1>2, <4>1, AppendData, Zenon
      <4>3. pipe'[t] = (IF t = m.topic THEN Append(pipe[t], m.data) ELSE pipe[t])
        BY <1>2, <1>6, <3>1 DEF SendToPipes
      <4>4. taken' = taken
        BY DEF SendToPipes
      <4> QED
        BY <3>1, <4>2, <4>3, <4>4 DEF Inbox
    <3>2. CASE t \notin Subscribed
      BY <1>2, <3>2 DEF SendToPipes, Inbox, BusInv, DeliveryInv, DeliveryTypes
    <3> QED
      BY <3>1, <3>2
  <2> QED
    BY <1>2, <2>1 DEF Inbox
<1>8. Len(Inbox[m.topic]) < MaxPublish + 1
  BY <1>2, <1>5, InboxHasRoom
<1>9. PubSubBus!Transmit
  BY <1>3, <1>4, <1>7, <1>8 DEF PubSubBus!Transmit, Outbox, Inbox
<1> QED
  BY <1>9 DEF PubSubBus!BusNext

(* A receiver takes a message from its pipe, tests its callback and calls  *)
(* it; only the call is seen.                                              *)
LEMMA ReceiverTakes ==
  ASSUME BusInv, NEW t \in Subscribed, ReceiverStep(t), AllHave
  PROVE  PubSubBus!BusNext \/ UNCHANGED PubSubBus!busVars
<1> USE DEF ReceiverStep, ReceiverGoes
<1>1. Outbox' = Outbox /\ sent' = sent /\ t \in Topics
  BY PubSubAssumption DEF Outbox, vars
<1>2. taken[t] \in Seq(Data) /\ pipe[t] \in Seq(Data)
  BY DEF BusInv, DeliveryInv, DeliveryTypes
<1>3. CASE UNCHANGED <<taken, pipe>>
  BY <1>1, <1>3, UnseenStep DEF Inbox
<1>4. CASE Receive(t)
  <2>1. pipe[t] # <<>> /\ taken[t] = <<>>
    BY <1>4 DEF Receive, BusInv, DeliveryInv, Attached, Receiving
  <2>2. <<>> \o pipe[t] = <<Head(pipe[t])>> \o Tail(pipe[t])
    BY <1>2, <2>1, MoveIsUnseen, Zenon
  <2>3. Inbox' = Inbox
    BY <1>1, <1>4, <2>1, <2>2 DEF Receive, Inbox, BusInv, DeliveryInv, DeliveryTypes
  <2> QED
    BY <1>1, <2>3, UnseenStep
<1>5. CASE CheckCallback(t)
  <2>1. hasCallback[t]
    BY <1>5 DEF CheckCallback, AllHave, BusInv, DeliveryInv, Attached, Receiving, SubInv,
       Silent, NothingPublished, Registered
  <2> QED
    BY <1>3, <1>5, <2>1 DEF CheckCallback
<1>6. CASE Invoke(t)
  <2>1. PICK d \in Data : taken[t] = <<d>>
    BY <1>6 DEF Invoke, BusInv, OneTaken
  <2>2. <<d>> \o pipe[t] # <<>> /\ Tail(<<d>> \o pipe[t]) = pipe[t]
    BY <1>2, <2>1, FrontOfPair, Zenon
  <2>3. <<>> \o pipe[t] = pipe[t]
    BY <1>2, ConcatEmptySeq
  <2>4. Inbox[t] # <<>> /\ Inbox' = [Inbox EXCEPT ![t] = Tail(Inbox[t])]
    BY <1>1, <1>6, <2>1, <2>2, <2>3 DEF Invoke, Inbox, BusInv, DeliveryInv, DeliveryTypes
  <2>5. PubSubBus!Take(t)
    BY <1>1, <2>4 DEF PubSubBus!Take, Outbox, Inbox
  <2> QED
    BY <1>1, <2>5 DEF PubSubBus!BusNext
<1>7. CASE CloseReceiver(t)
  BY <1>7 DEF CloseReceiver, AllHave, BusInv, DeliveryInv, Attached, Receiving
<1>8. CASE Connect(t) \/ Subscribe(t) \/ Ready(t) \/ TestReceiving(t) \/ Poll(t)
  BY <1>3, <1>8 DEF Connect, Subscribe, Ready, TestReceiving, Poll
<1> QED
  BY <1>4, <1>5, <1>6, <1>7, <1>8 DEF ReceiverNext

(* The publisher's and the owners' other steps move no message.            *)
LEMMA OthersUnseen ==
  ASSUME BusInv, UNCHANGED <<inFlight, messageQueue, taken, pipe, sent>>
  PROVE  UNCHANGED PubSubBus!busVars
BY UnseenStep DEF Outbox, Inbox

LEMMA EachStepMaps ==
  BusInv /\ [PubSubNext]_pubSubVars => [AllHave' => PubSubBus!BusNext]_(PubSubBus!busVars)
<1> SUFFICES ASSUME BusInv, [PubSubNext]_pubSubVars, AllHave'
             PROVE  PubSubBus!BusNext \/ UNCHANGED PubSubBus!busVars
  OBVIOUS
<1>1. CASE UNCHANGED pubSubVars
  BY <1>1, OthersUnseen DEF pubSubVars, vars, subVars
<1>2. ASSUME NEW t \in Subscribed, Request(t) \/ RequestStep(t) \/ JoinStep(t)
      PROVE  UNCHANGED PubSubBus!busVars
  BY <1>2, OthersUnseen DEF Request, Construct, RequestStep, SpinEnds, AssignAndReturn,
     JoinStep, JoinReceiver, vars
<1>3. ASSUME NEW t \in Subscribed, ReceiverStep(t)
      PROVE  PubSubBus!BusNext \/ UNCHANGED PubSubBus!busVars
  <2>1. userPc' = userPc
    BY <1>3 DEF ReceiverStep, ReceiverNext, Connect, Subscribe, Ready, TestReceiving, Poll,
       Receive, CheckCallback, Invoke, CloseReceiver
  <2> QED
    BY <1>3, <2>1, ReceiverTakes DEF AllHave
<1>4. ASSUME NEW c \in Callers, NEW m \in Message, PublishCall(c, m)
      PROVE  UNCHANGED PubSubBus!busVars
  BY <1>4, OthersUnseen DEF PublishCall, Call, subVars
<1>5. ASSUME NEW c \in Callers, CallerStep(c)
      PROVE  PubSubBus!BusNext \/ UNCHANGED PubSubBus!busVars
  <2>1. CASE Emplace(c)
    BY <1>5, <2>1, EmplacePublishes DEF CallerStep
  <2>2. CASE CallerLock(c) \/ NotifyOne(c)
    BY <1>5, <2>2, OthersUnseen DEF CallerStep, CallerLock, NotifyOne, subVars
  <2> QED
    BY <1>5, <2>1, <2>2 DEF CallerStep, CallerNext
<1>6. CASE SendToPipes
  BY <1>6, SendTransmits DEF SendToPipes, AllHave
<1>7. CASE SenderLocalStep
  <2>1. CASE Pop
    BY <1>7, <2>1, PopIsUnseen DEF SenderLocalStep
  <2>2. CASE ~Pop
    BY <1>7, <2>2, OthersUnseen DEF SenderLocalStep, OpenSocket, TestRunning, SenderLock,
       TestPredicate, Block, Drained, CloseSocket, subVars
  <2> QED
    BY <2>1, <2>2
<1>8. CASE (SpuriousWakeup /\ UNCHANGED <<subVars, sent>>) \/ Destroy
  BY <1>8, OthersUnseen DEF SpuriousWakeup, Destroy, StopReceiving, StopRunning, NotifyAll,
     Join, subVars, vars
<1> QED
  BY <1>1, <1>2, <1>3, <1>4, <1>5, <1>6, <1>7, <1>8 DEF PubSubNext, SendingStep

------------------------------------------------------------------------------

(* Publisher, pipes and subscribers together keep the promise on which the *)
(* server is built: until the first subscriber is destroyed every step of  *)
(* theirs is a step of Bus that drops nothing, or is not seen.             *)
THEOREM PubSubImplementsBus == PubSubSpec => ImplementsBusWhole
<1>1. PubSubInit => PubSubBus!BusInit
  <2> SUFFICES ASSUME PubSubInit PROVE PubSubBus!BusInit
    OBVIOUS
  <2>1. <<>> \o <<>> = <<>>
    BY EmptySeq, ConcatEmptySeq
  <2> QED
    BY <2>1, PubSubAssumption DEF PubSubInit, Init, SubInit, PubSubBus!BusInit
<1> QED
  BY <1>1, BusInvHolds, EachStepMaps, PTL DEF PubSubSpec, ImplementsBusWhole

==============================================================================
