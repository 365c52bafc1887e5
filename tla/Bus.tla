--------------------------------- MODULE Bus ---------------------------------
(***************************************************************************)
(* What the SimplePubSub library promises to its users, without its        *)
(* threads: publish() appends to an outbox, the library moves the oldest   *)
(* message of the outbox to the inbox of the subscriber of its topic, and  *)
(* that subscriber's thread takes messages from its inbox in order.        *)
(* Messages of one topic stay in order; nothing relates the moments at     *)
(* which two subscribers take messages of different topics.                *)
(*                                                                         *)
(* PubSub.tla, the library in detail, implements it; PositionTracker.tla,  *)
(* SocketServer.tla and ZedState.tla use these operators.                  *)
(***************************************************************************)
EXTENDS Naturals, Sequences

CONSTANTS
  Topics,      \* topic names; none is a prefix of another (ZeroMQ subscribes by prefix)
  Data,        \* payloads
  HighWater    \* messages one subscriber's ZeroMQ pipe holds before PUB drops

VARIABLES
  outbox,      \* published, not yet handed to a subscriber's pipe
  inbox        \* inbox[t]: in the pipe of the subscriber of topic t

busVars == <<outbox, inbox>>

Message == [topic : Topics, data : Data]

BusTypeOK ==
  /\ outbox \in Seq(Message)
  /\ inbox \in [Topics -> Seq(Data)]

BusInit ==
  /\ outbox = <<>>
  /\ inbox = [t \in Topics |-> <<>>]

(* Publisher::publish: the call as its user sees it. *)
Publish(topic, data) ==
  /\ outbox' = Append(outbox, [topic |-> topic, data |-> data])
  /\ inbox' = inbox

(* A bug the order properties must catch: the sender takes the newest.     *)
TransmitNewest ==
  /\ outbox # <<>>
  /\ LET m == outbox[Len(outbox)]
     IN inbox' = [inbox EXCEPT ![m.topic] = Append(@, m.data)]
  /\ outbox' = SubSeq(outbox, 1, Len(outbox) - 1)

(* The sender thread hands the oldest message to the pipe of its topic; a  *)
(* PUB socket never blocks, it drops what a full pipe cannot take.         *)
Transmit ==
  /\ outbox # <<>>
  /\ LET m == Head(outbox)
     IN inbox' = [inbox EXCEPT ![m.topic] =
                    IF Len(@) < HighWater THEN Append(@, m.data) ELSE @]
  /\ outbox' = Tail(outbox)

(* The receiver thread of topic t takes the next message off its pipe.     *)
Take(t) ==
  /\ inbox[t] # <<>>
  /\ inbox' = [inbox EXCEPT ![t] = Tail(@)]
  /\ outbox' = outbox

BusNext ==
  \/ \E t \in Topics, d \in Data : Publish(t, d)
  \/ Transmit
  \/ \E t \in Topics : Take(t)

BusSpec == BusInit /\ [][BusNext]_busVars

==============================================================================
