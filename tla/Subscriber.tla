------------------------------ MODULE Subscriber ------------------------------
(***************************************************************************)
(* simplepubsub::Subscriber, one object per topic, as Agent hands it out.  *)
(* The constructor starts a receiver thread that opens the socket, makes   *)
(* the subscription and sets socketInit; requestSubcriber then stores the  *)
(* callback and returns. The thread polls, receives and calls the callback *)
(* until the destructor clears keepRunning and joins it.                   *)
(*                                                                         *)
(* The object keeps its topic by reference: what it refers to is the       *)
(* caller's argument, which is gone once requestSubcriber has returned.    *)
(* The ZeroMQ side is external: a pipe per subscriber, filled by the       *)
(* publisher's socket (PubSub.tla).                                        *)
(***************************************************************************)
EXTENDS Naturals, Sequences

CONSTANT Subscribed   \* the topics that have a subscriber

VARIABLES
  userPc,         \* where the thread that owns the subscriber is in its calls
  receiverPc,     \* where the receiver thread is
  topicAlive,     \* the string that topic refers to exists
  subKeepRunning, \* std::atomic<bool> keepRunning
  subSocketInit,  \* std::atomic<bool> socketInit
  hasCallback,    \* messageReceivedCallback is not empty
  subscription,   \* "none", "made" by the subscriber, "seen" by the publisher's socket
  pipe,           \* messages in the ZeroMQ pipe
  taken,          \* the message received and not yet handled (at most one)
  delivered       \* history: the data of the calls of the callback

subVars == <<userPc, receiverPc, topicAlive, subKeepRunning, subSocketInit,
             hasCallback, subscription, pipe, taken, delivered>>

UserPcs == {"absent", "spin", "assign", "have", "join", "destroyed"}
ReceiverPcs == {"none", "connect", "subscribe", "ready", "test", "poll", "receive",
                "check", "callback", "close", "done"}

SubInit ==
  /\ userPc = [t \in Subscribed |-> "absent"]
  /\ receiverPc = [t \in Subscribed |-> "none"]
  /\ topicAlive = [t \in Subscribed |-> FALSE]
  /\ subKeepRunning = [t \in Subscribed |-> TRUE]
  /\ subSocketInit = [t \in Subscribed |-> FALSE]
  /\ hasCallback = [t \in Subscribed |-> FALSE]
  /\ subscription = [t \in Subscribed |-> "none"]
  /\ pipe = [t \in Subscribed |-> <<>>]
  /\ taken = [t \in Subscribed |-> <<>>]
  /\ delivered = [t \in Subscribed |-> <<>>]

UserGoes(t, from, to) == userPc[t] = from /\ userPc' = [userPc EXCEPT ![t] = to]
ReceiverGoes(t, from, to) ==
  receiverPc[t] = from /\ receiverPc' = [receiverPc EXCEPT ![t] = to]

------------------------------------------------------------------------------
(* The owner's calls                                                       *)

(* requestSubcriber("topic", ...): the argument exists, the constructor    *)
(* starts the thread, and onMessageReceived begins to spin.                *)
Construct(t) ==
  /\ UserGoes(t, "absent", "spin")
  /\ ReceiverGoes(t, "none", "connect")
  /\ topicAlive' = [topicAlive EXCEPT ![t] = TRUE]
  /\ UNCHANGED <<subKeepRunning, subSocketInit, hasCallback, subscription, pipe, taken,
                 delivered>>

(* Bug: onMessageReceived does not wait for the thread.                    *)
SpinSkipped(t) ==
  /\ UserGoes(t, "spin", "assign")
  /\ UNCHANGED <<receiverPc, topicAlive, subKeepRunning, subSocketInit, hasCallback,
                 subscription, pipe, taken, delivered>>

(* while (!socketInit); then the assignment of the callback begins.        *)
SpinEnds(t) ==
  /\ subSocketInit[t]
  /\ UserGoes(t, "spin", "assign")
  /\ UNCHANGED <<receiverPc, topicAlive, subKeepRunning, subSocketInit, hasCallback,
                 subscription, pipe, taken, delivered>>

(* The assignment ends and requestSubcriber returns; the argument goes.    *)
AssignAndReturn(t) ==
  /\ UserGoes(t, "assign", "have")
  /\ hasCallback' = [hasCallback EXCEPT ![t] = TRUE]
  /\ topicAlive' = [topicAlive EXCEPT ![t] = FALSE]
  /\ UNCHANGED <<receiverPc, subKeepRunning, subSocketInit, subscription, pipe, taken,
                 delivered>>

(* Bug: the destructor joins without a word to the thread.                 *)
JoinUnasked(t) ==
  /\ UserGoes(t, "have", "join")
  /\ UNCHANGED <<receiverPc, topicAlive, subKeepRunning, subSocketInit, hasCallback,
                 subscription, pipe, taken, delivered>>

(* ~Subscriber(): keepRunning = false ...                                  *)
StopReceiving(t) ==
  /\ UserGoes(t, "have", "join")
  /\ subKeepRunning' = [subKeepRunning EXCEPT ![t] = FALSE]
  /\ UNCHANGED <<receiverPc, topicAlive, subSocketInit, hasCallback, subscription, pipe,
                 taken, delivered>>

(* ... then join().                                                        *)
JoinReceiver(t) ==
  /\ receiverPc[t] = "done"
  /\ UserGoes(t, "join", "destroyed")
  /\ UNCHANGED <<receiverPc, topicAlive, subKeepRunning, subSocketInit, hasCallback,
                 subscription, pipe, taken, delivered>>

------------------------------------------------------------------------------
(* receiveMessages()                                                       *)

Connect(t) ==
  /\ ReceiverGoes(t, "connect", "subscribe")
  /\ UNCHANGED <<userPc, topicAlive, subKeepRunning, subSocketInit, hasCallback,
                 subscription, pipe, taken, delivered>>

(* set(subscribe, topic) reads the referenced string.                      *)
Subscribe(t) ==
  /\ ReceiverGoes(t, "subscribe", "ready")
  /\ subscription' = [subscription EXCEPT ![t] = "made"]
  /\ UNCHANGED <<userPc, topicAlive, subKeepRunning, subSocketInit, hasCallback, pipe,
                 taken, delivered>>

(* Bug: socketInit is not set.                                             *)
ReadySilently(t) ==
  /\ ReceiverGoes(t, "ready", "test")
  /\ UNCHANGED <<userPc, topicAlive, subKeepRunning, subSocketInit, hasCallback,
                 subscription, pipe, taken, delivered>>

Ready(t) ==
  /\ ReceiverGoes(t, "ready", "test")
  /\ subSocketInit' = [subSocketInit EXCEPT ![t] = TRUE]
  /\ UNCHANGED <<userPc, topicAlive, subKeepRunning, hasCallback, subscription, pipe,
                 taken, delivered>>

TestReceiving(t) ==
  /\ ReceiverGoes(t, "test", IF subKeepRunning[t] THEN "poll" ELSE "close")
  /\ UNCHANGED <<userPc, topicAlive, subKeepRunning, subSocketInit, hasCallback,
                 subscription, pipe, taken, delivered>>

(* Bug: a timeout of poll() ends the thread.                               *)
PollOnce(t) ==
  /\ ReceiverGoes(t, "poll", IF pipe[t] = <<>> THEN "close" ELSE "receive")
  /\ UNCHANGED <<userPc, topicAlive, subKeepRunning, subSocketInit, hasCallback,
                 subscription, pipe, taken, delivered>>

(* poll() for 10 ms: a message, or the timeout.                            *)
Poll(t) ==
  /\ ReceiverGoes(t, "poll", IF pipe[t] = <<>> THEN "test" ELSE "receive")
  /\ UNCHANGED <<userPc, topicAlive, subKeepRunning, subSocketInit, hasCallback,
                 subscription, pipe, taken, delivered>>

(* Bug: the latest message is received first.                              *)
ReceiveNewest(t) ==
  /\ ReceiverGoes(t, "receive", "check")
  /\ taken' = [taken EXCEPT ![t] = <<pipe[t][Len(pipe[t])]>>]
  /\ pipe' = [pipe EXCEPT ![t] = SubSeq(@, 1, Len(@) - 1)]
  /\ UNCHANGED <<userPc, topicAlive, subKeepRunning, subSocketInit, hasCallback,
                 subscription, delivered>>

(* The two recv() of a message's frames; ZeroMQ delivers all or none.      *)
Receive(t) ==
  /\ ReceiverGoes(t, "receive", "check")
  /\ taken' = [taken EXCEPT ![t] = <<Head(pipe[t])>>]
  /\ pipe' = [pipe EXCEPT ![t] = Tail(@)]
  /\ UNCHANGED <<userPc, topicAlive, subKeepRunning, subSocketInit, hasCallback,
                 subscription, delivered>>

(* if (messageReceivedCallback): without one the message is dropped.       *)
CheckCallback(t) ==
  /\ ReceiverGoes(t, "check", IF hasCallback[t] THEN "callback" ELSE "test")
  /\ taken' = IF hasCallback[t] THEN taken ELSE [taken EXCEPT ![t] = <<>>]
  /\ UNCHANGED <<userPc, topicAlive, subKeepRunning, subSocketInit, hasCallback,
                 subscription, pipe, delivered>>

(* The callback runs and returns.                                          *)
Invoke(t) ==
  /\ ReceiverGoes(t, "callback", "test")
  /\ delivered' = [delivered EXCEPT ![t] = @ \o taken[t]]
  /\ taken' = [taken EXCEPT ![t] = <<>>]
  /\ UNCHANGED <<userPc, topicAlive, subKeepRunning, subSocketInit, hasCallback,
                 subscription, pipe>>

(* The socket goes, with its subscription and what is still in its pipe.   *)
CloseReceiver(t) ==
  /\ ReceiverGoes(t, "close", "done")
  /\ subscription' = [subscription EXCEPT ![t] = "none"]
  /\ pipe' = [pipe EXCEPT ![t] = <<>>]
  /\ UNCHANGED <<userPc, topicAlive, subKeepRunning, subSocketInit, hasCallback, taken,
                 delivered>>

ReceiverNext(t) ==
  \/ Connect(t) \/ Subscribe(t) \/ Ready(t) \/ TestReceiving(t) \/ Poll(t)
  \/ Receive(t) \/ CheckCallback(t) \/ Invoke(t) \/ CloseReceiver(t)

------------------------------------------------------------------------------
(* Properties                                                              *)

(* The receiver never reads its topic after the argument of                *)
(* requestSubcriber is gone: the spin on socketInit outlives the reading,  *)
(* although the object keeps only a reference.                             *)
TopicOutlivesSubscribe ==
  \A t \in Subscribed : receiverPc[t] \in {"connect", "subscribe"} => topicAlive[t]

(* The receiver never tests or calls messageReceivedCallback, which has no *)
(* lock, while requestSubcriber is assigning it.                           *)
CallbackRaceFree ==
  \A t \in Subscribed :
    receiverPc[t] \in {"check", "callback"} => userPc[t] \notin {"spin", "assign"}

==============================================================================
