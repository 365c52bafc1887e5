------------------------------ MODULE Publisher ------------------------------
(***************************************************************************)
(* simplepubsub::Publisher: publish() puts a message on a queue guarded by *)
(* queueMutex; a sender thread waits on messageQueueCond, takes messages   *)
(* off the queue and sends them on a ZeroMQ PUB socket; the destructor     *)
(* clears keepRunning, notifies and joins.                                 *)
(*                                                                         *)
(* Callers are the threads that call publish() (the main thread and the    *)
(* position tracker's thread in the program); each can call at any time.   *)
(* The destructor runs when the last shared_ptr goes, so no caller is      *)
(* inside publish() then and none calls it afterwards.                     *)
(***************************************************************************)
EXTENDS Naturals, Sequences

CONSTANTS
  Callers,      \* threads calling publish()
  Sender,       \* the sender thread
  NoThread,     \* the owner of an unlocked mutex
  Topics, Data, \* what is published
  MaxPublish    \* bound: calls of publish() in a behaviour

ASSUME PublisherAssumption ==
  /\ Sender \notin Callers
  /\ NoThread \notin Callers \cup {Sender}
  /\ MaxPublish \in Nat

Message == [topic : Topics, data : Data]

VARIABLES
  messageQueue, \* std::queue of messages
  queueMutex,   \* the thread that holds queueMutex, or NoThread
  keepRunning,  \* std::atomic<bool>
  socketInit,   \* std::atomic<bool>
  senderPc,     \* where the sender thread is in processMessageQueue
  inFlight,     \* the message popped and not yet sent (at most one)
  wire,         \* messages sent on the socket, in order
  callerPc,     \* where each caller is in publish()
  callerMsg,    \* the argument of each caller's call
  destroyPc,    \* where the destructor is
  calls,        \* calls of publish() so far
  published     \* history: messages in the order they entered the queue

vars == <<messageQueue, queueMutex, keepRunning, socketInit, senderPc, inFlight,
          wire, callerPc, callerMsg, destroyPc, calls, published>>

Threads == Callers \cup {Sender}

SenderPcs == {"open", "test", "acquire", "predicate", "block", "asleep", "woken",
              "drain", "send", "relock", "close", "done"}
CallerPcs == {"idle", "lock", "emplace", "notify"}
DestroyPcs == {"alive", "notify", "join", "destroyed"}

TypeOK ==
  /\ messageQueue \in Seq(Message)
  /\ queueMutex \in Threads \cup {NoThread}
  /\ keepRunning \in BOOLEAN
  /\ socketInit \in BOOLEAN
  /\ senderPc \in SenderPcs
  /\ inFlight \in Seq(Message)
  /\ wire \in Seq(Message)
  /\ callerPc \in [Callers -> CallerPcs]
  /\ callerMsg \in [Callers -> Message]
  /\ destroyPc \in DestroyPcs
  /\ calls \in 0..MaxPublish
  /\ published \in Seq(Message)

Init ==
  /\ messageQueue = <<>>
  /\ queueMutex = NoThread
  /\ keepRunning = TRUE
  /\ socketInit = FALSE
  /\ senderPc = "open"
  /\ inFlight = <<>>
  /\ wire = <<>>
  /\ callerPc = [c \in Callers |-> "idle"]
  /\ callerMsg \in [Callers -> Message]
  /\ destroyPc = "alive"
  /\ calls = 0
  /\ published = <<>>

------------------------------------------------------------------------------
(* The condition variable. Only the sender ever waits on it.               *)

Notified == IF senderPc = "asleep" THEN "woken" ELSE senderPc

------------------------------------------------------------------------------
(* publish(topic, data)                                                    *)

Call(c, m) ==
  /\ destroyPc = "alive"
  /\ callerPc[c] = "idle"
  /\ calls < MaxPublish
  /\ calls' = calls + 1
  /\ callerPc' = [callerPc EXCEPT ![c] = "lock"]
  /\ callerMsg' = [callerMsg EXCEPT ![c] = m]
  /\ UNCHANGED <<messageQueue, queueMutex, keepRunning, socketInit, senderPc,
                 inFlight, wire, destroyPc, published>>

(* Bug: the lock_guard is missing.                                         *)
CallerLockUnguarded(c) ==
  /\ callerPc[c] = "lock"
  /\ socketInit
  /\ queueMutex' = c
  /\ callerPc' = [callerPc EXCEPT ![c] = "emplace"]
  /\ UNCHANGED <<messageQueue, keepRunning, socketInit, senderPc, inFlight,
                 wire, callerMsg, destroyPc, calls, published>>

(* The spin on socketInit ends, then lock_guard takes the mutex.           *)
CallerLock(c) ==
  /\ callerPc[c] = "lock"
  /\ socketInit
  /\ queueMutex = NoThread
  /\ queueMutex' = c
  /\ callerPc' = [callerPc EXCEPT ![c] = "emplace"]
  /\ UNCHANGED <<messageQueue, keepRunning, socketInit, senderPc, inFlight,
                 wire, callerMsg, destroyPc, calls, published>>

(* Bug: the two arguments are stored in the wrong order.                   *)
EmplaceSwapped(c) ==
  LET m == [topic |-> callerMsg[c].data, data |-> callerMsg[c].topic] IN
  /\ callerPc[c] = "emplace"
  /\ messageQueue' = Append(messageQueue, m)
  /\ published' = Append(published, m)
  /\ callerPc' = [callerPc EXCEPT ![c] = "notify"]
  /\ UNCHANGED <<queueMutex, keepRunning, socketInit, senderPc, inFlight, wire,
                 callerMsg, destroyPc, calls>>

(* messageQueue.emplace(topic, data), with the mutex held.                 *)
Emplace(c) ==
  /\ callerPc[c] = "emplace"
  /\ messageQueue' = Append(messageQueue, callerMsg[c])
  /\ published' = Append(published, callerMsg[c])
  /\ callerPc' = [callerPc EXCEPT ![c] = "notify"]
  /\ UNCHANGED <<queueMutex, keepRunning, socketInit, senderPc, inFlight, wire,
                 callerMsg, destroyPc, calls>>

(* Bug: notify_one is forgotten.                                           *)
SilentReturn(c) ==
  /\ callerPc[c] = "notify"
  /\ queueMutex' = NoThread
  /\ callerPc' = [callerPc EXCEPT ![c] = "idle"]
  /\ UNCHANGED <<messageQueue, keepRunning, socketInit, senderPc, inFlight, wire,
                 callerMsg, destroyPc, calls, published>>

(* notify_one, then the lock_guard's destructor and the return.            *)
NotifyOne(c) ==
  /\ callerPc[c] = "notify"
  /\ senderPc' = Notified
  /\ queueMutex' = NoThread
  /\ callerPc' = [callerPc EXCEPT ![c] = "idle"]
  /\ UNCHANGED <<messageQueue, keepRunning, socketInit, inFlight, wire,
                 callerMsg, destroyPc, calls, published>>

------------------------------------------------------------------------------
(* processMessageQueue()                                                   *)

(* Bug: socketInit is never set.                                           *)
OpenSocketSilently ==
  /\ senderPc = "open"
  /\ senderPc' = "test"
  /\ UNCHANGED <<messageQueue, queueMutex, keepRunning, socketInit, inFlight, wire,
                 callerPc, callerMsg, destroyPc, calls, published>>

(* The socket is created and bound, then socketInit is set.                *)
OpenSocket ==
  /\ senderPc = "open"
  /\ socketInit' = TRUE
  /\ senderPc' = "test"
  /\ UNCHANGED <<messageQueue, queueMutex, keepRunning, inFlight, wire, callerPc,
                 callerMsg, destroyPc, calls, published>>

TestRunning ==
  /\ senderPc = "test"
  /\ senderPc' = IF keepRunning THEN "acquire" ELSE "close"
  /\ UNCHANGED <<messageQueue, queueMutex, keepRunning, socketInit, inFlight, wire,
                 callerPc, callerMsg, destroyPc, calls, published>>

(* unique_lock at the head of the loop, the lock that wait() takes again   *)
(* when woken, and lock.lock() after a send.                               *)
SenderLock ==
  /\ senderPc \in {"acquire", "woken", "relock"}
  /\ queueMutex = NoThread
  /\ queueMutex' = Sender
  /\ senderPc' = IF senderPc = "relock" THEN "drain" ELSE "predicate"
  /\ UNCHANGED <<messageQueue, keepRunning, socketInit, inFlight, wire, callerPc,
                 callerMsg, destroyPc, calls, published>>

(* The predicate of wait(), evaluated with the mutex held.                 *)
TestPredicate ==
  /\ senderPc = "predicate"
  /\ senderPc' = IF messageQueue # <<>> \/ ~keepRunning THEN "drain" ELSE "block"
  /\ UNCHANGED <<messageQueue, queueMutex, keepRunning, socketInit, inFlight, wire,
                 callerPc, callerMsg, destroyPc, calls, published>>

(* wait() unlocks and blocks in one step.                                  *)
Block ==
  /\ senderPc = "block"
  /\ senderPc' = "asleep"
  /\ queueMutex' = NoThread
  /\ UNCHANGED <<messageQueue, keepRunning, socketInit, inFlight, wire, callerPc,
                 callerMsg, destroyPc, calls, published>>

SpuriousWakeup ==
  /\ senderPc = "asleep"
  /\ senderPc' = "woken"
  /\ UNCHANGED <<messageQueue, queueMutex, keepRunning, socketInit, inFlight, wire,
                 callerPc, callerMsg, destroyPc, calls, published>>

(* Bug: front() without pop().                                             *)
FrontOnly ==
  /\ senderPc = "drain"
  /\ messageQueue # <<>>
  /\ inFlight' = <<Head(messageQueue)>>
  /\ queueMutex' = NoThread
  /\ senderPc' = "send"
  /\ UNCHANGED <<messageQueue, keepRunning, socketInit, wire, callerPc, callerMsg,
                 destroyPc, calls, published>>

(* Bug: the newest message is taken, as a stack would.                     *)
PopNewest ==
  /\ senderPc = "drain"
  /\ messageQueue # <<>>
  /\ inFlight' = <<messageQueue[Len(messageQueue)]>>
  /\ messageQueue' = SubSeq(messageQueue, 1, Len(messageQueue) - 1)
  /\ queueMutex' = NoThread
  /\ senderPc' = "send"
  /\ UNCHANGED <<keepRunning, socketInit, wire, callerPc, callerMsg, destroyPc,
                 calls, published>>

(* front() and pop(), then lock.unlock().                                  *)
Pop ==
  /\ senderPc = "drain"
  /\ messageQueue # <<>>
  /\ inFlight' = <<Head(messageQueue)>>
  /\ messageQueue' = Tail(messageQueue)
  /\ queueMutex' = NoThread
  /\ senderPc' = "send"
  /\ UNCHANGED <<keepRunning, socketInit, wire, callerPc, callerMsg, destroyPc,
                 calls, published>>

(* The queue is empty: the unique_lock goes out of scope.                  *)
Drained ==
  /\ senderPc = "drain"
  /\ messageQueue = <<>>
  /\ queueMutex' = NoThread
  /\ senderPc' = "test"
  /\ UNCHANGED <<messageQueue, keepRunning, socketInit, inFlight, wire, callerPc,
                 callerMsg, destroyPc, calls, published>>

(* The two frames; subscribers see a message when its last frame is sent.  *)
Send ==
  /\ senderPc = "send"
  /\ wire' = wire \o inFlight
  /\ inFlight' = <<>>
  /\ senderPc' = "relock"
  /\ UNCHANGED <<messageQueue, queueMutex, keepRunning, socketInit, callerPc,
                 callerMsg, destroyPc, calls, published>>

CloseSocket ==
  /\ senderPc = "close"
  /\ senderPc' = "done"
  /\ UNCHANGED <<messageQueue, queueMutex, keepRunning, socketInit, inFlight, wire,
                 callerPc, callerMsg, destroyPc, calls, published>>

------------------------------------------------------------------------------
(* ~Publisher()                                                            *)

StopRunning ==
  /\ destroyPc = "alive"
  /\ \A c \in Callers : callerPc[c] = "idle"
  /\ keepRunning' = FALSE
  /\ destroyPc' = "notify"
  /\ UNCHANGED <<messageQueue, queueMutex, socketInit, senderPc, inFlight, wire,
                 callerPc, callerMsg, calls, published>>

NotifyAll ==
  /\ destroyPc = "notify"
  /\ senderPc' = Notified
  /\ destroyPc' = "join"
  /\ UNCHANGED <<messageQueue, queueMutex, keepRunning, socketInit, inFlight, wire,
                 callerPc, callerMsg, calls, published>>

Join ==
  /\ destroyPc = "join"
  /\ senderPc = "done"
  /\ destroyPc' = "destroyed"
  /\ UNCHANGED <<messageQueue, queueMutex, keepRunning, socketInit, senderPc,
                 inFlight, wire, callerPc, callerMsg, calls, published>>

------------------------------------------------------------------------------

CallerNext(c) == CallerLock(c) \/ Emplace(c) \/ NotifyOne(c)

SenderNext ==
  \/ OpenSocket \/ TestRunning \/ SenderLock \/ TestPredicate \/ Block
  \/ Pop \/ Drained \/ Send \/ CloseSocket

Next ==
  \/ \E c \in Callers, m \in Message : Call(c, m)
  \/ \E c \in Callers : CallerNext(c)
  \/ SenderNext
  \/ SpuriousWakeup
  \/ StopRunning \/ NotifyAll \/ Join

Spec == Init /\ [][Next]_vars

(* Every thread that can take a step of its own takes it; a mutex that is  *)
(* released again and again is at last granted to a thread that waits for  *)
(* it. Calls of publish(), spurious wakeups and the decision to destroy    *)
(* the publisher are nobody's obligation.                                  *)
Fairness ==
  /\ \A c \in Callers : WF_vars(CallerNext(c)) /\ SF_vars(CallerLock(c))
  /\ WF_vars(SenderNext) /\ SF_vars(SenderLock)
  /\ WF_vars(NotifyAll) /\ WF_vars(Join)

FairSpec == Spec /\ Fairness

------------------------------------------------------------------------------
(* Properties                                                              *)

(* Threads between taking queueMutex and releasing it.                     *)
SenderInside == senderPc \in {"predicate", "block", "drain"}
Inside(c) == callerPc[c] \in {"emplace", "notify"}

(* The queue is touched by one thread at a time, the owner of queueMutex:  *)
(* no caller's emplace races another's or the sender's front() and pop(),  *)
(* although the sender drops and retakes the mutex around every send and   *)
(* inside wait().                                                          *)
MutualExclusion ==
  /\ \A c, d \in Callers : Inside(c) /\ Inside(d) => c = d
  /\ SenderInside => \A c \in Callers : ~Inside(c)

(* Every message is sent once and in the order publish() queued it: at any *)
(* moment the history is what was sent, the one in flight, what is queued. *)
FifoNoLoss == published = wire \o inFlight \o messageQueue

(* The sender never sleeps on a non-empty queue, unless the caller that    *)
(* filled it is still about to notify: publish() loses no wakeup.          *)
NoLostWakeup ==
  senderPc = "asleep" /\ messageQueue # <<>> =>
    \E c \in Callers : callerPc[c] = "notify"

(* A message queued while the publisher lives is sent, unless the          *)
(* destructor begins first.                                                *)
PublishedIsSent ==
  \A n \in 1..MaxPublish :
    (Len(published) >= n) ~> (Len(wire) >= n \/ destroyPc # "alive")

(* publish() returns, also when it is called before the socket is bound.   *)
PublishReturns == \A c \in Callers : (callerPc[c] # "idle") ~> (callerPc[c] = "idle")

(* The destructor, once begun, returns.                                    *)
DestructorReturns == (destroyPc # "alive") ~> (destroyPc = "destroyed")

==============================================================================
