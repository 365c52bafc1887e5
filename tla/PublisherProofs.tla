--------------------------- MODULE PublisherProofs ---------------------------
(***************************************************************************)
(* The publisher's invariants for every set of callers, every message set  *)
(* and every number of calls.                                              *)
(*                                                                         *)
(* MutualExclusion, FifoNoLoss and NoLostWakeup are not inductive: each    *)
(* rests on who owns queueMutex in which step (LockOwner), on the sender   *)
(* holding a message only between pop() and send() (OneInFlight), and on   *)
(* the queue still being empty when wait() blocks, because the sender has  *)
(* held the mutex since it evaluated the predicate (BlocksOnEmpty).        *)
(***************************************************************************)
EXTENDS Publisher, SequenceTheorems, TLAPS

(* queueMutex is owned exactly by the thread between its lock and unlock.  *)
LockOwner ==
  /\ (queueMutex = Sender) <=> SenderInside
  /\ \A c \in Callers : (queueMutex = c) <=> Inside(c)

OneInFlight == senderPc # "send" => inFlight = <<>>

BlocksOnEmpty == senderPc = "block" => messageQueue = <<>>

IInv == TypeOK /\ LockOwner /\ OneInFlight /\ BlocksOnEmpty /\ FifoNoLoss /\ NoLostWakeup

------------------------------------------------------------------------------
(* Sequences: moving an element along a chain of sequences keeps the chain.*)

LEMMA PopKeepsChain ==
  ASSUME NEW S, NEW w \in Seq(S), NEW q \in Seq(S), q # <<>>
  PROVE  /\ <<Head(q)>> \in Seq(S)
         /\ Tail(q) \in Seq(S)
         /\ (w \o <<>>) \o q = (w \o <<Head(q)>>) \o Tail(q)
<1>1. /\ Head(q) \in S
      /\ Tail(q) \in Seq(S)
      /\ Len(Tail(q)) = Len(q) - 1
      /\ \A i \in 1..Len(Tail(q)) : Tail(q)[i] = q[i + 1]
  BY HeadTailProperties
<1>2. <<Head(q)>> \in Seq(S) /\ Len(<<Head(q)>>) = 1 /\ <<Head(q)>>[1] = Head(q)
  BY <1>1
<1>3. Head(q) = q[1] /\ Len(q) \in Nat /\ Len(q) > 0
  BY EmptySeq, LenProperties
<1>4. q = <<Head(q)>> \o Tail(q)
  <2> DEFINE r == <<Head(q)>> \o Tail(q)
  <2>1. /\ r \in Seq(S)
        /\ Len(r) = 1 + Len(Tail(q))
        /\ \A i \in 1..(1 + Len(Tail(q))) :
             r[i] = IF i <= 1 THEN <<Head(q)>>[i] ELSE Tail(q)[i - 1]
    BY <1>1, <1>2, ConcatProperties
  <2>2. Len(r) = Len(q)
    BY <2>1, <1>1, <1>3
  <2>3. ASSUME NEW i \in 1..Len(q) PROVE q[i] = r[i]
    <3>1. CASE i = 1
      BY <3>1, <2>1, <1>1, <1>2, <1>3
    <3>2. CASE i > 1
      <4>1. i - 1 \in 1..Len(Tail(q))
        BY <3>2, <1>1, <1>3
      <4>2. Tail(q)[i - 1] = q[(i - 1) + 1]
        BY <4>1, <1>1
      <4> QED
        BY <3>2, <4>1, <4>2, <2>1, <1>1, <1>3
    <3> QED
      BY <3>1, <3>2, <1>3
  <2> HIDE DEF r
  <2> QED
    BY <2>1, <2>2, <2>3, SeqEqual DEF r
<1>5. (w \o <<Head(q)>>) \o Tail(q) = w \o (<<Head(q)>> \o Tail(q))
  BY <1>1, <1>2, ConcatAssociative
<1> QED
  BY <1>1, <1>2, <1>4, <1>5, ConcatEmptySeq

LEMMA AppendKeepsChain ==
  ASSUME NEW w \in Seq(Message), NEW f \in Seq(Message), NEW q \in Seq(Message),
         NEW m \in Message
  PROVE  Append((w \o f) \o q, m) = (w \o f) \o Append(q, m)
<1>1. /\ w \o f \in Seq(Message)
      /\ (w \o f) \o q \in Seq(Message)
      /\ <<m>> \in Seq(Message)
  BY ConcatProperties
<1>2. Append((w \o f) \o q, m) = ((w \o f) \o q) \o <<m>>
  BY <1>1, AppendIsConcat
<1>3. Append(q, m) = q \o <<m>>
  BY AppendIsConcat
<1> QED
  BY <1>1, <1>2, <1>3, ConcatAssociative

------------------------------------------------------------------------------
(* Type correctness                                                        *)

LEMMA TypesInit == Init => TypeOK
<1> SUFFICES ASSUME Init PROVE TypeOK
  OBVIOUS
<1>1. <<>> \in Seq(Message)
  BY EmptySeq
<1>2. 0 \in 0..MaxPublish
  BY PublisherAssumption
<1>3. callerPc \in [Callers -> CallerPcs]
  BY DEF Init, CallerPcs
<1> QED
  BY <1>1, <1>2, <1>3 DEF Init, TypeOK, SenderPcs, DestroyPcs

LEMMA TypesStep == TypeOK /\ [Next]_vars => TypeOK'
<1> SUFFICES ASSUME TypeOK, [Next]_vars PROVE TypeOK'
  OBVIOUS
<1> USE DEF TypeOK, SenderPcs, CallerPcs, DestroyPcs, Threads
<1>1. ASSUME NEW c \in Callers, NEW m \in Message, Call(c, m) PROVE TypeOK'
  BY <1>1, PublisherAssumption DEF Call
<1>2. ASSUME NEW c \in Callers, CallerLock(c) PROVE TypeOK'
  BY <1>2 DEF CallerLock
<1>3. ASSUME NEW c \in Callers, Emplace(c) PROVE TypeOK'
  <2>1. callerMsg[c] \in Message
    OBVIOUS
  <2>2. messageQueue' \in Seq(Message) /\ published' \in Seq(Message)
    BY <1>3, <2>1, AppendProperties DEF Emplace
  <2> QED
    BY <1>3, <2>2 DEF Emplace
<1>4. ASSUME NEW c \in Callers, NotifyOne(c) PROVE TypeOK'
  BY <1>4 DEF NotifyOne, Notified
<1>5. CASE OpenSocket
  BY <1>5 DEF OpenSocket
<1>6. CASE TestRunning
  BY <1>6 DEF TestRunning
<1>7. CASE SenderLock
  BY <1>7 DEF SenderLock
<1>8. CASE TestPredicate
  BY <1>8 DEF TestPredicate
<1>9. CASE Block
  BY <1>9 DEF Block
<1>10. CASE Pop
  <2>1. inFlight' \in Seq(Message) /\ messageQueue' \in Seq(Message)
    BY <1>10, PopKeepsChain, EmptySeq DEF Pop
  <2> QED
    BY <1>10, <2>1 DEF Pop
<1>11. CASE Drained
  BY <1>11 DEF Drained
<1>12. CASE Send
  <2>1. wire' \in Seq(Message) /\ inFlight' \in Seq(Message)
    BY <1>12, ConcatProperties, EmptySeq DEF Send
  <2> QED
    BY <1>12, <2>1 DEF Send
<1>13. CASE CloseSocket
  BY <1>13 DEF CloseSocket
<1>14. CASE SpuriousWakeup
  BY <1>14 DEF SpuriousWakeup
<1>15. CASE StopRunning
  BY <1>15 DEF StopRunning
<1>16. CASE NotifyAll
  BY <1>16 DEF NotifyAll, Notified
<1>17. CASE Join
  BY <1>17 DEF Join
<1>18. CASE UNCHANGED vars
  BY <1>18 DEF vars
<1> QED
  BY <1>1, <1>2, <1>3, <1>4, <1>5, <1>6, <1>7, <1>8, <1>9, <1>10, <1>11, <1>12,
     <1>13, <1>14, <1>15, <1>16, <1>17, <1>18 DEF Next, CallerNext, SenderNext

(* Every variable keeps the type the program declares for it: a queue of   *)
(* (topic, data) pairs, a mutex with one owner, two flags, one pc a thread.*)
THEOREM PublisherTypes == Spec => []TypeOK
<1>1. Init => TypeOK
  BY TypesInit
<1>2. TypeOK /\ [Next]_vars => TypeOK'
  BY TypesStep
<1> QED
  BY <1>1, <1>2, PTL DEF Spec

------------------------------------------------------------------------------
(* The inductive invariant                                                 *)

(* Who owns the mutex in which step, independently of the data.            *)
LEMMA LockOwnerStep ==
  ASSUME TypeOK, LockOwner, [Next]_vars
  PROVE  LockOwner'
<1> USE PublisherAssumption DEF TypeOK, LockOwner, SenderInside, Inside, SenderPcs, CallerPcs, Threads
<1>1. ASSUME NEW c \in Callers, NEW m \in Message, Call(c, m) PROVE LockOwner'
  BY <1>1 DEF Call
<1>2. ASSUME NEW c \in Callers, CallerLock(c) PROVE LockOwner'
  BY <1>2 DEF CallerLock
<1>3. ASSUME NEW c \in Callers, Emplace(c) PROVE LockOwner'
  BY <1>3 DEF Emplace
<1>4. ASSUME NEW c \in Callers, NotifyOne(c) PROVE LockOwner'
  BY <1>4 DEF NotifyOne, Notified
<1>5. CASE OpenSocket \/ TestRunning \/ CloseSocket \/ SpuriousWakeup
  BY <1>5 DEF OpenSocket, TestRunning, CloseSocket, SpuriousWakeup
<1>6. CASE SenderLock
  BY <1>6 DEF SenderLock
<1>7. CASE TestPredicate \/ Block
  BY <1>7 DEF TestPredicate, Block
<1>8. CASE Pop \/ Drained \/ Send
  BY <1>8 DEF Pop, Drained, Send
<1>9. CASE StopRunning \/ NotifyAll \/ Join
  BY <1>9 DEF StopRunning, NotifyAll, Join, Notified
<1>10. CASE UNCHANGED vars
  BY <1>10 DEF vars
<1> QED
  BY <1>1, <1>2, <1>3, <1>4, <1>5, <1>6, <1>7, <1>8, <1>9, <1>10
     DEF Next, CallerNext, SenderNext

(* The sender's own bookkeeping: what it holds, and that it blocks only on *)
(* an empty queue, because no caller can emplace while it owns the mutex.  *)
LEMMA SenderStep ==
  ASSUME TypeOK, LockOwner, OneInFlight, BlocksOnEmpty, [Next]_vars
  PROVE  OneInFlight' /\ BlocksOnEmpty'
<1> USE DEF OneInFlight, BlocksOnEmpty
<1>1. ASSUME NEW c \in Callers, NEW m \in Message, Call(c, m)
      PROVE OneInFlight' /\ BlocksOnEmpty'
  BY <1>1 DEF Call
<1>2. ASSUME NEW c \in Callers, CallerLock(c) PROVE OneInFlight' /\ BlocksOnEmpty'
  BY <1>2 DEF CallerLock
<1>3. ASSUME NEW c \in Callers, Emplace(c) PROVE OneInFlight' /\ BlocksOnEmpty'
  <2>1. queueMutex = c
    BY <1>3 DEF Emplace, LockOwner, Inside
  <2>2. senderPc # "block"
    BY <2>1, PublisherAssumption DEF LockOwner, SenderInside
  <2> QED
    BY <1>3, <2>2 DEF Emplace
<1>4. ASSUME NEW c \in Callers, NotifyOne(c) PROVE OneInFlight' /\ BlocksOnEmpty'
  BY <1>4 DEF NotifyOne, Notified
<1>5. CASE SenderNext
  BY <1>5 DEF SenderNext, OpenSocket, TestRunning, SenderLock, TestPredicate, Block,
              Pop, Drained, Send, CloseSocket
<1>6. CASE SpuriousWakeup \/ StopRunning \/ NotifyAll \/ Join
  BY <1>6 DEF SpuriousWakeup, StopRunning, NotifyAll, Join, Notified
<1>7. CASE UNCHANGED vars
  BY <1>7 DEF vars
<1> QED
  BY <1>1, <1>2, <1>3, <1>4, <1>5, <1>6, <1>7 DEF Next, CallerNext

(* The history is always the three places a message can be in, in order.   *)
LEMMA FifoStep ==
  ASSUME TypeOK, OneInFlight, FifoNoLoss, [Next]_vars
  PROVE  FifoNoLoss'
<1> USE DEF FifoNoLoss
<1>1. CASE UNCHANGED <<published, wire, inFlight, messageQueue>>
  BY <1>1
<1>2. ASSUME NEW c \in Callers, Emplace(c) PROVE FifoNoLoss'
  <2>1. callerMsg[c] \in Message
    BY DEF TypeOK
  <2>2. Append((wire \o inFlight) \o messageQueue, callerMsg[c])
          = (wire \o inFlight) \o Append(messageQueue, callerMsg[c])
    <3>1. wire \in Seq(Message) /\ inFlight \in Seq(Message) /\ messageQueue \in Seq(Message)
      BY DEF TypeOK
    <3> QED
      BY <2>1, <3>1, AppendKeepsChain, Zenon
  <2> QED
    BY <1>2, <2>2 DEF Emplace
<1>3. CASE Pop
  <2>1. inFlight = <<>>
    BY <1>3 DEF Pop, OneInFlight
  <2>2. messageQueue # <<>> /\ messageQueue \in Seq(Message) /\ wire \in Seq(Message)
    BY <1>3 DEF Pop, TypeOK
  <2>3. (wire \o <<>>) \o messageQueue
          = (wire \o <<Head(messageQueue)>>) \o Tail(messageQueue)
    BY <2>2, PopKeepsChain
  <2> QED
    BY <1>3, <2>1, <2>3 DEF Pop
<1>4. CASE Send
  <2>1. wire \o inFlight \in Seq(Message)
    BY ConcatProperties DEF TypeOK
  <2>2. (wire \o inFlight) \o <<>> = wire \o inFlight
    BY <2>1, ConcatEmptySeq
  <2> QED
    BY <1>4, <2>2 DEF Send
<1>5. ASSUME NEW c \in Callers, NEW m \in Message, Call(c, m) PROVE FifoNoLoss'
  BY <1>1, <1>5 DEF Call
<1>6. ASSUME NEW c \in Callers, CallerLock(c) \/ NotifyOne(c) PROVE FifoNoLoss'
  BY <1>1, <1>6 DEF CallerLock, NotifyOne
<1>7. CASE OpenSocket \/ TestRunning \/ SenderLock \/ TestPredicate \/ Block
            \/ Drained \/ CloseSocket
  BY <1>1, <1>7 DEF OpenSocket, TestRunning, SenderLock, TestPredicate, Block,
                    Drained, CloseSocket
<1>8. CASE SpuriousWakeup \/ StopRunning \/ NotifyAll \/ Join
  BY <1>1, <1>8 DEF SpuriousWakeup, StopRunning, NotifyAll, Join
<1>9. CASE UNCHANGED vars
  BY <1>1, <1>9 DEF vars
<1> QED
  BY <1>2, <1>3, <1>4, <1>5, <1>6, <1>7, <1>8, <1>9 DEF Next, CallerNext, SenderNext

(* Sleep and notification: a caller that made the queue non-empty is still *)
(* before its notify_one, and no other caller can consume that wakeup.     *)
LEMMA WakeupStep ==
  ASSUME TypeOK, LockOwner, BlocksOnEmpty, NoLostWakeup, [Next]_vars
  PROVE  NoLostWakeup'
<1> USE DEF NoLostWakeup
<1>1. ASSUME NEW c \in Callers, NEW m \in Message, Call(c, m) PROVE NoLostWakeup'
  BY <1>1 DEF Call, TypeOK
<1>2. ASSUME NEW c \in Callers, CallerLock(c) PROVE NoLostWakeup'
  BY <1>2 DEF CallerLock, TypeOK
<1>3. ASSUME NEW c \in Callers, Emplace(c) PROVE NoLostWakeup'
  BY <1>3 DEF Emplace, TypeOK
<1>4. ASSUME NEW c \in Callers, NotifyOne(c) PROVE NoLostWakeup'
  BY <1>4 DEF NotifyOne, Notified
<1>5. CASE SenderNext
  BY <1>5 DEF SenderNext, OpenSocket, TestRunning, SenderLock, TestPredicate, Block,
              Pop, Drained, Send, CloseSocket, BlocksOnEmpty
<1>6. CASE SpuriousWakeup \/ StopRunning \/ NotifyAll \/ Join
  BY <1>6 DEF SpuriousWakeup, StopRunning, NotifyAll, Join, Notified
<1>7. CASE UNCHANGED vars
  BY <1>7 DEF vars
<1> QED
  BY <1>1, <1>2, <1>3, <1>4, <1>5, <1>6, <1>7 DEF Next, CallerNext

LEMMA Invariance == Spec => []IInv
<1>1. Init => IInv
  <2> SUFFICES ASSUME Init PROVE LockOwner /\ OneInFlight /\ BlocksOnEmpty
                                 /\ FifoNoLoss /\ NoLostWakeup /\ TypeOK
    BY DEF IInv
  <2>1. TypeOK
    BY TypesInit
  <2>2. LockOwner /\ OneInFlight /\ BlocksOnEmpty /\ NoLostWakeup
    BY PublisherAssumption
       DEF Init, LockOwner, SenderInside, Inside, OneInFlight, BlocksOnEmpty, NoLostWakeup
  <2>3. FifoNoLoss
    BY EmptySeq, ConcatEmptySeq DEF Init, FifoNoLoss
  <2> QED
    BY <2>1, <2>2, <2>3
<1>2. TypeOK /\ TypeOK' /\ IInv /\ [Next]_vars => IInv'
  BY LockOwnerStep, SenderStep, FifoStep, WakeupStep DEF IInv
<1> QED
  BY <1>1, <1>2, PublisherTypes, PTL DEF Spec

------------------------------------------------------------------------------
(* The publisher's properties                                              *)

(* messageQueue is never touched by two threads at once, whatever the      *)
(* number of callers (publish() and processMessageQueue()).                *)
THEOREM PublisherExcludes == Spec => []MutualExclusion
<1>1. IInv => MutualExclusion
  BY PublisherAssumption DEF IInv, LockOwner, MutualExclusion
<1> QED
  BY <1>1, Invariance, PTL

(* No message is lost, duplicated or reordered between publish() and the   *)
(* socket, however calls, sends, sleeps and the destructor interleave.     *)
THEOREM PublisherFifo == Spec => []FifoNoLoss
<1>1. IInv => FifoNoLoss
  BY DEF IInv
<1> QED
  BY <1>1, Invariance, PTL

(* publish() never leaves the sender asleep on a message nobody announces. *)
THEOREM PublisherWakes == Spec => []NoLostWakeup
<1>1. IInv => NoLostWakeup
  BY DEF IInv
<1> QED
  BY <1>1, Invariance, PTL

==============================================================================
