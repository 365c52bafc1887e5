----------------------------- MODULE SessionProofs -----------------------------
(***************************************************************************)
(* What the server is for an orderly client, for every set of commands and *)
(* of files and any number of commands and clients. Such a client waits    *)
(* until a command has taken effect, so the command it has sent is in one  *)
(* place only: in its connection, in message, in the outbox, in an inbox   *)
(* or in a callback (OneCommand). From where it is follows what the file,  *)
(* pt, the tracker and the rows are, although six threads share them, and  *)
(* that every step of the server is a step of Session or none.             *)
(***************************************************************************)
EXTENDS ServerDataProofs

Callbacks == Threads \ {"main"}

NoneInText == pipe = <<>> /\ message = <<>>
NonePublished == \A a \in 1..Len(outbox) : outbox[a].topic \notin CmdTopics
OnlyPublished(a) ==
  /\ outbox[a].topic \in CmdTopics
  /\ \A b \in 1..Len(outbox) : b # a => outbox[b].topic \notin CmdTopics
OnePublished == \E a \in 1..Len(outbox) : OnlyPublished(a)
NoneDelivered == \A t \in CmdTopics : inbox[t] = <<>>
OnlyDelivered(t) == Len(inbox[t]) = 1 /\ \A u \in CmdTopics \ {t} : inbox[u] = <<>>
NoneHandled == \A th \in Callbacks : pc[th] = "idle"
OnlyHandled(th) == pc[th] # "idle" /\ \A other \in Callbacks \ {th} : pc[other] = "idle"

(* The places of the command; none, while main waits or cleans up.         *)
Listening == pc["main"] = "recv" /\ connected

Settled ==
  /\ pc["main"] \in {"accept", "recv"} /\ (pc["main"] = "accept" => ~connected)
  /\ NoneInText /\ NonePublished /\ NoneDelivered /\ NoneHandled
Cleaning ==
  /\ pc["main"] \in ResetSteps /\ ~connected
  /\ NoneInText /\ NonePublished /\ NoneDelivered /\ NoneHandled
IsSent ==
  /\ Listening /\ Len(pipe) = 1 /\ message = <<>>
  /\ NonePublished /\ NoneDelivered /\ NoneHandled
IsReceived ==
  /\ pc["main"] = "execute" /\ connected /\ pipe = <<>> /\ Len(message) = 1
  /\ NonePublished /\ NoneDelivered /\ NoneHandled
IsPublished == Listening /\ NoneInText /\ OnePublished /\ NoneDelivered /\ NoneHandled
IsDelivered ==
  /\ Listening /\ NoneInText /\ NonePublished
  /\ (\E t \in CmdTopics : OnlyDelivered(t))
  /\ NoneHandled
IsHandled ==
  /\ Listening /\ NoneInText /\ NonePublished /\ NoneDelivered
  /\ \E th \in Callbacks : OnlyHandled(th)

OneCommand ==
  Settled \/ Cleaning \/ IsSent \/ IsReceived \/ IsPublished \/ IsDelivered \/ IsHandled

(* A client that wants no file has none open, except while its STOP has    *)
(* not been taken yet.                                                     *)
NonePending == NoneInText /\ NonePublished /\ NoneDelivered
FollowsWants == Wants = NoFile => file = NoFile

(* What a command with the outcomes in o relies on until it is performed.  *)
Awaits(o) ==
  /\ o = {"CreateFile"} => file = NoFile /\ Wants # NoFile
  /\ o # {"CreateFile"} /\ o # {"StopTest"} => FollowsWants
Due(t, p) == Awaits({t}) /\ p.by = client

Awaited ==
  /\ \A a \in 1..Len(pipe) : Awaits(createCommand(pipe[a]))
  /\ \A a \in 1..Len(message) : Awaits(createCommand(message[a]))
  /\ \A a \in 1..Len(outbox) :
       outbox[a].topic \in CmdTopics => Due(outbox[a].topic, outbox[a].data)
  /\ \A t \in CmdTopics : \A a \in 1..Len(inbox[t]) : Due(t, inbox[t][a])

FileInv ==
  /\ NonePending => FollowsWants
  /\ pc["CreateFile"] # "idle" => file # NoFile /\ Wants # NoFile /\ Deployment
  /\ \A th \in Resetters : pc[th] \in ResetSteps => file = NoFile
  /\ pc["main"] = "accept" => file = NoFile
  /\ wanted # <<>> => wanted[Len(wanted)].by <= client

(* pt and the tracker while a thread resets or constructs, and otherwise.  *)
TrackerWithPt == (trackerPc = "none") <=> (pt = 0)
Agreed == TrackerWithPt /\ ((pt # 0) <=> (Deployment /\ file # NoFile))
Resetting(th) ==
  /\ pc[th] = "load" => TrackerWithPt
  /\ pc[th] = "store" => old[th] = pt /\ TrackerWithPt
  /\ pc[th] = "delete" => pt = 0 /\ old[th] = generation /\ trackerPc # "none" /\ keepRunning
  /\ pc[th] = "join" => pt = 0 /\ trackerPc # "none"
  /\ pc[th] \in {"zeroStatus", "zeroPosition"} => pt = 0 /\ trackerPc = "none"
TrackerInv ==
  /\ pc["CreateFile"] = "idle" /\ (\A th \in Resetters : pc[th] \notin ResetSteps) => Agreed
  /\ pc["CreateFile"] = "construct" => pt = 0 /\ trackerPc = "none"
  /\ \A th \in Resetters : Resetting(th)

(* Only the row that PROBE is writing is incomplete.                       *)
Ending(f, a) == pc["Probe"] = "position" /\ f = file /\ a = Len(disk[f])
RowInv ==
  /\ \A f \in Files : \A a \in 1..Len(disk[f]) :
       /\ disk[f][a].data # NoField
       /\ disk[f][a].pos = NoField => Ending(f, a)
  /\ pc["Probe"] = "position" /\ file # NoFile => EndsOpen(disk[file])

ReplyInv ==
  replies \in Seq({r \in [to : 0..MaxClients, asked : 0..MaxClients, status : Statuses,
                          pos : Positions] : r.to = r.asked})

Typed == ResetInv /\ MessageInv /\ DataInv

------------------------------------------------------------------------------
(* The bus                                                                 *)

LEMMA PublishAppends ==
  ASSUME BusTypes, NEW t \in Topics, NEW p \in PayloadsOf(t), Publish(t, p)
  PROVE  /\ Len(outbox) \in Nat /\ Len(outbox') = Len(outbox) + 1 /\ inbox' = inbox
         /\ \A a \in 1..Len(outbox) : outbox'[a] = outbox[a]
         /\ outbox'[Len(outbox) + 1] = [topic |-> t, data |-> p]
<1>1. [topic |-> t, data |-> p] \in Posted
  BY DEF Posted, PayloadsOf
<1>2. outbox \in Seq(Posted) /\ outbox' = Append(outbox, [topic |-> t, data |-> p])
  BY DEF BusTypes, Publish
<1>3. inbox' = inbox
  BY DEF Publish
<1> QED
  BY <1>1, <1>2, <1>3, AppendProperties, LenProperties

LEMMA OtherPublished ==
  ASSUME BusTypes, NEW t \in Topics \ CmdTopics, NEW p \in PayloadsOf(t), Publish(t, p)
  PROVE  (NonePublished => NonePublished') /\ (OnePublished => OnePublished')
<1> DEFINE n == Len(outbox)
<1>1. /\ n \in Nat /\ Len(outbox') = n + 1
      /\ \A a \in 1..n : outbox'[a] = outbox[a]
      /\ outbox'[n + 1].topic = t
  <2>1. t \in Topics
    OBVIOUS
  <2>2. /\ Len(outbox) \in Nat /\ Len(outbox') = Len(outbox) + 1
        /\ \A a \in 1..Len(outbox) : outbox'[a] = outbox[a]
        /\ outbox'[Len(outbox) + 1] = [topic |-> t, data |-> p]
    BY <2>1, PublishAppends
  <2> QED
    BY <2>2
<1> HIDE DEF n
<1>2. \A a \in 1..(n + 1) : a \in 1..n \/ a = n + 1
  BY <1>1
<1>3. \A a \in 1..n : a \in 1..(n + 1)
  BY <1>1
<1>4. NonePublished => NonePublished'
  BY <1>1, <1>2 DEF NonePublished, n
<1>5. ASSUME OnePublished PROVE OnePublished'
  <2>1. PICK a \in 1..n : OnlyPublished(a)
    BY <1>5 DEF OnePublished, n
  <2>2. OnlyPublished(a)'
    BY <1>1, <1>2, <2>1 DEF OnlyPublished, n
  <2> QED
    BY <1>1, <1>3, <2>2 DEF OnePublished
<1> QED
  BY <1>4, <1>5

LEMMA CommandPublished ==
  ASSUME BusTypes, NEW t \in CmdTopics, NEW p \in PayloadsOf(t), Publish(t, p), NonePublished
  PROVE  OnePublished'
<1> DEFINE n == Len(outbox)
<1>1. t \in Topics
  BY SocketServerAssumption DEF AllTopics
<1>2. /\ n \in Nat /\ Len(outbox') = n + 1
      /\ \A a \in 1..n : outbox'[a] = outbox[a]
      /\ outbox'[n + 1].topic = t
  <2>1. /\ Len(outbox) \in Nat /\ Len(outbox') = Len(outbox) + 1
        /\ \A a \in 1..Len(outbox) : outbox'[a] = outbox[a]
        /\ outbox'[Len(outbox) + 1] = [topic |-> t, data |-> p]
    BY <1>1, PublishAppends
  <2> QED
    BY <2>1
<1>3. \A a \in 1..n : outbox[a].topic \notin CmdTopics
  BY DEF NonePublished
<1> HIDE DEF n
<1>4. \A a \in 1..(n + 1) : a \in 1..n \/ a = n + 1
  BY <1>2
<1>5. n + 1 \in 1..Len(outbox')
  BY <1>2
<1>6. outbox'[n + 1].topic \in CmdTopics
      /\ \A b \in 1..Len(outbox') : b # n + 1 => outbox'[b].topic \notin CmdTopics
  BY <1>2, <1>3, <1>4
<1>7. PICK k \in Nat : k = n + 1
  BY <1>2
<1>8. OnlyPublished(k)'
  BY <1>6, <1>7 DEF OnlyPublished
<1> QED
  BY <1>5, <1>7, <1>8 DEF OnePublished

LEMMA TransmitMoves ==
  ASSUME BusTypes, Transmit
  PROVE  /\ Len(outbox) \in Nat \ {0} /\ Len(outbox') = Len(outbox) - 1
         /\ outbox[1] \in Posted
         /\ \A a \in 1..(Len(outbox) - 1) : outbox'[a] = outbox[a + 1]
         /\ inbox' = [inbox EXCEPT ![outbox[1].topic] =
                        IF Len(@) < HighWater THEN Append(@, outbox[1].data) ELSE @]
<1>1. outbox \in Seq(Posted) /\ outbox # <<>> /\ outbox' = Tail(outbox)
  BY DEF BusTypes, Transmit
<1>2. Head(outbox) = outbox[1] /\ Head(outbox) \in Posted
  BY <1>1, HeadTailProperties
<1>3. Len(outbox) \in Nat \ {0}
  BY <1>1, LenProperties, EmptySeq
<1>4. Len(outbox') = Len(outbox) - 1
  BY <1>1, HeadTailProperties
<1>5. \A a \in 1..(Len(outbox) - 1) : outbox'[a] = outbox[a + 1]
  BY <1>1, <1>3, HeadTailProperties
<1> QED
  BY <1>2, <1>3, <1>4, <1>5 DEF Transmit

(* The sender moves the command, if it is the oldest message, to the inbox *)
(* of its callback; the pipe is empty, so nothing is dropped.              *)
LEMMA CommandTransmitted ==
  ASSUME BusTypes, Transmit, NoneDelivered
  PROVE  /\ NonePublished => NonePublished' /\ NoneDelivered'
         /\ OnePublished => \/ OnePublished' /\ NoneDelivered'
                            \/ NonePublished' /\ \E t \in CmdTopics : OnlyDelivered(t)'
<1> DEFINE n == Len(outbox)
           m == outbox[1]
<1>1. /\ n \in Nat \ {0} /\ Len(outbox') = n - 1
      /\ m \in Posted
      /\ \A a \in 1..(n - 1) : outbox'[a] = outbox[a + 1]
      /\ inbox' = [inbox EXCEPT ![m.topic] = IF Len(@) < HighWater THEN Append(@, m.data) ELSE @]
  BY TransmitMoves
<1>2. m.topic \in Topics /\ m.data \in Payloads
  BY <1>1 DEF Posted
<1>3. inbox \in [Topics -> Seq(Payloads)] /\ CmdTopics \subseteq Topics
  BY SocketServerAssumption DEF BusTypes, AllTopics
<1>4. /\ \A t \in Topics \ {m.topic} : inbox'[t] = inbox[t]
      /\ inbox[m.topic] = <<>> => inbox'[m.topic] = <<m.data>>
  <2>1. Len(<<>>) < HighWater
    BY SocketServerAssumption
  <2>2. Append(<<>>, m.data) = <<m.data>>
    OBVIOUS
  <2> HIDE DEF m
  <2>3. \A t \in Topics \ {m.topic} : inbox'[t] = inbox[t]
    BY <1>1, <1>2, <1>3
  <2>4. ASSUME inbox[m.topic] = <<>> PROVE inbox'[m.topic] = <<m.data>>
    BY <1>1, <1>2, <1>3, <2>1, <2>2, <2>4
  <2> QED
    BY <2>3, <2>4
<1>5. Len(<<m.data>>) = 1
  OBVIOUS
<1>6. \A a \in 1..(n - 1) : a + 1 \in 1..n /\ a + 1 # 1
  BY <1>1
<1>7. 1 \in 1..n
  BY <1>1
<1> HIDE DEF n, m
<1>8. ASSUME NonePublished PROVE NonePublished' /\ NoneDelivered'
  <2>1. \A a \in 1..n : outbox[a].topic \notin CmdTopics
    BY <1>8 DEF NonePublished, n
  <2>2. NonePublished'
    BY <1>1, <1>6, <2>1 DEF NonePublished
  <2>3. m.topic \notin CmdTopics
    BY <1>7, <2>1 DEF m
  <2>4. \A t \in CmdTopics : t \in Topics \ {m.topic}
    BY <1>3, <2>3
  <2>5. NoneDelivered'
    BY <1>4, <2>4 DEF NoneDelivered
  <2> QED
    BY <2>2, <2>5
<1>9. ASSUME OnePublished
      PROVE  \/ OnePublished' /\ NoneDelivered'
             \/ NonePublished' /\ \E t \in CmdTopics : OnlyDelivered(t)'
  <2>1. PICK a \in 1..n : /\ outbox[a].topic \in CmdTopics
                          /\ \A b \in 1..n : b # a => outbox[b].topic \notin CmdTopics
    BY <1>9 DEF OnePublished, OnlyPublished, n
  <2>2. CASE a = 1
    <3>1. NonePublished'
      BY <1>1, <1>6, <2>1, <2>2 DEF NonePublished
    <3>2. m.topic \in CmdTopics
      BY <2>1, <2>2 DEF m
    <3>3. inbox'[m.topic] = <<m.data>>
      BY <1>4, <3>2 DEF NoneDelivered
    <3>4. \A u \in CmdTopics \ {m.topic} : inbox'[u] = <<>>
      BY <1>3, <1>4 DEF NoneDelivered
    <3>5. PICK t \in CmdTopics : t = m.topic
      BY <3>2
    <3>6. OnlyDelivered(t)'
      BY <1>5, <3>3, <3>4, <3>5 DEF OnlyDelivered
    <3> QED
      BY <3>1, <3>6
  <2>3. CASE a # 1
    <3>1. PICK k \in 1..(n - 1) : a = k + 1
      <4>1. a - 1 \in 1..(n - 1) /\ a = (a - 1) + 1
        BY <1>1, <2>3
      <4> QED
        BY <4>1
    <3>2. \A b \in 1..(n - 1) : b # k => b + 1 # a
      BY <1>1, <3>1
    <3>3. OnlyPublished(k)'
      BY <1>1, <1>6, <2>1, <3>1, <3>2 DEF OnlyPublished
    <3>4. OnePublished'
      BY <1>1, <3>1, <3>3 DEF OnePublished
    <3>5. m.topic \notin CmdTopics
      BY <1>7, <2>1, <2>3 DEF m
    <3>6. \A t \in CmdTopics : t \in Topics \ {m.topic}
      BY <1>3, <3>5
    <3>7. NoneDelivered'
      BY <1>4, <3>6 DEF NoneDelivered
    <3> QED
      BY <3>4, <3>7
  <2> QED
    BY <2>2, <2>3
<1> QED
  BY <1>8, <1>9

(* A callback takes the command: it was the only one delivered.            *)
LEMMA CommandTaken ==
  ASSUME BusTypes, OneCommand, NEW t \in CmdTopics, Take(t)
  PROVE  /\ IsDelivered /\ Len(inbox[t]) = 1
         /\ NoneDelivered' /\ outbox' = outbox /\ NonePublished'
<1>1. /\ inbox[t] # <<>> /\ inbox' = [inbox EXCEPT ![t] = Tail(inbox[t])] /\ outbox' = outbox
      /\ t \in Topics /\ inbox \in [Topics -> Seq(Payloads)] /\ inbox[t] \in Seq(Payloads)
  BY SocketServerAssumption DEF Take, BusTypes, AllTopics
<1>2. IsDelivered
  BY <1>1 DEF OneCommand, Settled, Cleaning, IsSent, IsReceived, IsPublished, IsHandled,
     NoneDelivered
<1>3. Len(inbox[t]) = 1 /\ \A u \in CmdTopics \ {t} : inbox[u] = <<>>
  BY <1>1, <1>2 DEF IsDelivered, OnlyDelivered
<1>4. inbox'[t] = <<>>
  <2>1. Tail(inbox[t]) \in Seq(Payloads) /\ Len(Tail(inbox[t])) = 0
    BY <1>1, <1>3, HeadTailProperties
  <2>2. Tail(inbox[t]) = <<>>
    BY <2>1, EmptySeq
  <2> QED
    BY <1>1, <2>2
<1>5. \A u \in CmdTopics \ {t} : inbox'[u] = <<>>
  BY <1>1, <1>3, SocketServerAssumption DEF AllTopics
<1>6. NonePublished'
  BY <1>1, <1>2 DEF IsDelivered, NonePublished
<1> QED
  BY <1>1, <1>2, <1>3, <1>4, <1>5, <1>6 DEF NoneDelivered

------------------------------------------------------------------------------
(* One command at a time                                                   *)

LEMMA QuietIsSettled ==
  ASSUME BusTypes
  PROVE  Quiet <=> /\ pc["main"] \in {"accept", "recv"}
                   /\ NoneInText /\ NonePublished /\ NoneDelivered /\ NoneHandled
<1>1. DOMAIN outbox = 1..Len(outbox)
  BY LenProperties DEF BusTypes
<1> QED
  BY <1>1 DEF Quiet, NoneInText, NonePublished, NoneDelivered, NoneHandled, Callbacks

(* What is not seen of the command leaves it where it is.                  *)
LEMMA PlaceKept ==
  ASSUME OneCommand, UNCHANGED <<pipe, message, connected, pc>>,
         \A t \in CmdTopics : inbox'[t] = inbox[t],
         NonePublished => NonePublished', OnePublished => OnePublished'
  PROVE  OneCommand'
<1>1. NoneDelivered => NoneDelivered'
  BY DEF NoneDelivered
<1>2. (\E t \in CmdTopics : OnlyDelivered(t)) => (\E t \in CmdTopics : OnlyDelivered(t))'
  BY DEF OnlyDelivered
<1> USE DEF NoneInText, Listening
<1>3. (NoneHandled <=> NoneHandled')
      /\ ((\E th \in Callbacks : OnlyHandled(th)) <=> (\E th \in Callbacks : OnlyHandled(th))')
  BY DEF NoneHandled, OnlyHandled
<1>4. Settled => Settled'
  BY <1>1, <1>3 DEF Settled
<1>5. Cleaning => Cleaning'
  BY <1>1, <1>3 DEF Cleaning
<1>6. IsSent => IsSent'
  BY <1>1, <1>3 DEF IsSent
<1>7. IsReceived => IsReceived'
  BY <1>1, <1>3 DEF IsReceived
<1>8. IsPublished => IsPublished'
  BY <1>1, <1>3 DEF IsPublished
<1>9. IsDelivered => IsDelivered'
  BY <1>2, <1>3 DEF IsDelivered
<1>10. IsHandled => IsHandled'
  BY <1>1, <1>3 DEF IsHandled
<1> QED
  BY <1>4, <1>5, <1>6, <1>7, <1>8, <1>9, <1>10 DEF OneCommand

LEMMA BusUnchanged ==
  ASSUME UNCHANGED busVars
  PROVE  /\ NonePublished <=> NonePublished'
         /\ OnePublished <=> OnePublished'
         /\ NoneDelivered <=> NoneDelivered'
<1>1. outbox' = outbox /\ inbox' = inbox
  BY DEF busVars
<1> QED
  BY <1>1 DEF NonePublished, OnePublished, OnlyPublished, NoneDelivered

(* The client, and main until it has published.                            *)
LEMMA PlaceOfText ==
  ASSUME ClientKind = "orderly", Typed, OneCommand, fault = "none",
         \/ \E c \in Commands : Send(c)
         \/ Disconnect
         \/ AcceptStep \/ waiting_command \/ waiting_command_failed \/ execute_command
  PROVE  OneCommand'
<1>1. /\ BusTypes /\ CommandTypes /\ ActorTypes /\ pc \in [Threads -> Steps]
      /\ MessageInv
  BY DEF Typed, DataInv, ResetInv, ResetTypes
<1>2. ASSUME pc' \in {pc, [pc EXCEPT !["main"] = "recv"], [pc EXCEPT !["main"] = "execute"],
                      [pc EXCEPT !["main"] = "load"]}
      PROVE  NoneHandled => NoneHandled'
  BY <1>1, <1>2 DEF NoneHandled, Callbacks, Threads
<1>3. "main" \in Threads /\ \A s : pc' = [pc EXCEPT !["main"] = s] => pc'["main"] = s
  BY <1>1 DEF Threads
<1>4. ASSUME NEW c \in Commands, Send(c) PROVE OneCommand'
  <2>1. connected /\ Quiet
    BY <1>4 DEF Send, MaySend
  <2>2. Settled /\ pc["main"] = "recv"
    BY <1>1, <2>1, QuietIsSettled DEF OneCommand, Settled, Cleaning, IsSent, IsReceived,
       IsPublished, IsDelivered, IsHandled, Listening
  <2>3. UNCHANGED <<message, pc, connected>> /\ UNCHANGED busVars
    BY <1>4 DEF Send
  <2>4. Len(pipe') = 1
    <3>1. PICK x \in {pipe'[1]} : pipe' = Append(<<>>, x)
      BY <1>4, <2>2 DEF Send, Settled, NoneInText
    <3> QED
      BY <3>1
  <2>5. NonePublished' /\ NoneDelivered' /\ NoneHandled'
    BY <1>2, <2>2, <2>3, BusUnchanged DEF Settled
  <2> QED
    BY <2>1, <2>2, <2>3, <2>4, <2>5 DEF OneCommand, IsSent, Settled, NoneInText, Listening
<1>5. CASE Disconnect
  <2>1. connected /\ Quiet
    BY <1>5 DEF Disconnect
  <2>2. Settled
    BY <1>1, <2>1, QuietIsSettled DEF OneCommand, Settled, Cleaning, IsSent, IsReceived,
       IsPublished, IsDelivered, IsHandled, Listening
  <2>3. UNCHANGED <<pipe, message, pc>> /\ UNCHANGED busVars /\ connected' = FALSE
    BY <1>5 DEF Disconnect
  <2>4. NonePublished' /\ NoneDelivered' /\ NoneHandled'
    BY <1>2, <2>2, <2>3, BusUnchanged DEF Settled
  <2> QED
    BY <2>2, <2>3, <2>4 DEF OneCommand, Settled, NoneInText
<1>6. CASE AcceptStep
  <2>1. /\ pc["main"] = "accept" /\ UNCHANGED message /\ UNCHANGED busVars
        /\ pipe' = <<>> \/ pipe' = pipe
        /\ \/ pc' = [pc EXCEPT !["main"] = "recv"]
           \/ pc' = pc /\ connected' = connected
    BY <1>6 DEF AcceptStep, waiting_connection, waiting_connection_failed,
       waiting_connection_again, clientVars, Go
  <2>2. Settled
    BY <2>1 DEF OneCommand, Settled, Cleaning, IsSent, IsReceived, IsPublished, IsDelivered,
       IsHandled, Listening, ResetSteps
  <2>3. NonePublished' /\ NoneDelivered' /\ NoneHandled'
    BY <1>2, <2>1, <2>2, BusUnchanged DEF Settled
  <2> QED
    BY <1>3, <2>1, <2>2, <2>3 DEF OneCommand, Settled, NoneInText
<1>7. CASE waiting_command
  <2>1. PICK k \in 1..Len(pipe) : Len(message') = k /\ Len(pipe') = Len(pipe) - k
    BY <1>1, <1>7, ReceiveKeepsTypes
  <2>2. /\ pc["main"] = "recv" /\ UNCHANGED busVars /\ UNCHANGED connected
        /\ pc' = [pc EXCEPT !["main"] = "execute"]
    BY <1>7 DEF waiting_command, Go
  <2>3. pipe # <<>>
    BY <2>1
  <2>4. IsSent
    BY <2>2, <2>3 DEF OneCommand, Settled, Cleaning, IsSent, IsReceived, IsPublished,
       IsDelivered, IsHandled, NoneInText
  <2>5. Len(message') = 1 /\ Len(pipe') = 0
    BY <2>1, <2>4 DEF IsSent
  <2>6. pipe' = <<>>
    <3>1. pipe' \in Seq(Asked)
      BY <1>1, <1>7, ReceiveKeepsTypes DEF CommandTypes
    <3> QED
      BY <2>5, <3>1, EmptySeq
  <2>7. NonePublished' /\ NoneDelivered' /\ NoneHandled'
    BY <1>2, <2>2, <2>4, BusUnchanged DEF IsSent
  <2> QED
    BY <1>3, <2>2, <2>4, <2>5, <2>6, <2>7 DEF OneCommand, IsSent, IsReceived, Listening
<1>8. CASE waiting_command_failed
  <2>1. /\ pc["main"] = "recv" /\ ~connected /\ pipe' = <<>>
        /\ UNCHANGED <<message, connected>> /\ UNCHANGED busVars
        /\ pc' = [pc EXCEPT !["main"] = "load"]
    BY <1>8 DEF waiting_command_failed, Go
  <2>2. Settled
    BY <2>1 DEF OneCommand, Settled, Cleaning, IsSent, IsReceived, IsPublished, IsDelivered,
       IsHandled, Listening, ResetSteps
  <2>3. NonePublished' /\ NoneDelivered' /\ NoneHandled'
    BY <1>2, <2>1, <2>2, BusUnchanged DEF Settled
  <2> QED
    BY <1>3, <2>1, <2>2, <2>3 DEF OneCommand, Settled, Cleaning, NoneInText, ResetSteps
<1>9. CASE execute_command
  <2>1. /\ pc["main"] = "execute" /\ message' = <<>> /\ UNCHANGED <<pipe, connected>>
        /\ pc' = [pc EXCEPT !["main"] = "recv"]
    BY <1>9 DEF execute_command, Go, clientVars
  <2>2. IsReceived
    BY <2>1 DEF OneCommand, Settled, Cleaning, IsSent, IsReceived, IsPublished, IsDelivered,
       IsHandled, Listening, ResetSteps
  <2>3. NoneHandled' /\ NoneInText' /\ Listening'
    BY <1>2, <1>3, <2>1, <2>2 DEF IsReceived, NoneInText, Listening
  <2>4. CASE UNCHANGED busVars
    <3>1. NonePublished' /\ NoneDelivered'
      BY <2>2, <2>4, BusUnchanged DEF IsReceived
    <3> QED
      BY <2>3, <3>1 DEF OneCommand, Settled, Listening
  <2>5. ASSUME NEW t \in CmdTopics, NEW p \in PayloadsOf(t), Publish(t, p) PROVE OneCommand'
    <3>1. OnePublished'
      BY <1>1, <2>2, <2>5, CommandPublished DEF IsReceived
    <3>2. NoneDelivered'
      BY <2>2, <2>5 DEF IsReceived, NoneDelivered, Publish
    <3> QED
      BY <2>3, <3>1, <3>2 DEF OneCommand, IsPublished
  <2> QED
    BY <1>1, <1>9, <2>4, <2>5, ExecutePublishes
<1> QED
  BY <1>4, <1>5, <1>6, <1>7, <1>8, <1>9

LEMMA OtherTransmitted ==
  ASSUME BusTypes, Transmit, NonePublished
  PROVE  NonePublished' /\ \A t \in CmdTopics : inbox'[t] = inbox[t]
<1> DEFINE n == Len(outbox)
           m == outbox[1]
<1>1. /\ n \in Nat \ {0} /\ Len(outbox') = n - 1
      /\ \A a \in 1..(n - 1) : outbox'[a] = outbox[a + 1]
      /\ inbox' = [inbox EXCEPT ![m.topic] = IF Len(@) < HighWater THEN Append(@, m.data) ELSE @]
  BY TransmitMoves
<1>2. \A a \in 1..n : outbox[a].topic \notin CmdTopics
  BY DEF NonePublished
<1>3. inbox \in [Topics -> Seq(Payloads)] /\ CmdTopics \subseteq Topics
  BY SocketServerAssumption DEF BusTypes, AllTopics
<1>4. 1 \in 1..n /\ \A a \in 1..(n - 1) : a + 1 \in 1..n
  BY <1>1
<1>5. m.topic \notin CmdTopics
  BY <1>2, <1>4
<1> HIDE DEF n, m
<1>6. NonePublished'
  BY <1>1, <1>2, <1>4 DEF NonePublished
<1>7. \A t \in CmdTopics : inbox'[t] = inbox[t]
  BY <1>1, <1>3, <1>5
<1> QED
  BY <1>6, <1>7

LEMMA CallbackGoes ==
  ASSUME Typed, OneCommand, UNCHANGED <<pipe, message, connected>>, UNCHANGED busVars,
         NEW th \in Callbacks, pc[th] # "idle",
         pc' = pc \/ \E s : pc' = [pc EXCEPT ![th] = s]
  PROVE  OneCommand'
<1>1. pc \in [Threads -> Steps]
  BY DEF Typed, ResetInv, ResetTypes
<1>2. IsHandled
  BY DEF OneCommand, Settled, Cleaning, IsSent, IsReceived, IsPublished, IsDelivered,
     NoneHandled
<1>3. \A other \in Callbacks \ {th} : pc[other] = "idle" /\ pc'[other] = "idle"
  BY <1>1, <1>2 DEF IsHandled, OnlyHandled, Callbacks
<1>4. NonePublished' /\ NoneDelivered' /\ NoneInText' /\ Listening'
  BY <1>1, <1>2, BusUnchanged
     DEF IsHandled, NoneInText, Listening, Callbacks, Threads
<1>5. CASE pc'[th] = "idle"
  BY <1>3, <1>4, <1>5 DEF NoneHandled, Settled, OneCommand, Listening
<1>6. CASE pc'[th] # "idle"
  BY <1>3, <1>4, <1>6 DEF OnlyHandled, IsHandled, OneCommand
<1> QED
  BY <1>5, <1>6

(* The bus and the callbacks that take no command.                         *)
LEMMA PlaceOfMessage ==
  ASSUME Typed, OneCommand, fault = "none",
         TrackerStep \/ TransmitStep \/ zedStatus_callback \/ zedPosition_callback
  PROVE  OneCommand'
<1>1. BusTypes /\ DataInv /\ ResetTypes
  BY DEF Typed, DataInv, ResetInv
<1>2. /\ {"ZED_Position", "ZED_Status"} \subseteq Topics \ CmdTopics /\ CmdTopics \subseteq Topics
      /\ inbox \in [Topics -> Seq(Payloads)]
  BY <1>1, SocketServerAssumption DEF AllTopics, CmdTopics, BusTypes
<1>3. CASE TrackerStep
  <2>1. UNCHANGED <<pipe, message, connected, pc>>
    BY <1>3 DEF TrackerStep, serverVars, clientVars
  <2>2. CASE UNCHANGED busVars
    <3>1. inbox' = inbox
      BY <2>2 DEF busVars
    <3> QED
      BY <2>1, <2>2, <3>1, BusUnchanged, PlaceKept
  <2>3. ASSUME NEW t \in {"ZED_Position", "ZED_Status"}, NEW p \in PayloadsOf(t), Publish(t, p)
        PROVE  OneCommand'
    <3>1. t \in Topics \ CmdTopics
      BY <1>2
    <3>2. (NonePublished => NonePublished') /\ (OnePublished => OnePublished')
      BY <1>1, <2>3, <3>1, OtherPublished
    <3>3. inbox' = inbox
      BY <2>3 DEF Publish
    <3> QED
      BY <2>1, <3>2, <3>3, PlaceKept
  <2> QED
    BY <1>1, <1>3, <2>2, <2>3, TrackerPublishes
<1>4. CASE TransmitStep
  <2>1. UNCHANGED <<pipe, message, connected, pc>> /\ Transmit
    BY <1>4 DEF TransmitStep, serverVars, clientVars
  <2>2. NoneHandled => NoneHandled'
    BY <2>1 DEF NoneHandled
  <2>3. ASSUME NoneDelivered, NonePublished PROVE NonePublished' /\ NoneDelivered'
    BY <1>1, <2>1, <2>3, CommandTransmitted
  <2>4. CASE Settled
    BY <2>1, <2>2, <2>3, <2>4 DEF Settled, OneCommand, NoneInText
  <2>5. CASE Cleaning
    BY <2>1, <2>2, <2>3, <2>5 DEF Cleaning, OneCommand, NoneInText
  <2>6. CASE IsSent
    BY <2>1, <2>2, <2>3, <2>6 DEF IsSent, OneCommand, Listening
  <2>7. CASE IsReceived
    BY <2>1, <2>2, <2>3, <2>7 DEF IsReceived, OneCommand
  <2>8. CASE IsPublished
    <3>1. NoneHandled' /\ NoneInText' /\ Listening'
      BY <2>1, <2>2, <2>8 DEF IsPublished, NoneInText, Listening
    <3>2. \/ OnePublished' /\ NoneDelivered'
          \/ NonePublished' /\ \E t \in CmdTopics : OnlyDelivered(t)'
      BY <1>1, <2>1, <2>8, CommandTransmitted DEF IsPublished
    <3>3. IsPublished' \/ IsDelivered'
      BY <3>1, <3>2 DEF IsPublished, IsDelivered
    <3> QED
      BY <3>3 DEF OneCommand
  <2>9. CASE IsDelivered
    <3>1. NonePublished' /\ \A t \in CmdTopics : inbox'[t] = inbox[t]
      <4>1. \A t \in CmdTopics : inbox'[t] = inbox[t]
        BY <1>1, <1>2, <2>1, <2>9, OtherTransmitted DEF IsDelivered
      <4>2. NonePublished'
        BY <1>1, <1>2, <2>1, <2>9, OtherTransmitted DEF IsDelivered
      <4> QED
        BY <4>1, <4>2
    <3>2. ~OnePublished
      BY <2>9 DEF IsDelivered, NonePublished, OnePublished, OnlyPublished
    <3> QED
      BY <2>1, <3>1, <3>2, PlaceKept
  <2>10. CASE IsHandled
    <3>1. (\E th \in Callbacks : OnlyHandled(th))'
      BY <2>1, <2>10 DEF IsHandled, OnlyHandled
    <3> QED
      BY <2>1, <2>3, <2>10, <3>1 DEF IsHandled, OneCommand, Listening, NoneInText
  <2> QED
    BY <2>4, <2>5, <2>6, <2>7, <2>8, <2>9, <2>10 DEF OneCommand
<1>5. CASE zedStatus_callback \/ zedPosition_callback
  <2>1. UNCHANGED <<pipe, message, connected, pc, outbox>>
    BY <1>5 DEF zedStatus_callback, zedPosition_callback, clientVars, Take
  <2>2. \A t \in CmdTopics : inbox'[t] = inbox[t]
    BY <1>2, <1>5 DEF zedStatus_callback, zedPosition_callback, Take
  <2>3. (NonePublished => NonePublished') /\ (OnePublished => OnePublished')
    BY <2>1 DEF NonePublished, OnePublished, OnlyPublished
  <2> QED
    BY <2>1, <2>2, <2>3, PlaceKept
<1> QED
  BY <1>3, <1>4, <1>5

(* A callback takes the command and has it until it is idle again.         *)
LEMMA PlaceOfCallback ==
  ASSUME Typed, OneCommand, fault = "none",
         \/ createFile_callback \/ ConstructTracker \/ stop_callback \/ ProbeStep
         \/ getInfo_callback
  PROVE  OneCommand'
<1>1. BusTypes /\ pc \in [Threads -> Steps]
  BY DEF Typed, DataInv, ResetInv, ResetTypes
<1>2. UNCHANGED <<pipe, message, connected>>
  BY DEF createFile_callback, ConstructTracker, stop_callback, ProbeStep, probe_callback,
     ProbePosition, getInfo_callback, clientVars
<1>3. ASSUME NEW t \in CmdTopics, Take(t), NEW th \in Callbacks,
             pc' = pc \/ \E s : pc' = [pc EXCEPT ![th] = s]
      PROVE  OneCommand'
  <2>1. IsDelivered /\ NoneDelivered' /\ NonePublished'
    BY <1>1, <1>3, CommandTaken
  <2>2. Listening' /\ NoneInText'
    BY <1>1, <1>2, <1>3, <2>1 DEF IsDelivered, Listening, NoneInText, Callbacks, Threads
  <2>3. \A other \in Callbacks \ {th} : pc'[other] = "idle"
    BY <1>1, <1>3, <2>1 DEF IsDelivered, NoneHandled, Callbacks
  <2>4. CASE pc'[th] = "idle"
    <3>1. NoneHandled'
      BY <2>3, <2>4 DEF NoneHandled
    <3> QED
      BY <2>1, <2>2, <3>1 DEF OneCommand, Settled, Listening
  <2>5. CASE pc'[th] # "idle"
    <3>1. OnlyHandled(th)'
      BY <2>3, <2>5 DEF OnlyHandled
    <3> QED
      BY <2>1, <2>2, <3>1 DEF OneCommand, IsHandled
  <2> QED
    BY <2>4, <2>5
<1>4. {"CreateFile", "StopTest", "Probe"} \subseteq Callbacks
  BY DEF Callbacks, Threads
<1>5. {"CreateFile", "StopTest", "Probe", "GetInfo"} \subseteq CmdTopics
  BY DEF CmdTopics
<1>6. CASE createFile_callback
  BY <1>3, <1>4, <1>5, <1>6 DEF createFile_callback, Go
<1>7. CASE stop_callback
  <2>1. Take("StopTest") /\ pc' = [pc EXCEPT !["StopTest"] = "load"]
    BY <1>7 DEF stop_callback, Go
  <2> QED
    BY <1>3, <1>4, <1>5, <2>1
<1>8. CASE probe_callback
  <2>1. Take("Probe") /\ pc' = [pc EXCEPT !["Probe"] = "position"]
    BY <1>8 DEF probe_callback, Go
  <2> QED
    BY <1>3, <1>4, <1>5, <2>1
<1>9. CASE getInfo_callback
  <2>1. Take("GetInfo") /\ pc' = pc
    BY <1>9 DEF getInfo_callback
  <2> QED
    BY <1>3, <1>4, <1>5, <2>1
<1>10. CASE ConstructTracker
  <2>1. UNCHANGED busVars /\ pc["CreateFile"] = "construct"
        /\ pc' \in {pc, [pc EXCEPT !["CreateFile"] = "load"]}
    BY <1>10 DEF ConstructTracker, Go
  <2> QED
    BY <1>2, <1>4, <2>1, CallbackGoes
<1>11. CASE ProbePosition
  <2>1. UNCHANGED busVars /\ pc["Probe"] = "position" /\ pc' = [pc EXCEPT !["Probe"] = "idle"]
    BY <1>11 DEF ProbePosition, Go
  <2> QED
    BY <1>2, <1>4, <2>1, CallbackGoes
<1> QED
  BY <1>6, <1>7, <1>8, <1>9, <1>10, <1>11 DEF ProbeStep

LEMMA PlaceOfReset ==
  ASSUME Typed, OneCommand, fault = "none",
         NEW th \in {"main", "CreateFile", "StopTest"}, Reset(th)
  PROVE  OneCommand'
<1>1. BusTypes /\ pc \in [Threads -> Steps] /\ ResetTypes
  BY DEF Typed, DataInv, ResetInv, ResetTypes
<1>2. UNCHANGED <<pipe, message, connected>> /\ UNCHANGED busVars
  BY DEF Reset, ResetLoad, ResetStore, DeleteTracker, JoinAndFree, zed_setZeroStatus,
     zed_setZeroPosition, clientVars
<1>3. pc[th] \in ResetSteps
  BY DEF Reset, ResetLoad, ResetStore, DeleteTracker, JoinAndFree, zed_setZeroStatus,
     zed_setZeroPosition, ResetSteps
<1>4. CASE th = "main"
  <2>1. PICK s \in ResetSteps \cup {"accept"} : pc' = [pc EXCEPT !["main"] = s]
    BY <1>4 DEF Reset, ResetLoad, ResetStore, AfterReset, DeleteTracker, JoinAndFree,
       zed_setZeroStatus, zed_setZeroPosition, Go, ResetSteps
  <2>2. Cleaning
    BY <1>3, <1>4 DEF OneCommand, Settled, Cleaning, IsSent, IsReceived, IsPublished,
       IsDelivered, IsHandled, Listening, ResetSteps
  <2>3. pc'["main"] = s /\ NoneHandled'
    BY <1>1, <2>1, <2>2 DEF Cleaning, NoneHandled, Callbacks, Threads
  <2>4. NonePublished' /\ NoneDelivered' /\ NoneInText'
    BY <1>2, <2>2, BusUnchanged DEF Cleaning, NoneInText
  <2>5. CASE s = "accept"
    BY <1>2, <2>2, <2>3, <2>4, <2>5 DEF Cleaning, Settled, OneCommand
  <2>6. CASE s # "accept"
    BY <1>2, <2>1, <2>2, <2>3, <2>4, <2>6 DEF Cleaning, OneCommand
  <2> QED
    BY <2>5, <2>6
<1>5. CASE th # "main"
  <2>1. \E s : pc' = [pc EXCEPT ![th] = s]
    BY DEF Reset, ResetLoad, ResetStore, DeleteTracker, JoinAndFree,
       zed_setZeroStatus, zed_setZeroPosition, Go
  <2>2. th \in Callbacks /\ pc[th] # "idle"
    BY <1>3, <1>5 DEF Callbacks, Threads, ResetSteps
  <2> QED
    BY <1>2, <2>1, <2>2, CallbackGoes
<1> QED
  BY <1>4, <1>5

LEMMA OneCommandStep ==
  ClientKind = "orderly" /\ Typed /\ OneCommand /\ [Next]_vars => OneCommand'
<1> SUFFICES ASSUME ClientKind = "orderly", Typed, OneCommand, [Next]_vars PROVE OneCommand'
  OBVIOUS
<1>1. CASE createFile_throws \/ UNCHANGED vars
  <2>1. UNCHANGED <<pipe, message, connected, pc>> /\ UNCHANGED busVars /\ inbox' = inbox
    BY <1>1 DEF createFile_throws, vars, clientVars, busVars
  <2> QED
    BY <2>1, BusUnchanged, PlaceKept
<1>2. CASE Next
  BY <1>1, <1>2, PlaceOfText, PlaceOfMessage, PlaceOfCallback, PlaceOfReset
     DEF Next, MainStep, MainWorks, AcceptStep, CreateStep, StopStep, ProbeStep
<1> QED
  BY <1>1, <1>2

LEMMA OneCommandInit == Init => OneCommand
<1> SUFFICES ASSUME Init PROVE OneCommand
  OBVIOUS
<1>1. /\ pipe = <<>> /\ message = <<>> /\ outbox = <<>> /\ connected = FALSE
      /\ pc = [th \in Threads |-> IF th = "main" THEN "accept" ELSE "idle"]
      /\ \A t \in CmdTopics : inbox[t] = <<>>
  BY SocketServerAssumption DEF Init, BusInit, AllTopics
<1>2. pc["main"] = "accept" /\ NoneHandled
  BY <1>1 DEF Threads, NoneHandled, Callbacks
<1> QED
  BY <1>1, <1>2 DEF OneCommand, Settled, NoneInText, NonePublished, NoneDelivered

------------------------------------------------------------------------------
(* What the command relies on                                              *)

LEMMA WhereMainIs ==
  ASSUME OneCommand
  PROVE  /\ pc["main"] = "accept" => Settled
         /\ pc["main"] = "recv" /\ pipe # <<>> => IsSent
         /\ pc["main"] = "recv" /\ ~connected => Settled
         /\ pc["main"] = "execute" => IsReceived
BY DEF OneCommand, Settled, Cleaning, IsSent, IsReceived, IsPublished, IsDelivered, IsHandled,
   Listening, NoneInText, ResetSteps

LEMMA NoneAwaits == NonePending => Awaited
BY DEF NonePending, Awaited, NoneInText, NonePublished, NoneDelivered

LEMMA DueKept ==
  ASSUME UNCHANGED <<file, wanted, client>>
  PROVE  /\ Wants' = Wants /\ (FollowsWants' <=> FollowsWants)
         /\ \A o : Awaits(o)' <=> Awaits(o)
         /\ \A t, p : Due(t, p)' <=> Due(t, p)
<1>1. Wants' = Wants
  BY DEF Wants
<1>2. FollowsWants' <=> FollowsWants
  BY <1>1 DEF FollowsWants
<1>3. \A o : Awaits(o)' <=> Awaits(o)
  BY <1>1, <1>2 DEF Awaits
<1> QED
  BY <1>1, <1>2, <1>3 DEF Due

(* A text names at most one topic.                                         *)
LEMMA OneTopic ==
  ASSUME NEW c, c.command \in Int, c.args \in ArgsKinds, NEW t \in CmdTopics,
         t \in createCommand(c)
  PROVE  createCommand(c) = {t}
<1> USE DEF createCommand, CmdTopics
<1>1. CASE c.command = NotInt \/ c.command = Absent
  BY <1>1 DEF NotInt, Absent, NeedsArgs, CREATE, PROBE, STOP, GETINFO
<1>2. CASE c.command # NotInt /\ c.command # Absent /\ NeedsArgs(c)
  BY <1>2 DEF ArgsKinds, NeedsArgs, CREATE, PROBE, STOP, GETINFO, NotInt, Absent
<1>3. CASE c.command # NotInt /\ c.command # Absent /\ ~NeedsArgs(c)
          /\ c.command \in {STOP, GETINFO}
  BY <1>3 DEF NotInt, Absent
<1>4. CASE c.command # NotInt /\ c.command # Absent /\ ~NeedsArgs(c)
          /\ c.command \notin {STOP, GETINFO}
  BY <1>4
<1> QED
  BY <1>1, <1>2, <1>3, <1>4

LEMMA CreateIsCreate ==
  ASSUME NEW c, c.command \in Int, c.args \in ArgsKinds, "CreateFile" \in createCommand(c)
  PROVE  c.command = CREATE
<1>1. c.command \in {PROBE, STOP, GETINFO} => CommandTopic(c.command) # "CreateFile"
  BY DEF CommandTopic, CREATE, PROBE, STOP, GETINFO
<1> QED
  BY <1>1 DEF createCommand, NeedsArgs, ArgsKinds

(* How main turns a text into a message, or not.                           *)
LEMMA Executed ==
  ASSUME Typed, IsReceived, execute_command
  PROVE  \/ \E t \in CmdTopics : \E p \in PayloadsOf(t) :
              /\ createCommand(message[1]) = {t} /\ Publish(t, p)
              /\ p.by = client /\ p.arg = message[1].arg
              /\ t = "Probe" => p.n = message[1].n
              /\ fault' = fault
         \/ /\ UNCHANGED busVars
            /\ \A t \in CmdTopics : t \notin createCommand(message[1])
            /\ fault' = fault \/ createCommand(message[1]) \cap {"null", "crash"} # {}
<1> DEFINE c == message[1]
<1>1. CommandTypes /\ ActorTypes /\ Len(message) = 1
  BY DEF Typed, DataInv, IsReceived
<1>2. c \in Asked
  <2>1. message \in Seq(Asked) /\ 1 \in 1..Len(message)
    BY <1>1 DEF CommandTypes
  <2> QED
    BY <2>1, ElementOfSeq
<1>3. c.command \in Int /\ c.args \in ArgsKinds
  BY <1>2 DEF Asked, Requests
<1>4. executeCommand(message) = {IF o = "null" THEN "crash" ELSE o : o \in createCommand(c)}
  BY <1>1 DEF executeCommand
<1>5. ASSUME NEW t \in CmdTopics, t \in createCommand(c) PROVE createCommand(c) = {t}
  BY <1>3, <1>5, OneTopic
<1>6. ASSUME NEW o \in executeCommand(message), o \notin CmdTopics, fault' = fault \/ o = "crash"
      PROVE  /\ \A t \in CmdTopics : t \notin createCommand(c)
             /\ fault' = fault \/ createCommand(c) \cap {"null", "crash"} # {}
  <2>1. PICK k \in createCommand(c) : o = IF k = "null" THEN "crash" ELSE k
    BY <1>4, <1>6
  <2>2. ASSUME NEW t \in CmdTopics, t \in createCommand(c) PROVE FALSE
    <3>1. createCommand(c) = {t}
      BY <1>5, <2>2
    <3> QED
      BY <1>6, <2>1, <2>2, <3>1 DEF CmdTopics
  <2>3. o = "crash" => k \in {"null", "crash"}
    BY <2>1
  <2> QED
    BY <1>6, <2>1, <2>2, <2>3
<1>7. CASE \E t \in CmdTopics : \E p \in PayloadsOf(t) :
             /\ Publish(t, p) /\ (t = "Probe" => p.n = message[1].n)
             /\ p.by = client /\ p.arg = message[1].arg
             /\ t \in createCommand(c) /\ fault' = fault
  <2>1. PICK t \in CmdTopics : \E p \in PayloadsOf(t) :
             /\ Publish(t, p) /\ (t = "Probe" => p.n = message[1].n)
             /\ p.by = client /\ p.arg = message[1].arg
             /\ t \in createCommand(c) /\ fault' = fault
    BY <1>7
  <2>2. createCommand(c) = {t}
    BY <1>5, <2>1
  <2> QED
    BY <2>1, <2>2
<1> HIDE DEF c
<1>8. CASE /\ UNCHANGED busVars
           /\ \E o \in executeCommand(message) :
                o \notin CmdTopics /\ (fault' = fault \/ o = "crash")
  BY <1>6, <1>8 DEF c
<1> QED
  BY <1>1, <1>7, <1>8, ExecutePublishes DEF c

(* The client sends while nothing of it is pending.                        *)
LEMMA Sends ==
  ASSUME ClientKind = "orderly", Typed, OneCommand, NEW c \in Commands, Send(c)
  PROVE  /\ Settled /\ NonePublished' /\ NoneDelivered' /\ message' = <<>>
         /\ \E x \in Asked : /\ x.command = c.command /\ x.args = c.args /\ x.arg = c.arg
                             /\ pipe' = <<x>>
         /\ wanted' # <<>> /\ wanted'[Len(wanted')].by = client /\ Wants' = WantsAfter(c)
         /\ c.command = CREATE => Wants = NoFile
         /\ UNCHANGED <<pc, file, client, outbox, inbox>>
<1> DEFINE x == [command |-> c.command, args |-> c.args, arg |-> c.arg, n |-> Len(wanted')]
           w == [by |-> client, file |-> WantsAfter(c)]
<1>1. BusTypes /\ CommandTypes /\ ActorTypes
  BY DEF Typed, DataInv
<1>2. connected /\ Quiet /\ (c.command = CREATE => Wants = NoFile)
  BY DEF Send, MaySend
<1>3. /\ wanted' = Append(wanted, w) /\ pipe' = Append(pipe, x) /\ message' = message
      /\ Len(wanted) < MaxCommands /\ UNCHANGED <<pc, file, client>> /\ UNCHANGED busVars
  BY DEF Send, fileVars
<1>4. Settled
  BY <1>1, <1>2, QuietIsSettled
     DEF OneCommand, Settled, Cleaning, IsSent, IsReceived, IsPublished, IsDelivered, IsHandled,
         Listening
<1>5. NonePublished' /\ NoneDelivered' /\ message' = <<>>
  BY <1>3, <1>4, BusUnchanged DEF Settled, NoneInText
<1>6. pipe' = <<x>>
  <2> HIDE DEF x
  <2> QED
    BY <1>3, <1>4 DEF Settled, NoneInText
<1>7. x \in Asked
  <2>1. pipe' \in Seq(Asked)
    BY <1>1, SendKeepsTypes DEF CommandTypes
  <2> HIDE DEF x
  <2>2. Len(pipe') = 1 /\ pipe'[1] = x
    BY <1>6
  <2>3. 1 \in 1..Len(pipe')
    BY <2>2
  <2> QED
    BY <2>1, <2>2, <2>3, ElementOfSeq
<1>8. /\ wanted' # <<>> /\ wanted'[Len(wanted')] = w
  <2>1. wanted \in Seq([by : 0..MaxClients, file : Files \cup {NoFile}])
        /\ wanted' \in Seq([by : 0..MaxClients, file : Files \cup {NoFile}])
    BY <1>1, SendKeepsTypes DEF CommandTypes
  <2> HIDE DEF w
  <2>2. Len(wanted') = Len(wanted) + 1 /\ wanted'[Len(wanted) + 1] = w /\ wanted' # <<>>
    BY <1>3, <2>1
  <2> QED
    BY <2>2
<1>9. Wants' = WantsAfter(c) /\ wanted'[Len(wanted')].by = client
  BY <1>3, <1>8 DEF Wants
<1>10. \E y \in Asked : /\ y.command = c.command /\ y.args = c.args /\ y.arg = c.arg
                        /\ pipe' = <<y>>
  <2>1. x.command = c.command /\ x.args = c.args /\ x.arg = c.arg
    OBVIOUS
  <2> QED
    BY <1>6, <1>7, <2>1
<1> QED
  BY <1>2, <1>3, <1>4, <1>5, <1>8, <1>9, <1>10 DEF busVars

LEMMA SendAwaits ==
  ASSUME ClientKind = "orderly", Typed, OneCommand, FileInv, NEW c \in Commands, Send(c)
  PROVE  Awaited'
<1>1. /\ Settled /\ NonePublished' /\ NoneDelivered' /\ message' = <<>>
      /\ Wants' = WantsAfter(c) /\ (c.command = CREATE => Wants = NoFile) /\ file' = file
  BY Sends
<1>2. PICK x \in Asked : /\ x.command = c.command /\ x.args = c.args /\ x.arg = c.arg
                         /\ pipe' = <<x>>
  BY Sends
<1>3. c.command \in Int /\ c.args \in ArgsKinds /\ createCommand(x) = createCommand(c)
      /\ (c.command = CREATE /\ c.args = "valid" => c.arg \in Files)
  BY <1>2, CommandsAssumption DEF createCommand, NeedsArgs
<1>4. FollowsWants
  BY <1>1 DEF FileInv, NonePending, Settled
<1>5. Awaits(createCommand(c))'
  <2>1. CASE createCommand(c) = {"CreateFile"}
    <3>1. "CreateFile" \in createCommand(c)
      BY <2>1
    <3>2. Wants' = c.arg /\ c.arg \in Files /\ Wants = NoFile
      BY <1>1, <1>3, <2>1, <3>1, CreateIsCreate, CreateNamesFile DEF WantsAfter
    <3> QED
      BY <1>1, <1>4, <2>1, <3>2, SocketServerAssumption DEF Awaits, FollowsWants
  <2>2. CASE createCommand(c) = {"StopTest"}
    BY <2>2 DEF Awaits
  <2>3. CASE createCommand(c) # {"CreateFile"} /\ createCommand(c) # {"StopTest"}
    <3>1. Wants' = Wants
      BY <1>1, <2>3 DEF WantsAfter
    <3>2. FollowsWants'
      BY <1>1, <1>4, <3>1 DEF FollowsWants
    <3> QED
      BY <2>3, <3>2 DEF Awaits
  <2> QED
    BY <2>1, <2>2, <2>3
<1>6. Len(<<x>>) = 1 /\ <<x>>[1] = x
  OBVIOUS
<1>7. (\A a \in 1..Len(pipe) : Awaits(createCommand(pipe[a])))'
  <2>1. \A a \in 1..1 : a = 1
    OBVIOUS
  <2>2. \A a \in 1..Len(pipe') : createCommand(pipe'[a]) = createCommand(c)
    BY <1>2, <1>3, <1>6, <2>1
  <2> QED
    BY <1>5, <2>2 DEF Awaits
<1> QED
  BY <1>1, <1>7 DEF Awaited, NonePublished, NoneDelivered

LEMMA ExecuteAwaits ==
  ASSUME Typed, OneCommand, Awaited, execute_command
  PROVE  Awaited' /\ (NonePending' => FollowsWants')
<1>1. IsReceived /\ BusTypes
  BY WhereMainIs DEF execute_command, Typed, DataInv
<1>2. /\ UNCHANGED <<pipe, client, wanted, file>> /\ message' = <<>>
  BY DEF execute_command, clientVars, fileVars
<1>3. 1 \in 1..Len(message) /\ Awaits(createCommand(message[1]))
  BY <1>1 DEF IsReceived, Awaited
<1>4. NoneInText'
  BY <1>1, <1>2 DEF IsReceived, NoneInText
<1>5. CASE UNCHANGED busVars /\ \A t \in CmdTopics : t \notin createCommand(message[1])
  <2>1. FollowsWants
    <3>1. createCommand(message[1]) # {"CreateFile"} /\ createCommand(message[1]) # {"StopTest"}
      BY <1>5 DEF CmdTopics
    <3> QED
      BY <1>3, <3>1 DEF Awaits
  <2>2. NonePending' /\ FollowsWants'
    BY <1>1, <1>2, <1>4, <1>5, <2>1, BusUnchanged, DueKept DEF IsReceived, NonePending
  <2>3. Awaited'
    BY <2>2, NoneAwaits DEF NonePending, Awaited, NoneInText, NonePublished, NoneDelivered
  <2> QED
    BY <2>2, <2>3
<1>6. ASSUME NEW t \in CmdTopics, NEW p \in PayloadsOf(t), Publish(t, p),
             createCommand(message[1]) = {t}, p.by = client
      PROVE  Awaited' /\ ~NonePending'
  <2> DEFINE n == Len(outbox)
  <2>1. Due(t, p)'
    <3>1. Due(t, p)
      BY <1>3, <1>6 DEF Due
    <3> QED
      BY <1>2, <3>1, DueKept
  <2>2. /\ n \in Nat /\ Len(outbox') = n + 1 /\ inbox' = inbox
        /\ \A a \in 1..n : outbox'[a] = outbox[a]
        /\ outbox'[n + 1] = [topic |-> t, data |-> p]
    <3>1. t \in Topics
      BY SocketServerAssumption DEF AllTopics
    <3> QED
      BY <1>1, <1>6, <3>1, PublishAppends
  <2>3. \A a \in 1..n : outbox[a].topic \notin CmdTopics
    BY <1>1 DEF IsReceived, NonePublished
  <2>4. outbox'[n + 1].topic = t /\ outbox'[n + 1].data = p
    BY <2>2
  <2> HIDE DEF n
  <2>5. \A a \in 1..(n + 1) : a \in 1..n \/ a = n + 1
    BY <2>2
  <2>6. (\A a \in 1..Len(outbox) :
           outbox[a].topic \in CmdTopics => Due(outbox[a].topic, outbox[a].data))'
    <3>1. \A a \in 1..Len(outbox') : outbox'[a].topic \in CmdTopics =>
            outbox'[a].topic = t /\ outbox'[a].data = p
      BY <2>2, <2>3, <2>4, <2>5
    <3> QED
      BY <2>1, <3>1 DEF Due, Awaits
  <2>7. \A u \in CmdTopics : inbox'[u] = <<>>
    BY <1>1, <2>2 DEF IsReceived, NoneDelivered
  <2>8. n + 1 \in 1..Len(outbox')
    BY <2>2
  <2>9. ~NonePending'
    BY <2>4, <2>8 DEF NonePending, NonePublished
  <2>10. \A u \in CmdTopics : Len(inbox'[u]) = 0
    BY <2>7
  <2>11. (\A u \in CmdTopics : \A a \in 1..Len(inbox[u]) : Due(u, inbox[u][a]))'
    BY <2>10
  <2>12. Len(pipe') = 0 /\ Len(message') = 0
    BY <1>4 DEF NoneInText
  <2> QED
    BY <2>6, <2>9, <2>11, <2>12 DEF Awaited
<1> QED
  BY <1>1, <1>5, <1>6, Executed

LEMMA ReceiveAwaits ==
  ASSUME Typed, OneCommand, Awaited, waiting_command
  PROVE  Awaited' /\ ~NonePending'
<1>1. CommandTypes /\ MessageInv
  BY DEF Typed, DataInv
<1>2. PICK k \in 1..Len(pipe) :
        /\ Len(message') = k /\ Len(pipe') = Len(pipe) - k
        /\ \A a \in 1..k : message'[a] = pipe[a]
        /\ \A a \in 1..(Len(pipe) - k) : pipe'[a] = pipe[k + a]
  BY <1>1, ReceiveKeepsTypes
<1>3. UNCHANGED <<file, wanted, client, outbox, inbox>>
  BY DEF waiting_command, fileVars, busVars
<1>4. (\A o : Awaits(o)' <=> Awaits(o)) /\ (\A t, p : Due(t, p)' <=> Due(t, p))
  BY <1>3, DueKept
<1>5. Len(pipe) \in Nat
  BY <1>1, LenProperties DEF CommandTypes
<1>6. (\A a \in 1..Len(message) : Awaits(createCommand(message[a])))'
  <2>1. \A a \in 1..k : Awaits(createCommand(message'[a]))
    BY <1>2, <1>5 DEF Awaited
  <2>2. \A a \in 1..Len(message') : Awaits(createCommand(message'[a]))
    BY <1>2, <2>1
  <2> QED
    BY <1>3, <2>2, DueKept DEF Awaits
<1>7. (\A a \in 1..Len(pipe) : Awaits(createCommand(pipe[a])))'
  <2>1. \A a \in 1..(Len(pipe) - k) : k + a \in 1..Len(pipe)
    BY <1>5
  <2>2. \A a \in 1..Len(pipe') : Awaits(createCommand(pipe'[a]))
    BY <1>2, <2>1 DEF Awaited
  <2> QED
    BY <1>3, <2>2, DueKept DEF Awaits
<1>8. (\A a \in 1..Len(outbox) :
         outbox[a].topic \in CmdTopics => Due(outbox[a].topic, outbox[a].data))'
  BY <1>3, DueKept DEF Awaited, Due, Awaits
<1>9. (\A t \in CmdTopics : \A a \in 1..Len(inbox[t]) : Due(t, inbox[t][a]))'
  BY <1>3, DueKept DEF Awaited, Due, Awaits
<1>10. message' # <<>>
  BY <1>2
<1> QED
  BY <1>6, <1>7, <1>8, <1>9, <1>10 DEF Awaited, NonePending, NoneInText

LEMMA TransmitAwaits ==
  ASSUME Typed, OneCommand, Awaited, TransmitStep
  PROVE  Awaited'
<1>1. BusTypes /\ UNCHANGED <<file, wanted, client, pipe, message>> /\ Transmit
  BY DEF TransmitStep, serverVars, clientVars, fileVars, Typed, DataInv
<1> DEFINE n == Len(outbox)
           m == outbox[1]
<1>2. /\ n \in Nat \ {0} /\ Len(outbox') = n - 1
      /\ m \in Posted
      /\ \A a \in 1..(n - 1) : outbox'[a] = outbox[a + 1]
      /\ inbox' = [inbox EXCEPT ![m.topic] = IF Len(@) < HighWater THEN Append(@, m.data) ELSE @]
  BY <1>1, TransmitMoves
<1>3. m.topic \in Topics /\ m.data \in Payloads
  BY <1>2 DEF Posted
<1>4. m.topic \in CmdTopics => Due(m.topic, m.data)
  <2>1. 1 \in 1..n
    BY <1>2
  <2> QED
    BY <2>1 DEF Awaited
<1>5. \A a \in 1..(n - 1) : a + 1 \in 1..n
  BY <1>2
<1>6. \A a \in 1..n : outbox[a].topic \in CmdTopics => Due(outbox[a].topic, outbox[a].data)
  BY DEF Awaited
<1>7. CmdTopics \subseteq Topics /\ inbox \in [Topics -> Seq(Payloads)]
  BY <1>1, SocketServerAssumption DEF BusTypes, AllTopics
<1> HIDE DEF n, m
<1>8. (\A a \in 1..Len(outbox) :
         outbox[a].topic \in CmdTopics => Due(outbox[a].topic, outbox[a].data))'
  <2>1. \A a \in 1..Len(outbox') :
          outbox'[a].topic \in CmdTopics => Due(outbox'[a].topic, outbox'[a].data)
    BY <1>2, <1>5, <1>6
  <2> QED
    BY <1>1, <2>1, DueKept DEF Due, Awaits
<1>9. (\A t \in CmdTopics : \A a \in 1..Len(inbox[t]) : Due(t, inbox[t][a]))'
  <2>1. ASSUME NEW t \in CmdTopics, NEW a \in 1..Len(inbox'[t]) PROVE Due(t, inbox'[t][a])
    <3>1. \A b \in 1..Len(inbox[t]) : Due(t, inbox[t][b])
      BY DEF Awaited
    <3>2. CASE inbox'[t] = inbox[t]
      BY <2>1, <3>1, <3>2
    <3>3. CASE inbox'[t] # inbox[t]
      <4>1. t = m.topic /\ inbox'[t] = Append(inbox[t], m.data)
        BY <1>2, <1>3, <1>7, <3>3
      <4>2. inbox[t] \in Seq(Payloads)
        BY <1>7
      <4>3. /\ Len(inbox'[t]) = Len(inbox[t]) + 1 /\ Len(inbox[t]) \in Nat
            /\ \A b \in 1..Len(inbox[t]) : inbox'[t][b] = inbox[t][b]
            /\ inbox'[t][Len(inbox[t]) + 1] = m.data
        BY <1>3, <4>1, <4>2, AppendProperties, LenProperties
      <4>4. PICK k \in Nat : k = Len(inbox[t])
        BY <4>3
      <4>5. a \in 1..k \/ a = k + 1
        BY <2>1, <4>3, <4>4
      <4> QED
        BY <1>4, <3>1, <4>1, <4>3, <4>4, <4>5
    <3> QED
      BY <3>2, <3>3
  <2> QED
    BY <1>1, <2>1, DueKept DEF Due, Awaits
<1>10. (\A a \in 1..Len(pipe) : Awaits(createCommand(pipe[a])))'
       /\ (\A a \in 1..Len(message) : Awaits(createCommand(message[a])))'
  BY <1>1, DueKept DEF Awaited, Awaits
<1> QED
  BY <1>8, <1>9, <1>10 DEF Awaited

LEMMA OthersAwait ==
  ASSUME Typed, OneCommand, Awaited, TrackerStep \/ zedStatus_callback \/ zedPosition_callback
  PROVE  Awaited'
<1>1. BusTypes /\ UNCHANGED <<file, wanted, client, pipe, message>>
  BY DEF TrackerStep, serverVars, clientVars, fileVars, zedStatus_callback, zedPosition_callback,
     Typed, DataInv
<1>2. (\A a \in 1..Len(pipe) : Awaits(createCommand(pipe[a])))'
      /\ (\A a \in 1..Len(message) : Awaits(createCommand(message[a])))'
  BY <1>1, DueKept DEF Awaited, Awaits
<1>3. (\A t \in CmdTopics : inbox'[t] = inbox[t])
  <2>1. CASE TrackerStep
    BY <2>1 DEF TrackerStep, TrackerNext, TestTracking, PublishPosition, PublishStatus,
       PublishStop, Publish, busVars
  <2>2. CASE zedStatus_callback \/ zedPosition_callback
    <3>1. inbox \in [Topics -> Seq(Payloads)] /\ CmdTopics \subseteq Topics
      BY <1>1, SocketServerAssumption DEF BusTypes, AllTopics
    <3> QED
      BY <2>2, <3>1 DEF zedStatus_callback, zedPosition_callback, Take, CmdTopics
  <2> QED
    BY <2>1, <2>2
<1>4. (\A t \in CmdTopics : \A a \in 1..Len(inbox[t]) : Due(t, inbox[t][a]))'
  BY <1>1, <1>3, DueKept DEF Awaited, Due, Awaits
<1>5. CASE outbox' = outbox
  <2>1. (\A a \in 1..Len(outbox) :
         outbox[a].topic \in CmdTopics => Due(outbox[a].topic, outbox[a].data))'
    BY <1>1, <1>5, DueKept DEF Awaited, Due, Awaits
  <2> QED
    BY <1>2, <1>4, <2>1 DEF Awaited
<1>6. ASSUME NEW t \in {"ZED_Position", "ZED_Status"}, NEW p \in PayloadsOf(t), Publish(t, p)
      PROVE  Awaited'
  <2> DEFINE n == Len(outbox)
  <2>1. t \in Topics /\ t \notin CmdTopics
    BY SocketServerAssumption DEF AllTopics, CmdTopics
  <2>2. /\ n \in Nat /\ Len(outbox') = n + 1
        /\ \A a \in 1..n : outbox'[a] = outbox[a]
        /\ outbox'[n + 1] = [topic |-> t, data |-> p]
    BY <1>1, <1>6, <2>1, PublishAppends
  <2>3. outbox'[n + 1].topic \notin CmdTopics
    BY <2>1, <2>2
  <2>4. \A a \in 1..n : outbox[a].topic \in CmdTopics => Due(outbox[a].topic, outbox[a].data)
    BY DEF Awaited
  <2> HIDE DEF n
  <2>5. \A a \in 1..(n + 1) : a \in 1..n \/ a = n + 1
    BY <2>2
  <2>6. \A a \in 1..Len(outbox') :
          outbox'[a].topic \in CmdTopics => Due(outbox'[a].topic, outbox'[a].data)
    BY <2>2, <2>3, <2>4, <2>5
  <2>7. (\A a \in 1..Len(outbox) :
         outbox[a].topic \in CmdTopics => Due(outbox[a].topic, outbox[a].data))'
    BY <1>1, <2>6, DueKept DEF Due, Awaits
  <2> QED
    BY <1>2, <1>4, <2>7 DEF Awaited
<1>7. CASE TrackerStep
  <2>1. ResetTypes /\ DataInv
    BY DEF Typed, ResetInv
  <2> QED
    BY <1>5, <1>6, <1>7, <2>1, TrackerPublishes DEF busVars
<1> QED
  BY <1>5, <1>7 DEF zedStatus_callback, zedPosition_callback, Take

LEMMA PendingKept ==
  ASSUME Typed, OneCommand,
         TrackerStep \/ TransmitStep \/ zedStatus_callback \/ zedPosition_callback
  PROVE  NonePending' => NonePending
<1> SUFFICES ASSUME ~NonePending PROVE ~NonePending'
  OBVIOUS
<1>1. BusTypes /\ ResetTypes /\ DataInv /\ UNCHANGED <<pipe, message>>
  BY DEF TrackerStep, TransmitStep, serverVars, clientVars, zedStatus_callback,
     zedPosition_callback, Typed, DataInv, ResetInv
<1>2. CASE ~NoneInText
  BY <1>1, <1>2 DEF NonePending, NoneInText
<1>3. CASE IsPublished /\ TransmitStep
  <2>1. \/ OnePublished' /\ NoneDelivered'
        \/ NonePublished' /\ \E t \in CmdTopics : OnlyDelivered(t)'
    BY <1>1, <1>3, CommandTransmitted DEF IsPublished, TransmitStep
  <2>2. (\E t \in CmdTopics : OnlyDelivered(t)') => ~NoneDelivered'
    <3> SUFFICES ASSUME NEW t \in CmdTopics, OnlyDelivered(t)' PROVE inbox'[t] # <<>>
      BY DEF NoneDelivered
    <3> QED
      BY DEF OnlyDelivered
  <2> QED
    BY <2>1, <2>2 DEF NonePending, OnePublished, OnlyPublished, NonePublished
<1>4. CASE IsPublished /\ ~TransmitStep
  <2>1. OnePublished'
    <3>1. CASE UNCHANGED outbox
      BY <1>4, <3>1 DEF IsPublished, OnePublished, OnlyPublished
    <3>2. ASSUME NEW t \in {"ZED_Position", "ZED_Status"}, NEW p \in PayloadsOf(t), Publish(t, p)
          PROVE  OnePublished'
      <4>1. t \in Topics \ CmdTopics
        BY SocketServerAssumption DEF AllTopics, CmdTopics
      <4> QED
        BY <1>1, <1>4, <3>2, <4>1, OtherPublished DEF IsPublished
    <3>3. CASE TrackerStep
      BY <1>1, <3>1, <3>2, <3>3, TrackerPublishes DEF busVars
    <3> QED
      BY <1>4, <3>1, <3>3 DEF zedStatus_callback, zedPosition_callback, Take
  <2> QED
    BY <2>1 DEF NonePending, OnePublished, OnlyPublished, NonePublished
<1>5. CASE IsDelivered
  <2>1. PICK t \in CmdTopics : OnlyDelivered(t)
    BY <1>5 DEF IsDelivered
  <2>2. inbox'[t] = inbox[t]
    <3>1. CASE TransmitStep
      BY <1>1, <1>5, <3>1, OtherTransmitted DEF IsDelivered, TransmitStep
    <3>2. CASE TrackerStep
      BY <3>2 DEF TrackerStep, TrackerNext, TestTracking, PublishPosition, PublishStatus,
         PublishStop, Publish, busVars
    <3>3. CASE zedStatus_callback \/ zedPosition_callback
      <4>1. inbox \in [Topics -> Seq(Payloads)] /\ CmdTopics \subseteq Topics
        BY <1>1, SocketServerAssumption DEF BusTypes, AllTopics
      <4> QED
        BY <3>3, <4>1 DEF zedStatus_callback, zedPosition_callback, Take, CmdTopics
    <3> QED
      BY <3>1, <3>2, <3>3
  <2>3. inbox[t] # <<>>
    BY <2>1 DEF OnlyDelivered
  <2> QED
    BY <2>2, <2>3 DEF NonePending, NoneDelivered
<1> QED
  BY <1>2, <1>3, <1>4, <1>5 DEF OneCommand, Settled, Cleaning, IsSent, IsReceived, IsHandled,
     NonePending, NoneInText

(* Steps that see neither the command nor the session.                     *)
LEMMA SessionUnseen ==
  ASSUME Awaited, UNCHANGED <<pipe, message, outbox, inbox, file, wanted, client>>
  PROVE  Awaited' /\ (NonePending' <=> NonePending) /\ (FollowsWants' <=> FollowsWants)
         /\ Wants' = Wants
<1>1. Awaited'
  BY DueKept DEF Awaited, Due, Awaits
<1>2. NonePending' <=> NonePending
  BY DEF NonePending, NoneInText, NonePublished, NoneDelivered
<1> QED
  BY <1>1, <1>2, DueKept

LEMMA AwaitedStep ==
  ASSUME ClientKind = "orderly", Typed, OneCommand, FileInv, Awaited, [Next]_vars
  PROVE  Awaited'
<1>1. BusTypes
  BY DEF Typed, DataInv
<1>2. CASE \E c \in Commands : Send(c)
  BY <1>2, SendAwaits
<1>3. CASE waiting_command
  BY <1>3, ReceiveAwaits
<1>4. CASE execute_command
  BY <1>4, ExecuteAwaits
<1>5. CASE TransmitStep
  BY <1>5, TransmitAwaits
<1>6. CASE TrackerStep \/ zedStatus_callback \/ zedPosition_callback
  BY <1>6, OthersAwait
<1>7. CASE AcceptStep \/ waiting_command_failed
  <2>1. Settled /\ UNCHANGED busVars /\ pipe' = <<>> /\ message' = message
    BY <1>7, WhereMainIs DEF AcceptStep, waiting_connection, waiting_connection_failed,
       waiting_connection_again, waiting_command_failed, clientVars, Settled, NoneInText
  <2>2. NonePending'
    BY <2>1, BusUnchanged DEF Settled, NonePending, NoneInText
  <2> QED
    BY <2>2, NoneAwaits DEF NonePending, Awaited, NoneInText, NonePublished, NoneDelivered
<1>8. CASE createFile_callback \/ stop_callback \/ probe_callback \/ getInfo_callback
  <2>1. PICK t \in CmdTopics : Take(t)
    BY <1>8 DEF createFile_callback, stop_callback, probe_callback, getInfo_callback, CmdTopics
  <2>2. UNCHANGED <<pipe, message>>
    BY <1>8 DEF createFile_callback, stop_callback, probe_callback, getInfo_callback, clientVars
  <2>3. NonePending'
    BY <1>1, <2>1, <2>2, CommandTaken DEF IsDelivered, NonePending, NoneInText
  <2> QED
    BY <2>3, NoneAwaits DEF NonePending, Awaited, NoneInText, NonePublished, NoneDelivered
<1>9. CASE \/ Disconnect \/ createFile_throws \/ ConstructTracker \/ ProbePosition
           \/ UNCHANGED vars \/ \E th \in {"main", "CreateFile", "StopTest"} : Reset(th)
  <2>1. UNCHANGED <<pipe, message, outbox, inbox, file, wanted, client>>
    BY <1>9 DEF Disconnect, createFile_throws, ConstructTracker, ProbePosition, vars, Reset,
       ResetLoad, ResetStore, DeleteTracker, JoinAndFree, zed_setZeroStatus,
       zed_setZeroPosition, clientVars, fileVars, busVars
  <2> QED
    BY <2>1, SessionUnseen
<1> QED
  BY <1>2, <1>3, <1>4, <1>5, <1>6, <1>7, <1>8, <1>9
     DEF Next, MainStep, MainWorks, AcceptStep, CreateStep, StopStep, ProbeStep

LEMMA FileInvStep ==
  ASSUME ClientKind = "orderly", Typed, OneCommand, FileInv, Awaited, [Next]_vars
  PROVE  FileInv'
<1>1. BusTypes /\ pc \in [Threads -> Steps] /\ ResetTypes /\ ActorTypes
  BY DEF Typed, DataInv, ResetInv, ResetTypes
<1>2. {"main", "CreateFile", "StopTest", "Probe"} = Threads /\ Resetters = {"main", "StopTest"}
  BY DEF Threads, Resetters
<1>3. ASSUME UNCHANGED <<pc, file, wanted, client>>, NonePending' => FollowsWants'
      PROVE  FileInv'
  BY <1>3, DueKept DEF FileInv
<1>4. ASSUME NEW c \in Commands, Send(c) PROVE FileInv'
  <2>1. Settled /\ wanted' # <<>> /\ wanted'[Len(wanted')].by = client
        /\ UNCHANGED <<pc, file, client>>
    BY <1>4, Sends
  <2>2. ~NonePending'
    <3>1. PICK x \in Asked : pipe' = <<x>>
      BY <1>4, Sends
    <3> QED
      BY <3>1 DEF NonePending, NoneInText
  <2>3. pc["CreateFile"] = "idle"
    BY <1>2, <2>1 DEF Settled, NoneHandled, Callbacks
  <2>4. client' <= client'
    BY <1>1, <2>1 DEF ActorTypes
  <2> QED
    BY <2>1, <2>2, <2>3, <2>4 DEF FileInv
<1>5. CASE AcceptStep
  <2>1. /\ pc["main"] = "accept" /\ (client' = client + 1 \/ client' = client)
        /\ UNCHANGED <<wanted, file>>
        /\ pc' = [pc EXCEPT !["main"] = "recv"] \/ pc' = pc
    BY <1>5 DEF AcceptStep, waiting_connection, waiting_connection_failed,
       waiting_connection_again, clientVars, Go, fileVars
  <2>2. Settled /\ file = NoFile
    BY <2>1, WhereMainIs DEF FileInv
  <2>3. /\ pc'["CreateFile"] = "idle" /\ pc'["StopTest"] = "idle"
        /\ pc'["main"] \in {"recv", "accept"}
    BY <1>1, <1>2, <2>1, <2>2 DEF Settled, NoneHandled, Callbacks
  <2>4. ASSUME wanted' # <<>> PROVE wanted'[Len(wanted')].by <= client'
    <3>1. wanted[Len(wanted)].by <= client /\ wanted[Len(wanted)].by \in 0..MaxClients
      <4>1. wanted[Len(wanted)] \in [by : 0..MaxClients, file : Files \cup {NoFile}]
        <5>1. /\ wanted \in Seq([by : 0..MaxClients, file : Files \cup {NoFile}])
              /\ Len(wanted) \in 1..Len(wanted)
          BY <2>1, <2>4, LenProperties, EmptySeq DEF Typed, DataInv, CommandTypes
        <5> QED
          BY <5>1, ElementOfSeq, Zenon
      <4> QED
        BY <2>1, <2>4, <4>1 DEF FileInv
    <3> QED
      BY <1>1, <2>1, <3>1, SocketServerAssumption DEF ActorTypes
  <2> QED
    BY <1>2, <2>1, <2>2, <2>3, <2>4 DEF FileInv, FollowsWants, ResetSteps
<1>6. CASE waiting_command
  <2>1. ~NonePending' /\ UNCHANGED <<file, wanted, client>> /\ pc["main"] = "recv"
        /\ pc' = [pc EXCEPT !["main"] = "execute"]
    BY <1>6, ReceiveAwaits DEF waiting_command, fileVars, Go
  <2> QED
    BY <1>1, <1>2, <2>1, DueKept DEF FileInv, ResetSteps
<1>7. CASE waiting_command_failed
  <2>1. /\ file' = NoFile /\ UNCHANGED <<wanted, client>> /\ pc["main"] = "recv" /\ ~connected
        /\ pc' = [pc EXCEPT !["main"] = "load"]
    BY <1>7 DEF waiting_command_failed, fileVars, Go
  <2>2. pc'["CreateFile"] = "idle"
    BY <1>1, <1>2, <2>1, WhereMainIs DEF Settled, NoneHandled, Callbacks
  <2> QED
    BY <2>1, <2>2 DEF FileInv, FollowsWants
<1>8. CASE execute_command
  <2>1. /\ NonePending' => FollowsWants' 
        /\ UNCHANGED <<file, wanted, client>> /\ pc' = [pc EXCEPT !["main"] = "recv"]
    BY <1>8, ExecuteAwaits DEF execute_command, fileVars, clientVars, Go
  <2> QED
    BY <1>1, <1>2, <2>1, DueKept DEF FileInv, ResetSteps
<1>9. CASE TrackerStep \/ TransmitStep \/ zedStatus_callback \/ zedPosition_callback
  <2>1. UNCHANGED <<pc, file, wanted, client>>
    BY <1>9 DEF TrackerStep, TransmitStep, serverVars, clientVars, fileVars, zedStatus_callback,
       zedPosition_callback
  <2> QED
    BY <1>3, <1>9, <2>1, PendingKept, DueKept DEF FileInv
<1>10. CASE createFile_callback
  <2>1. Take("CreateFile") /\ "CreateFile" \in CmdTopics /\ UNCHANGED <<wanted, client>>
    BY <1>10 DEF createFile_callback, clientVars, CmdTopics
  <2>2. IsDelivered /\ Len(inbox["CreateFile"]) = 1
    BY <1>1, <2>1, CommandTaken
  <2>3. Wants # NoFile /\ Wants' = Wants
    <3>1. Due("CreateFile", inbox["CreateFile"][1])
      BY <2>1, <2>2 DEF Awaited
    <3> QED
      BY <2>1, <3>1 DEF Due, Awaits, Wants
  <2>4. pc["main"] = "recv" /\ NoneHandled
    BY <2>2 DEF IsDelivered, Listening
  <2>5. /\ file' # NoFile
        /\ pc' = [pc EXCEPT !["CreateFile"] = IF Deployment THEN "construct" ELSE "idle"]
    <3>1. Head(inbox["CreateFile"]).arg \in Files
      BY <1>1, <1>2, <2>1, TakeKeeps, SocketServerAssumption DEF PayloadsOf, AllTopics
    <3> QED
      BY <1>10, <3>1, SocketServerAssumption DEF createFile_callback, Go
  <2>6. /\ pc'["main"] = "recv" /\ pc'["StopTest"] = "idle"
        /\ pc'["CreateFile"] # "idle" => file' # NoFile /\ Deployment
    BY <1>1, <1>2, <2>4, <2>5 DEF NoneHandled, Callbacks
  <2> QED
    BY <1>2, <2>1, <2>3, <2>6 DEF FileInv, FollowsWants, ResetSteps
<1>11. CASE stop_callback
  <2>1. Take("StopTest") /\ "StopTest" \in CmdTopics /\ UNCHANGED <<wanted, client>>
        /\ file' = NoFile /\ pc' = [pc EXCEPT !["StopTest"] = "load"]
    BY <1>11 DEF stop_callback, clientVars, CmdTopics, Go
  <2>2. IsDelivered
    BY <1>1, <2>1, CommandTaken
  <2>3. pc'["CreateFile"] = "idle"
    BY <1>1, <1>2, <2>1, <2>2 DEF IsDelivered, NoneHandled, Callbacks
  <2> QED
    BY <2>1, <2>3 DEF FileInv, FollowsWants
<1>12. CASE probe_callback \/ getInfo_callback
  <2>1. PICK t \in {"Probe", "GetInfo"} : Take(t)
    BY <1>12 DEF probe_callback, getInfo_callback
  <2>2. /\ t \in CmdTopics /\ UNCHANGED <<file, wanted, client>>
        /\ pc' \in {pc, [pc EXCEPT !["Probe"] = "position"]}
    BY <1>12 DEF probe_callback, getInfo_callback, clientVars, fileVars, CmdTopics, Go
  <2>3. IsDelivered /\ Len(inbox[t]) = 1
    BY <1>1, <2>1, <2>2, CommandTaken
  <2>4. FollowsWants
    <3>1. Due(t, inbox[t][1])
      BY <2>2, <2>3 DEF Awaited
    <3>2. {t} # {"CreateFile"} /\ {t} # {"StopTest"}
      OBVIOUS
    <3> QED
      BY <3>1, <3>2 DEF Due, Awaits
  <2>5. \A th \in {"main", "CreateFile", "StopTest"} : pc'[th] = pc[th]
    BY <1>1, <1>2, <2>2
  <2> QED
    BY <1>2, <2>2, <2>4, <2>5, DueKept DEF FileInv
<1>13. CASE Disconnect \/ createFile_throws \/ UNCHANGED vars
  <2>1. UNCHANGED <<pipe, message, outbox, inbox, file, wanted, client, pc>>
    BY <1>13 DEF Disconnect, createFile_throws, vars, clientVars, fileVars, busVars
  <2> QED
    BY <1>3, <2>1, SessionUnseen DEF FileInv
<1>14. CASE ConstructTracker \/ ProbePosition
  <2>1. /\ UNCHANGED <<pipe, message, outbox, inbox, file, wanted, client>>
        /\ \A th \in Resetters : pc'[th] = pc[th]
        /\ pc'["CreateFile"] # "idle" => pc["CreateFile"] # "idle"
    BY <1>1, <1>2, <1>14 DEF ConstructTracker, ProbePosition, clientVars, fileVars, busVars, Go
  <2> QED
    BY <1>2, <2>1, SessionUnseen DEF FileInv
<1>15. ASSUME NEW th \in {"main", "CreateFile", "StopTest"}, Reset(th) PROVE FileInv'
  <2>1. /\ UNCHANGED <<pipe, message, outbox, inbox, file, wanted, client>>
        /\ pc[th] \in ResetSteps
    BY <1>15 DEF Reset, ResetLoad, ResetStore, DeleteTracker, JoinAndFree, zed_setZeroStatus,
       zed_setZeroPosition, clientVars, fileVars, busVars, ResetSteps
  <2>2. \A o \in Threads \ {th} : pc'[o] = pc[o]
    BY <1>1, <1>15 DEF Reset, ResetLoad, ResetStore, DeleteTracker, JoinAndFree,
       zed_setZeroStatus, zed_setZeroPosition, Go
  <2>3. Wants' = Wants /\ (NonePending' => FollowsWants')
    BY <2>1, SessionUnseen DEF FileInv
  <2>4. th = "CreateFile" => pc["CreateFile"] # "idle"
    BY <2>1 DEF ResetSteps
  <2>5. \A o \in Resetters : pc'[o] \in ResetSteps => file' = NoFile
    BY <1>2, <2>1, <2>2 DEF FileInv
  <2>6. pc'["main"] = "accept" => file' = NoFile
    BY <1>2, <2>1, <2>2 DEF FileInv
  <2>7. pc'["CreateFile"] # "idle" => file' # NoFile /\ Wants' # NoFile /\ Deployment
    BY <1>2, <2>1, <2>2, <2>3, <2>4 DEF FileInv
  <2> QED
    BY <2>1, <2>3, <2>5, <2>6, <2>7 DEF FileInv
<1> QED
  BY <1>4, <1>5, <1>6, <1>7, <1>8, <1>9, <1>10, <1>11, <1>12, <1>13, <1>14, <1>15
     DEF Next, MainStep, MainWorks, AcceptStep, CreateStep, StopStep, ProbeStep

------------------------------------------------------------------------------
(* pt and the tracker                                                      *)

(* One thread resets at a time, and none while CREATE constructs.          *)
LEMMA OneResets ==
  ASSUME OneCommand
  PROVE  /\ pc["main"] \in ResetSteps => NoneHandled
         /\ \A th \in Callbacks : pc[th] # "idle" => OnlyHandled(th) /\ pc["main"] \notin ResetSteps
         /\ Settled \/ IsDelivered => NoneHandled /\ pc["main"] \notin ResetSteps
<1>1. pc["main"] \in ResetSteps => Cleaning
  BY DEF OneCommand, Settled, Cleaning, IsSent, IsReceived, IsPublished, IsDelivered, IsHandled,
     Listening, ResetSteps
<1>2. ASSUME NEW th \in Callbacks, pc[th] # "idle"
      PROVE  OnlyHandled(th) /\ pc["main"] \notin ResetSteps
  <2>1. IsHandled
    BY <1>2 DEF OneCommand, Settled, Cleaning, IsSent, IsReceived, IsPublished, IsDelivered,
       NoneHandled
  <2> QED
    BY <1>2, <2>1 DEF IsHandled, OnlyHandled, Listening, ResetSteps
<1>3. Settled \/ IsDelivered => NoneHandled /\ pc["main"] \notin ResetSteps
  BY DEF Settled, IsDelivered, Listening, ResetSteps
<1> QED
  BY <1>1, <1>2, <1>3 DEF Cleaning

(* Steps that neither reset nor construct, and see neither file nor pt.    *)
LEMMA TrackerKept ==
  ASSUME TrackerInv, UNCHANGED <<pt, old, file, generation, keepRunning>>,
         (trackerPc' = "none") <=> (trackerPc = "none"),
         pc'["CreateFile"] = pc["CreateFile"],
         \A th \in Resetters :
           \/ pc'[th] = pc[th]
           \/ pc[th] \notin ResetSteps /\ pc'[th] \notin ResetSteps
  PROVE  TrackerInv'
<1>1. (TrackerWithPt' <=> TrackerWithPt) /\ (Agreed' <=> Agreed)
  BY DEF TrackerWithPt, Agreed
<1>2. \A th \in Resetters : Resetting(th)'
  BY <1>1 DEF TrackerInv, Resetting, ResetSteps
<1> QED
  BY <1>1, <1>2 DEF TrackerInv

LEMMA ResetKeepsTracker ==
  ASSUME Typed, OneCommand, FileInv, TrackerInv, fault = "none",
         NEW th \in Resetters, Reset(th)
  PROVE  TrackerInv' /\ fault' = fault
<1>1. /\ pc \in [Threads -> Steps] /\ old \in [Threads -> Nat] /\ PtIsLive
      /\ pt \in Nat /\ generation \in Nat /\ Threads = {"main", "CreateFile", "StopTest", "Probe"}
      /\ Resetters = {"main", "StopTest"} /\ Callbacks = {"CreateFile", "StopTest", "Probe"}
  BY DEF Typed, ResetInv, ResetTypes, Threads, Resetters, Callbacks
<1>2. pc[th] \in ResetSteps
  BY DEF Reset, ResetLoad, ResetStore, DeleteTracker, JoinAndFree, zed_setZeroStatus,
     zed_setZeroPosition, ResetSteps
<1>3. /\ pc["CreateFile"] = "idle"
      /\ \A o \in Resetters \ {th} : pc[o] \notin ResetSteps
      /\ file = NoFile
  BY <1>1, <1>2, OneResets DEF NoneHandled, OnlyHandled, ResetSteps, FileInv
<1>4. Resetting(th)
  BY DEF TrackerInv
<1>5. file' = file
  BY DEF Reset, ResetLoad, ResetStore, DeleteTracker, JoinAndFree, zed_setZeroStatus,
     zed_setZeroPosition, fileVars
<1>6. ASSUME NEW s, pc' = [pc EXCEPT ![th] = s]
      PROVE  /\ pc'[th] = s /\ pc'["CreateFile"] = "idle"
             /\ \A o \in Resetters \ {th} : pc'[o] \notin ResetSteps
  BY <1>1, <1>3, <1>6
<1>7. ASSUME pc'["CreateFile"] = "idle", \A o \in Resetters \ {th} : pc'[o] \notin ResetSteps,
             Resetting(th)', pc'[th] \notin ResetSteps => Agreed'
      PROVE  TrackerInv'
  <2>1. \A o \in Resetters \ {th} : Resetting(o)'
    BY <1>7 DEF Resetting, ResetSteps
  <2> QED
    BY <1>7, <2>1 DEF TrackerInv
<1>8. AfterReset(th) = "zeroStatus"
  BY <1>1 DEF AfterReset
<1>9. CASE ResetLoad(th)
  <2>1. /\ pc[th] = "load" /\ pc' = [pc EXCEPT ![th] = "store"] /\ old'[th] = pt
        /\ UNCHANGED <<pt, trackerPc, fault>>
    BY <1>1, <1>9 DEF ResetLoad, Go, trackerVars
  <2>2. pc'[th] = "store" /\ Resetting(th)'
    BY <1>4, <1>6, <2>1 DEF Resetting, TrackerWithPt
  <2> QED
    BY <1>6, <1>7, <2>1, <2>2 DEF ResetSteps
<1>10. CASE ResetStore(th)
  <2>1. /\ pc[th] = "store" /\ pt' = 0 /\ UNCHANGED <<old, trackerPc, generation, keepRunning, fault>>
        /\ pc' = [pc EXCEPT ![th] = IF old[th] = 0 THEN "zeroStatus" ELSE "delete"]
    BY <1>1, <1>8, <1>10 DEF ResetStore, Go, trackerVars
  <2>2. old[th] = pt /\ TrackerWithPt
    BY <1>4, <2>1 DEF Resetting
  <2>3. CASE old[th] = 0
    <3>1. pc' = [pc EXCEPT ![th] = "zeroStatus"] /\ trackerPc' = "none"
      BY <2>1, <2>2, <2>3 DEF TrackerWithPt
    <3>2. pc'[th] = "zeroStatus" /\ Resetting(th)'
      BY <1>6, <2>1, <3>1 DEF Resetting
    <3> QED
      BY <1>6, <1>7, <2>1, <3>1, <3>2 DEF ResetSteps
  <2>4. CASE old[th] # 0
    <3>1. pc' = [pc EXCEPT ![th] = "delete"]
          /\ trackerPc' # "none" /\ old'[th] = generation' /\ keepRunning'
      BY <1>1, <2>1, <2>2, <2>4 DEF PtIsLive
    <3>2. pc'[th] = "delete" /\ Resetting(th)'
      BY <1>6, <2>1, <3>1 DEF Resetting
    <3> QED
      BY <1>6, <1>7, <2>1, <3>1, <3>2 DEF ResetSteps
  <2> QED
    BY <2>3, <2>4
<1>11. CASE DeleteTracker(th)
  <2>1. /\ pc[th] = "delete" /\ pc' = [pc EXCEPT ![th] = "join"] /\ pt' = pt
        /\ IF old[th] = generation /\ trackerPc # "none" /\ keepRunning
           THEN StopTracking /\ fault' = fault ELSE TRUE
    BY <1>11 DEF DeleteTracker, Go, ptVars
  <2>2. pt' = 0 /\ trackerPc' # "none" /\ fault' = fault
    BY <1>4, <2>1 DEF Resetting, StopTracking
  <2>3. pc'[th] = "join" /\ Resetting(th)'
    BY <1>6, <2>1, <2>2 DEF Resetting
  <2> QED
    BY <1>6, <1>7, <2>1, <2>2, <2>3 DEF ResetSteps
<1>12. CASE JoinAndFree(th)
  <2>1. /\ pc[th] = "join" /\ pc' = [pc EXCEPT ![th] = "zeroStatus"] /\ pt' = pt
        /\ trackerPc' = "none" /\ fault' = fault
    BY <1>8, <1>12 DEF JoinAndFree, JoinTracker, Go
  <2>2. pc'[th] = "zeroStatus" /\ Resetting(th)'
    BY <1>4, <1>6, <2>1 DEF Resetting
  <2> QED
    BY <1>6, <1>7, <2>1, <2>2 DEF ResetSteps
<1>13. CASE zed_setZeroStatus(th)
  <2>1. /\ pc[th] = "zeroStatus" /\ pc' = [pc EXCEPT ![th] = "zeroPosition"]
        /\ UNCHANGED <<pt, trackerPc, fault>>
    BY <1>13 DEF zed_setZeroStatus, Go, ptVars, trackerVars
  <2>2. pc'[th] = "zeroPosition" /\ Resetting(th)'
    BY <1>4, <1>6, <2>1 DEF Resetting
  <2> QED
    BY <1>6, <1>7, <2>1, <2>2 DEF ResetSteps
<1>14. CASE zed_setZeroPosition(th)
  <2>1. PICK s \in {"accept", "idle"} : pc' = [pc EXCEPT ![th] = s]
    BY <1>14 DEF zed_setZeroPosition, Go
  <2>2. pc[th] = "zeroPosition" /\ UNCHANGED <<pt, trackerPc, fault>>
    BY <1>14 DEF zed_setZeroPosition, ptVars, trackerVars
  <2>3. pc'[th] = s /\ Resetting(th)'
    BY <1>6, <2>1 DEF Resetting
  <2>4. Agreed'
    BY <1>3, <1>4, <1>5, <2>2 DEF Resetting, Agreed, TrackerWithPt
  <2> QED
    BY <1>6, <1>7, <2>1, <2>2, <2>3, <2>4
<1> QED
  BY <1>9, <1>10, <1>11, <1>12, <1>13, <1>14 DEF Reset

(* With no file open, every descriptor in use is a connection's.           *)
LEMMA FdsLeft ==
  ASSUME Typed, file = NoFile
  PROVE  FdLeft <=> client < SpareFds
BY DEF Typed, DataInv, ActorTypes, FdLeft, FdsUsed

(* A CREATE that is delivered finds the last session's file closed.        *)
LEMMA CreateFindsNone ==
  ASSUME BusTypes, Awaited, inbox["CreateFile"] # <<>>
  PROVE  file = NoFile
<1>1. "CreateFile" \in CmdTopics /\ 1 \in DOMAIN inbox["CreateFile"]
  <2>1. inbox["CreateFile"] \in Seq(Payloads)
    BY SocketServerAssumption DEF BusTypes, AllTopics, CmdTopics
  <2> QED
    BY <2>1, EmptySeq, LenProperties DEF CmdTopics
<1>2. Due("CreateFile", inbox["CreateFile"][1])
  BY <1>1 DEF Awaited
<1> QED
  BY <1>2 DEF Due, Awaits

LEMMA CreateKeepsTracker ==
  ASSUME ClientKind = "orderly", Typed, OneCommand, Awaited, FileInv, TrackerInv, fault = "none",
         createFile_callback \/ ConstructTracker \/ Reset("CreateFile")
  PROVE  /\ TrackerInv'
         /\ ~CameraMayFail => fault' = fault
<1>1. /\ pc \in [Threads -> Steps] /\ PtIsLive /\ Running /\ BusTypes
      /\ pc["CreateFile"] \in {"idle", "construct", "load", "store"}
      /\ Threads = {"main", "CreateFile", "StopTest", "Probe"}
      /\ Resetters = {"main", "StopTest"} /\ Callbacks = {"CreateFile", "StopTest", "Probe"}
  BY DEF Typed, DataInv, ResetInv, ResetTypes, Threads, Resetters, Callbacks
<1>2. ASSUME pc' = pc \/ (\E s : pc' = [pc EXCEPT !["CreateFile"] = s]),
             IsDelivered \/ pc["CreateFile"] # "idle",
             pc'["CreateFile"] = "construct" => pt' = 0 /\ trackerPc' = "none",
             pc'["CreateFile"] = "idle" => Agreed'
      PROVE  TrackerInv'
  <2>1. \A th \in Resetters : pc[th] \notin ResetSteps
    BY <1>1, <1>2, OneResets DEF NoneHandled, OnlyHandled, ResetSteps
  <2>2. \A th \in Resetters : pc'[th] \notin ResetSteps
    BY <1>1, <1>2, <2>1
  <2>3. \A th \in Resetters : Resetting(th)'
    BY <2>2 DEF Resetting, ResetSteps
  <2> QED
    BY <1>2, <2>3 DEF TrackerInv
<1>3. CASE createFile_callback
  <2>1. Take("CreateFile") /\ "CreateFile" \in CmdTopics /\ UNCHANGED <<pt, trackerPc>>
    BY <1>3 DEF createFile_callback, CmdTopics, ptVars, trackerVars
  <2>2. IsDelivered /\ Len(inbox["CreateFile"]) = 1
    BY <1>1, <2>1, CommandTaken
  <2>3. file = NoFile
    BY <1>3 DEF createFile_callback
  <2>4. Agreed /\ pc["CreateFile"] = "idle"
    BY <1>1, <2>2, OneResets DEF TrackerInv, NoneHandled, ResetSteps
  <2>5. pt' = 0 /\ trackerPc' = "none"
    BY <2>1, <2>3, <2>4 DEF Agreed, TrackerWithPt
  <2>6. /\ pc' = [pc EXCEPT !["CreateFile"] = IF Deployment THEN "construct" ELSE "idle"]
        /\ fault' = fault
    BY <1>3 DEF createFile_callback, Go
  <2>7. pc'["CreateFile"] = "idle" => Agreed'
    BY <1>1, <2>3, <2>5, <2>6, SocketServerAssumption DEF Agreed, TrackerWithPt
  <2>8. TrackerInv'
    BY <1>2, <2>2, <2>5, <2>6, <2>7
  <2> QED
    BY <2>6, <2>8
<1>4. CASE ConstructTracker
  <2>1. pc["CreateFile"] = "construct" /\ pt' = pt /\ pt = 0 /\ trackerPc = "none"
    BY <1>4 DEF ConstructTracker, TrackerInv, ptVars
  <2>2. \/ pc' = [pc EXCEPT !["CreateFile"] = "load"] /\ fault' = fault
        \/ pc' = pc /\ CameraMayFail /\ trackerPc' = trackerPc
    BY <1>4, <2>1 DEF ConstructTracker, Go, trackerVars
  <2>3. ASSUME pc' = [pc EXCEPT !["CreateFile"] = "load"] PROVE TrackerInv'
    <3>1. pc'["CreateFile"] = "load"
      BY <1>1, <2>3
    <3>2. pc' = pc \/ (\E s : pc' = [pc EXCEPT !["CreateFile"] = s])
      BY <2>3
    <3> QED
      BY <1>2, <2>1, <3>1, <3>2
  <2>4. ASSUME pc' = pc, trackerPc' = trackerPc PROVE TrackerInv'
    <3>1. pc'["CreateFile"] = "construct" /\ pt' = 0 /\ trackerPc' = "none"
      BY <2>1, <2>4
    <3> QED
      BY <1>2, <2>1, <2>4, <3>1
  <2>5. TrackerInv'
    BY <2>2, <2>3, <2>4
  <2> QED
    BY <2>1, <2>2, <2>5
<1>5. CASE Reset("CreateFile")
  <2>1. ResetLoad("CreateFile") \/ ResetStore("CreateFile")
    BY <1>1, <1>5 DEF Reset, DeleteTracker, JoinAndFree, zed_setZeroStatus, zed_setZeroPosition
  <2>2. fault' = fault /\ file' = file /\ pc["CreateFile"] \in {"load", "store"}
        /\ trackerPc' = trackerPc /\ generation' = generation
    BY <2>1 DEF ResetLoad, ResetStore, fileVars, trackerVars
  <2>3. CASE ResetLoad("CreateFile")
    <3>1. pc' = [pc EXCEPT !["CreateFile"] = "store"] /\ pc'["CreateFile"] = "store"
      BY <1>1, <2>3 DEF ResetLoad, Go
    <3>2. TrackerInv'
      BY <1>2, <2>2, <3>1
    <3> QED
      BY <2>2, <3>2
  <2>4. CASE ResetStore("CreateFile")
    <3>1. old["CreateFile"] = 0 /\ generation > 0 /\ trackerPc # "none" /\ generation \in Nat
      BY <1>1, <2>2 DEF Running, Creating, Typed, ResetInv, ResetTypes
    <3>2. pc' = [pc EXCEPT !["CreateFile"] = "idle"] /\ pt' = generation
      BY <2>4, <3>1 DEF ResetStore, AfterReset, Go
    <3>3. file # NoFile /\ Deployment
      BY <2>2 DEF FileInv
    <3>4. Agreed'
      BY <2>2, <3>1, <3>2, <3>3 DEF Agreed, TrackerWithPt
    <3>5. pc'["CreateFile"] = "idle"
      BY <1>1, <3>2
    <3>6. TrackerInv'
      BY <1>2, <2>2, <3>2, <3>4, <3>5
    <3> QED
      BY <2>2, <3>6
  <2> QED
    BY <2>1, <2>3, <2>4
<1> QED
  BY <1>3, <1>4, <1>5

LEMMA TrackerInvStep ==
  ASSUME ClientKind = "orderly", Typed, OneCommand, FileInv, Awaited, TrackerInv, [Next]_vars
  PROVE  TrackerInv'
<1>1. /\ BusTypes /\ pc \in [Threads -> Steps] /\ Resetters = {"main", "StopTest"}
      /\ Threads = {"main", "CreateFile", "StopTest", "Probe"}
      /\ Callbacks = {"CreateFile", "StopTest", "Probe"}
  BY DEF Typed, DataInv, ResetInv, ResetTypes, Threads, Resetters, Callbacks
<1>2. ASSUME Settled \/ IsDelivered
      PROVE  /\ Agreed /\ pc["CreateFile"] = "idle"
             /\ \A th \in Resetters : pc[th] \notin ResetSteps
  BY <1>1, <1>2, OneResets DEF NoneHandled, ResetSteps, TrackerInv
<1>3. CASE fault = "none" /\ (createFile_callback \/ ConstructTracker \/ Reset("CreateFile"))
  BY <1>3, CreateKeepsTracker
<1>4. CASE fault = "none" /\ \E th \in Resetters : Reset(th)
  BY <1>4, ResetKeepsTracker
<1>5. ASSUME NEW th \in Resetters, Settled \/ IsDelivered, file' = NoFile,
             pc' = [pc EXCEPT ![th] = "load"], UNCHANGED <<pt, trackerPc>>
      PROVE  TrackerInv'
  <2>1. TrackerWithPt'
    BY <1>2, <1>5 DEF Agreed, TrackerWithPt
  <2>2. pc'[th] = "load" /\ pc'["CreateFile"] = "idle"
        /\ \A o \in Resetters \ {th} : pc'[o] \notin ResetSteps
    BY <1>1, <1>2, <1>5
  <2>3. \A o \in Resetters : Resetting(o)'
    BY <2>1, <2>2 DEF Resetting, ResetSteps
  <2> QED
    BY <2>2, <2>3 DEF TrackerInv, ResetSteps
<1>6. CASE waiting_command_failed
  <2>1. /\ pc["main"] = "recv" /\ ~connected /\ file' = NoFile
        /\ pc' = [pc EXCEPT !["main"] = "load"] /\ UNCHANGED <<pt, trackerPc>>
    BY <1>6 DEF waiting_command_failed, Go, ptVars, trackerVars
  <2> QED
    BY <1>1, <1>5, <2>1, WhereMainIs
<1>7. CASE stop_callback
  <2>1. /\ Take("StopTest") /\ "StopTest" \in CmdTopics /\ file' = NoFile
        /\ pc' = [pc EXCEPT !["StopTest"] = "load"] /\ UNCHANGED <<pt, trackerPc>>
    BY <1>7 DEF stop_callback, Go, ptVars, trackerVars, CmdTopics
  <2>2. IsDelivered
    BY <1>1, <2>1, CommandTaken
  <2> QED
    BY <1>1, <1>5, <2>1, <2>2
<1>8. ASSUME UNCHANGED <<pt, old, file, generation, keepRunning>>,
             (trackerPc' = "none") <=> (trackerPc = "none"),
             \/ pc' = pc
             \/ pc["main"] \in {"accept", "recv", "execute"}
                /\ pc' \in {[pc EXCEPT !["main"] = "recv"], [pc EXCEPT !["main"] = "execute"]}
             \/ pc' \in {[pc EXCEPT !["Probe"] = "idle"], [pc EXCEPT !["Probe"] = "position"]}
      PROVE  TrackerInv'
  <2>1. /\ pc'["CreateFile"] = pc["CreateFile"]
        /\ \A th \in Resetters : \/ pc'[th] = pc[th]
                                 \/ pc[th] \notin ResetSteps /\ pc'[th] \notin ResetSteps
    BY <1>1, <1>8 DEF ResetSteps
  <2> QED
    BY <1>8, <2>1, TrackerKept
<1>9. CASE TrackerStep
  <2>1. /\ UNCHANGED <<pt, old, file, pc, generation, keepRunning>>
        /\ trackerPc # "none" /\ trackerPc' # "none"
    BY <1>9 DEF TrackerStep, serverVars, ptVars, fileVars, TrackerNext, TestTracking,
       PublishPosition, PublishStatus, PublishStop
  <2> QED
    BY <1>8, <2>1
<1>10. CASE \/ waiting_connection \/ waiting_connection_failed \/ waiting_command
            \/ execute_command \/ ProbeStep
  <2>1. /\ UNCHANGED <<pt, old, file, generation, keepRunning, trackerPc>>
        /\ \/ pc["main"] \in {"accept", "recv", "execute"}
              /\ pc' \in {[pc EXCEPT !["main"] = "recv"], [pc EXCEPT !["main"] = "execute"]}
           \/ pc' \in {[pc EXCEPT !["Probe"] = "idle"], [pc EXCEPT !["Probe"] = "position"]}
    BY <1>10 DEF waiting_connection, waiting_connection_failed, waiting_command,
       execute_command, ProbeStep, probe_callback, ProbePosition, Go, ptVars, fileVars,
       trackerVars
  <2> QED
    BY <1>8, <2>1
<1>11. CASE \/ (\E c \in Commands : Send(c)) \/ Disconnect \/ waiting_connection_again
            \/ createFile_throws \/ getInfo_callback \/ zedStatus_callback
            \/ zedPosition_callback \/ TransmitStep \/ UNCHANGED vars
  <2>1. UNCHANGED <<pt, old, file, generation, keepRunning, trackerPc, pc>>
    BY <1>11 DEF Send, Disconnect, createFile_throws, waiting_connection_again, getInfo_callback,
       zedStatus_callback, zedPosition_callback, TransmitStep, serverVars, vars, ptVars,
       fileVars, trackerVars
  <2> QED
    BY <1>8, <2>1
<1>12. CASE Next
  <2>1. fault = "none"
    BY <1>12 DEF Next
  <2>2. MainStep => \/ AcceptStep \/ waiting_command \/ waiting_command_failed
                    \/ execute_command \/ \E th \in Resetters : Reset(th)
    BY <1>1 DEF MainStep, MainWorks, AcceptStep
  <2>3. StopStep => stop_callback \/ \E th \in Resetters : Reset(th)
    BY <1>1 DEF StopStep
  <2> QED
    BY <1>3, <1>4, <1>6, <1>7, <1>9, <1>10, <1>11, <1>12, <2>1, <2>2, <2>3
     DEF Next, AcceptStep, CreateStep
<1> QED
  BY <1>11, <1>12

------------------------------------------------------------------------------
(* The rows and the replies                                                *)

(* No row is being written, and none is left without its end.              *)
LEMMA RowsWhole ==
  ASSUME RowInv, pc["Probe"] = "idle"
  PROVE  \A f \in Files : \A a \in 1..Len(disk[f]) :
           disk[f][a].data # NoField /\ disk[f][a].pos # NoField
BY DEF RowInv, Ending

LEMMA RowInvStep ==
  ASSUME ClientKind = "orderly", Typed, OneCommand, RowInv, [Next]_vars
  PROVE  RowInv'
<1>1. /\ BusTypes /\ StateTypes /\ pc \in [Threads -> Steps]
      /\ Threads = {"main", "CreateFile", "StopTest", "Probe"}
      /\ Callbacks = {"CreateFile", "StopTest", "Probe"}
  BY DEF Typed, DataInv, ResetInv, ResetTypes, Threads, Callbacks
<1>2. CASE probe_callback
  <2>1. /\ Take("Probe") /\ "Probe" \in CmdTopics /\ pc["Probe"] = "idle"
        /\ pc' = [pc EXCEPT !["Probe"] = "position"] /\ file' = file
    BY <1>2 DEF probe_callback, CmdTopics, Go
  <2> DEFINE row == [data |-> Head(inbox["Probe"]).n, pos |-> NoField]
  <2>2. row \in Rows /\ row.data # NoField /\ row.pos = NoField
    BY <1>1, <2>1, TakeKeeps, SocketServerAssumption
       DEF PayloadsOf, AllTopics, CmdTopics, Rows, NoField
  <2>3. disk' = IF file = NoFile THEN disk ELSE [disk EXCEPT ![file] = Append(@, row)]
    BY <1>2 DEF probe_callback
  <2> HIDE DEF row
  <2>4. pc'["Probe"] = "position"
    BY <1>1, <2>1
  <2>5. CASE file = NoFile
    BY <2>1, <2>3, <2>5, RowsWhole DEF RowInv
  <2>6. CASE file # NoFile
    <3>1. file \in Files /\ disk[file] \in Seq(Rows) /\ Len(disk[file]) \in Nat
      BY <1>1, <2>6, LenProperties DEF StateTypes
    <3> DEFINE n == Len(disk[file])
    <3>2. /\ Len(disk'[file]) = n + 1 /\ disk'[file][n + 1] = row
          /\ \A a \in 1..n : disk'[file][a] = disk[file][a]
          /\ \A f \in Files \ {file} : disk'[f] = disk[f]
          /\ disk'[file] # <<>>
      <4>1. disk'[file] = Append(disk[file], row) /\ \A f \in Files \ {file} : disk'[f] = disk[f]
        BY <1>1, <2>3, <2>6, <3>1 DEF StateTypes
      <4> QED
        BY <2>2, <3>1, <4>1, AppendProperties
    <3> HIDE DEF n
    <3>3. PICK k \in Nat : k = n + 1
      BY <3>1 DEF n
    <3>4. \A a \in 1..k : a \in 1..n \/ a = k
      BY <3>1, <3>3 DEF n
    <3>5. \A a \in 1..n : disk[file][a].data # NoField /\ disk[file][a].pos # NoField
      BY <2>1, <3>1, RowsWhole DEF n
    <3>6. EndsOpen(disk'[file])
      BY <2>2, <3>2, <3>3 DEF EndsOpen
    <3>7. \A a \in 1..Len(disk'[file]) :
            disk'[file][a].data # NoField /\ (disk'[file][a].pos = NoField => Ending(file, a)')
      BY <2>1, <2>2, <2>4, <3>2, <3>3, <3>4, <3>5 DEF Ending
    <3>8. \A f \in Files \ {file} : \A a \in 1..Len(disk'[f]) :
            disk'[f][a].data # NoField /\ disk'[f][a].pos # NoField
      BY <2>1, <3>2, RowsWhole
    <3> QED
      BY <2>1, <3>6, <3>7, <3>8 DEF RowInv
  <2> QED
    BY <2>5, <2>6
<1>3. CASE ProbePosition
  <2>1. /\ pc["Probe"] = "position" /\ pc' = [pc EXCEPT !["Probe"] = "idle"] /\ file' = file
    BY <1>3 DEF ProbePosition, Go
  <2>2. pc'["Probe"] = "idle"
    BY <1>1, <2>1
  <2>3. CASE file = NoFile
    <3>1. disk' = disk
      BY <1>3, <2>3 DEF ProbePosition
    <3>2. \A f \in Files : \A a \in 1..Len(disk[f]) : disk[f][a].pos # NoField
      BY <2>3, SocketServerAssumption DEF RowInv, Ending
    <3> QED
      BY <2>2, <3>1, <3>2 DEF RowInv
  <2>4. CASE file # NoFile
    <3>1. file \in Files /\ disk[file] \in Seq(Rows) /\ zed_pos # NoField /\ EndsOpen(disk[file])
      BY <1>1, <2>1, <2>4, SocketServerAssumption
         DEF StateTypes, RowInv, Positions, NoField, Zero, Unmeasured
    <3> DEFINE n == Len(disk[file])
    <3>2. n \in 1..n /\ disk[file][n] \in Rows
      <4>1. n \in 1..n
        BY <3>1, LenProperties, EmptySeq DEF EndsOpen
      <4> QED
        BY <3>1, <4>1, ElementOfSeq
    <3>3. disk' = [disk EXCEPT ![file] = [@ EXCEPT ![n].pos = zed_pos]]
      BY <1>3, <2>4, <3>1 DEF ProbePosition
    <3>4. /\ disk'[file] = [disk[file] EXCEPT ![n] = [disk[file][n] EXCEPT !.pos = zed_pos]]
          /\ \A f \in Files \ {file} : disk'[f] = disk[f]
      BY <1>1, <3>1, <3>3 DEF StateTypes
    <3>5. /\ Len(disk'[file]) = n
          /\ disk'[file][n].pos = zed_pos /\ disk'[file][n].data = disk[file][n].data
          /\ \A a \in 1..n : a # n => disk'[file][a] = disk[file][a]
      <4>1. [disk[file][n] EXCEPT !.pos = zed_pos] \in Rows
        BY <1>1, <3>2 DEF Rows, StateTypes
      <4>2. DOMAIN disk[file] = 1..n /\ n \in Nat
        BY <3>1, LenProperties
      <4>3. Len(disk'[file]) = n
        BY <3>1, <3>2, <3>4, <4>1, ExceptSeq
      <4>4. disk[file][n] \in [data : {NoField} \cup 1..MaxCommands, pos : {NoField} \cup Positions]
        BY <3>2 DEF Rows
      <4> HIDE DEF n
      <4> QED
        BY <3>2, <3>4, <4>2, <4>3, <4>4
    <3> HIDE DEF n
    <3>6. \A a \in 1..Len(disk'[file]) :
            disk'[file][a].data # NoField /\ disk'[file][a].pos # NoField
      BY <3>1, <3>2, <3>5 DEF RowInv, Ending, n
    <3>7. \A f \in Files \ {file} : \A a \in 1..Len(disk'[f]) :
            disk'[f][a].data # NoField /\ disk'[f][a].pos # NoField
      BY <3>4 DEF RowInv, Ending
    <3> QED
      BY <2>2, <3>6, <3>7 DEF RowInv
  <2> QED
    BY <2>3, <2>4
<1>4. ASSUME disk' = disk, pc["Probe"] = "idle", pc'["Probe"] = "idle"
      PROVE  RowInv'
  BY <1>4, RowsWhole DEF RowInv
<1>5. CASE createFile_callback \/ stop_callback
  <2>1. \E t \in CmdTopics : Take(t)
    BY <1>5 DEF createFile_callback, stop_callback, CmdTopics
  <2>2. IsDelivered
    BY <1>1, <2>1, CommandTaken
  <2>3. disk' = disk /\ pc["Probe"] = "idle" /\ pc'["Probe"] = pc["Probe"]
    BY <1>1, <1>5, <2>2 DEF IsDelivered, NoneHandled, createFile_callback, stop_callback, Go
  <2> QED
    BY <1>4, <2>3
<1>6. CASE waiting_command_failed
  <2>1. /\ pc["main"] = "recv" /\ ~connected /\ disk' = disk
        /\ pc' = [pc EXCEPT !["main"] = "load"]
    BY <1>6 DEF waiting_command_failed, Go
  <2>2. pc["Probe"] = "idle" /\ pc'["Probe"] = "idle"
    BY <1>1, <2>1, WhereMainIs DEF Settled, NoneHandled
  <2> QED
    BY <1>4, <2>1, <2>2
<1>7. ASSUME UNCHANGED <<disk, file>>, pc'["Probe"] = pc["Probe"]
      PROVE  RowInv'
  BY <1>7 DEF RowInv, Ending
<1>8. CASE \/ AcceptStep \/ waiting_command \/ execute_command \/ ConstructTracker
           \/ \E th \in {"main", "CreateFile", "StopTest"} : Reset(th)
  <2>1. UNCHANGED <<disk, file>> /\ pc'["Probe"] = pc["Probe"]
    BY <1>1, <1>8 DEF AcceptStep, waiting_connection, waiting_connection_failed,
       waiting_connection_again, waiting_command, execute_command, ConstructTracker, Reset,
       ResetLoad, ResetStore, DeleteTracker, JoinAndFree, zed_setZeroStatus,
       zed_setZeroPosition, Go, fileVars
  <2> QED
    BY <1>7, <2>1
<1>9. CASE \/ (\E c \in Commands : Send(c)) \/ Disconnect \/ createFile_throws
           \/ getInfo_callback \/ TrackerStep \/ zedStatus_callback \/ zedPosition_callback
           \/ TransmitStep \/ UNCHANGED vars
  <2>1. UNCHANGED <<disk, file, pc>>
    BY <1>9 DEF Send, Disconnect, createFile_throws, getInfo_callback, zedStatus_callback,
       zedPosition_callback, TransmitStep, TrackerStep, serverVars, vars, fileVars
  <2> QED
    BY <1>7, <2>1
<1> QED
  BY <1>2, <1>3, <1>5, <1>6, <1>8, <1>9 DEF Next, MainStep, MainWorks, AcceptStep, CreateStep,
     StopStep, ProbeStep

LEMMA ReplyInvStep ==
  ASSUME ClientKind = "orderly", Typed, OneCommand, Awaited, ReplyInv, [Next]_vars
  PROVE  ReplyInv'
<1>1. CASE getInfo_callback
  <2> DEFINE r == [to |-> client, asked |-> Head(inbox["GetInfo"]).by,
                   status |-> zed_status, pos |-> zed_pos]
  <2>1. BusTypes /\ ActorTypes /\ StateTypes /\ Take("GetInfo") /\ "GetInfo" \in CmdTopics
    BY <1>1 DEF getInfo_callback, CmdTopics, Typed, DataInv
  <2>2. Len(inbox["GetInfo"]) = 1
    BY <2>1, CommandTaken
  <2>3. Head(inbox["GetInfo"]).by = client
    <3>1. Due("GetInfo", inbox["GetInfo"][1])
      BY <2>1, <2>2 DEF Awaited
    <3> QED
      BY <3>1 DEF Due
  <2>4. r \in {x \in [to : 0..MaxClients, asked : 0..MaxClients, status : Statuses,
                      pos : Positions] : x.to = x.asked}
    BY <2>1, <2>3 DEF ActorTypes, StateTypes
  <2>5. replies' = replies \/ replies' = Append(replies, r)
    BY <1>1 DEF getInfo_callback
  <2> HIDE DEF r
  <2> QED
    BY <2>4, <2>5, AppendProperties DEF ReplyInv
<1>2. CASE replies' = replies
  BY <1>2 DEF ReplyInv
<1> QED
  BY <1>1, <1>2 DEF Next, Send, Disconnect, MainStep, MainWorks, AcceptStep,
     waiting_connection, waiting_connection_failed, waiting_connection_again, waiting_command,
     waiting_command_failed, execute_command, Reset, ResetLoad, ResetStore, DeleteTracker,
     JoinAndFree, zed_setZeroStatus, zed_setZeroPosition, CreateStep, createFile_callback,
     createFile_throws, ConstructTracker, StopStep, stop_callback, ProbeStep, probe_callback,
     ProbePosition,
     zedStatus_callback, zedPosition_callback, TrackerStep, TransmitStep, serverVars, vars

SessionInv == OneCommand /\ Awaited /\ FileInv /\ TrackerInv /\ RowInv /\ ReplyInv

LEMMA SessionInvInit == Init => SessionInv
<1> SUFFICES ASSUME Init PROVE SessionInv
  OBVIOUS
<1>1. /\ pc["main"] = "accept" /\ pc["CreateFile"] = "idle" /\ pc["Probe"] = "idle"
      /\ pc["StopTest"] = "idle" /\ wanted = <<>> /\ file = NoFile /\ pt = 0
      /\ trackerPc = "none" /\ disk = [f \in Files |-> <<>>] /\ replies = <<>>
      /\ pipe = <<>> /\ message = <<>> /\ outbox = <<>> /\ \A t \in CmdTopics : inbox[t] = <<>>
  BY SocketServerAssumption DEF Init, Threads, TrackerInit, BusInit, AllTopics
<1>2. OneCommand /\ Awaited
  <2>1. NonePending
    BY <1>1 DEF NonePending, NoneInText, NonePublished, NoneDelivered
  <2> QED
    BY <2>1, OneCommandInit, NoneAwaits
<1>3. FileInv
  BY <1>1 DEF FileInv, FollowsWants, Resetters, ResetSteps
<1>4. TrackerInv
  BY <1>1 DEF TrackerInv, Agreed, TrackerWithPt, Resetting, Resetters
<1>5. RowInv
  BY <1>1 DEF RowInv
<1>6. ReplyInv
  BY <1>1 DEF ReplyInv
<1> QED
  BY <1>2, <1>3, <1>4, <1>5, <1>6 DEF SessionInv

LEMMA SessionInvHolds ==
  ASSUME ClientKind = "orderly" PROVE Spec => [](Typed /\ SessionInv)
<1>1. Typed /\ SessionInv /\ [Next]_vars => SessionInv'
  BY OneCommandStep, AwaitedStep, FileInvStep, TrackerInvStep, RowInvStep, ReplyInvStep
     DEF SessionInv
<1>2. ResetInv /\ MessageInv /\ DataInv => Typed
  BY DEF Typed
<1> QED
  BY <1>1, <1>2, SessionInvInit, ResetInvHolds, DataInvHolds, PTL DEF Spec

(* Between two commands of an orderly client the file, pt and the tracker  *)
(* agree, although main, the STOP callback and the CREATE callback each    *)
(* change two of the three in several steps: result_file, then pt.reset()  *)
(* or make_unique. When main is back in m_accept, the file is closed.      *)
THEOREM SessionStaysAgreed ==
  ASSUME ClientKind = "orderly" PROVE Spec => []SessionAgrees
<1>1. Typed /\ SessionInv => SessionAgrees
  <2> SUFFICES ASSUME Typed, SessionInv, Quiet PROVE Agreed /\ (pc["main"] = "accept" => file = NoFile)
    BY DEF SessionAgrees, Agreed, TrackerWithPt
  <2>1. pc["main"] \in {"accept", "recv"} /\ NoneHandled
    BY QuietIsSettled DEF Typed, DataInv
  <2>2. /\ pc["CreateFile"] = "idle" /\ pc["StopTest"] = "idle"
        /\ pc["main"] \in {"accept", "recv"}
    BY <2>1 DEF NoneHandled, Callbacks, Threads
  <2> QED
    BY <2>2 DEF SessionInv, TrackerInv, FileInv, Resetters, ResetSteps
<1> QED
  BY <1>1, SessionInvHolds, PTL

(* Between two commands every row has the data of its probe and its        *)
(* position, although the Probe callback writes them in two steps and main *)
(* and STOP close the stream it writes to.                                 *)
THEOREM RowsStayComplete ==
  ASSUME ClientKind = "orderly" PROVE Spec => []RowsComplete
<1>1. Typed /\ SessionInv => RowsComplete
  <2> SUFFICES ASSUME Typed, SessionInv, Quiet,
                      NEW f \in Files, NEW i \in DOMAIN disk[f]
               PROVE  disk[f][i].data # NoField /\ disk[f][i].pos # NoField
    BY DEF RowsComplete
  <2>1. pc["Probe"] = "idle"
    BY QuietIsSettled DEF Typed, DataInv, NoneHandled, Callbacks, Threads
  <2>2. i \in 1..Len(disk[f])
    <3>1. disk[f] \in Seq(Rows)
      BY DEF Typed, DataInv, StateTypes
    <3> QED
      BY <3>1, LenProperties
  <2> QED
    BY <2>1, <2>2, RowsWhole DEF SessionInv
<1> QED
  BY <1>1, SessionInvHolds, PTL

(* pack_infoData() answers on the connection main accepted last; with an   *)
(* orderly client that is the one GETINFO came from.                       *)
THEOREM RepliesReachAsker ==
  ASSUME ClientKind = "orderly" PROVE Spec => []ReplyToAsker
<1>1. Typed /\ SessionInv => ReplyToAsker
  <2> SUFFICES ASSUME SessionInv, NEW i \in DOMAIN replies
               PROVE  replies[i].to = replies[i].asked
    BY DEF ReplyToAsker
  <2>1. i \in 1..Len(replies)
    BY LenProperties DEF SessionInv, ReplyInv
  <2> QED
    BY <2>1, ElementOfSeq DEF SessionInv, ReplyInv
<1> QED
  BY <1>1, SessionInvHolds, PTL

------------------------------------------------------------------------------
(* Survival                                                                *)

(* Nothing outside the server fails.                                       *)
NothingFails == Unopenable = {} /\ ~CameraMayFail /\ ~SocketMayFail

(* The server stops listening only when each of the descriptors has gone   *)
(* to a connection.                                                        *)
FdsInv ==
  /\ client <= SpareFds
  /\ ~listening => client = SpareFds

LEMMA FdsInvStep ==
  ASSUME NothingFails, Typed, FileInv, FdsInv, [Next]_vars
  PROVE  FdsInv'
<1>1. client \in Nat /\ SpareFds \in Nat
  BY SocketServerAssumption DEF Typed, DataInv, ActorTypes
<1>2. pc["main"] = "accept" => (FdLeft <=> client < SpareFds)
  BY FdsLeft DEF FileInv
<1>3. CASE waiting_connection
  <2>1. client < SpareFds /\ client' = client + 1 /\ listening /\ listening' = listening
    BY <1>2, <1>3 DEF waiting_connection
  <2> QED
    BY <1>1, <2>1 DEF FdsInv
<1>4. CASE waiting_connection_failed
  <2>1. ~(client < SpareFds) /\ client' = client
    BY <1>2, <1>4 DEF waiting_connection_failed, NothingFails
  <2> QED
    BY <1>1, <2>1 DEF FdsInv
<1>5. CASE UNCHANGED <<client, listening>>
  BY <1>5 DEF FdsInv
<1> QED
  BY <1>3, <1>4, <1>5
     DEF Next, Send, Disconnect, MainStep, MainWorks, waiting_connection_again, waiting_command,
         waiting_command_failed, execute_command, Reset, ResetLoad, ResetStore, DeleteTracker,
         JoinAndFree, zed_setZeroStatus, zed_setZeroPosition, CreateStep, createFile_callback,
         createFile_throws, ConstructTracker, StopStep, stop_callback, ProbeStep,
         probe_callback, ProbePosition,
         getInfo_callback, zedStatus_callback, zedPosition_callback, TrackerStep, TransmitStep,
         serverVars, vars, clientVars

LEMMA SurvivesStep ==
  ASSUME ClientKind = "orderly", NothingFails, Typed, SessionInv, FdsInv, Survives, [Next]_vars
  PROVE  Survives'
<1>1. /\ BusTypes /\ OneCommand /\ FileInv /\ TrackerInv /\ Awaited
      /\ client \in Nat /\ SpareFds \in Nat
  BY SocketServerAssumption DEF Typed, DataInv, ActorTypes, SessionInv
<1>2. ASSUME fault = "none", fault' = fault PROVE Survives'
  BY <1>2 DEF Survives
<1>3. CASE fault = "none" /\ execute_command
  <2>1. fault' = fault \/ fault' = "bad_command"
    BY <1>3 DEF execute_command, Terminate
  <2> QED
    BY <1>3, <2>1 DEF Survives
<1>4. CASE fault = "none" /\ \E th \in Resetters : Reset(th)
  BY <1>1, <1>2, <1>4, ResetKeepsTracker
<1>5. CASE fault = "none" /\ CreateStep
  <2>1. CASE createFile_throws
    <3>1. ~(client < SpareFds) /\ client' = client /\ fault' = "create_failed"
      BY <1>1, <2>1, FdsLeft, CreateFindsNone
         DEF createFile_throws, Terminate, clientVars, NothingFails
    <3> QED
      BY <1>1, <3>1 DEF Survives, FdsInv
  <2>2. CASE createFile_callback \/ ConstructTracker \/ Reset("CreateFile")
    BY <1>1, <1>2, <1>5, <2>2, CreateKeepsTracker DEF NothingFails
  <2> QED
    BY <1>5, <2>1, <2>2 DEF CreateStep
<1>6. CASE fault = "none" /\ getInfo_callback
  <2>1. connected
    BY <1>1, <1>6, CommandTaken DEF getInfo_callback, CmdTopics, IsDelivered, Listening
  <2> QED
    BY <1>2, <1>6, <2>1 DEF getInfo_callback
<1>7. CASE waiting_connection_again
  BY <1>7 DEF waiting_connection_again, clientVars, FdsInv, Survives
<1>8. CASE UNCHANGED vars
  BY <1>8 DEF vars, clientVars, Survives
<1>9. CASE Next
  <2>1. MainStep => \/ waiting_connection \/ waiting_connection_failed
                    \/ waiting_connection_again \/ waiting_command \/ waiting_command_failed
                    \/ execute_command \/ \E th \in Resetters : Reset(th)
    BY DEF MainStep, MainWorks, Resetters
  <2>2. StopStep => stop_callback \/ \E th \in Resetters : Reset(th)
    BY DEF StopStep, Resetters
  <2> QED
    BY <1>2, <1>3, <1>4, <1>5, <1>6, <1>7, <1>9, <2>1, <2>2
       DEF Next, Send, Disconnect, waiting_connection, waiting_connection_failed,
           waiting_command, waiting_command_failed, stop_callback, ProbeStep, probe_callback,
           ProbePosition, zedStatus_callback, zedPosition_callback, TrackerStep, TransmitStep,
           serverVars
<1> QED
  BY <1>8, <1>9

(* An orderly client does not bring the server down by when it sends and   *)
(* leaves: no tracker is deleted twice, no CREATE finds the file open or   *)
(* the camera taken, no reply is written to a connection that is gone.     *)
(* While nothing outside the server fails, the process ends only by a      *)
(* command that ends it whoever sends it, or once every descriptor has     *)
(* gone to a connection, none of which the server closes.                  *)
THEOREM OrderlySurvives ==
  ASSUME ClientKind = "orderly", NothingFails
  PROVE  Spec => []Survives
<1>1. Init => FdsInv /\ Survives
  BY SocketServerAssumption DEF Init, NothingFails, FdsInv, Survives
<1>2. Typed /\ SessionInv /\ FdsInv /\ Survives /\ [Next]_vars => FdsInv' /\ Survives'
  BY FdsInvStep, SurvivesStep DEF SessionInv
<1> QED
  BY <1>1, <1>2, SessionInvHolds, PTL DEF Spec

------------------------------------------------------------------------------
(* The server implements Session                                           *)

(* The operations on their way, as functions of where they are.            *)
TextOp(c) ==
  IF createCommand(c) \subseteq CmdTopics
  THEN AsOp(CHOOSE t \in createCommand(c) : TRUE, c.arg, c.n) ELSE AsOp("none", "-", 0)
Cmds(q) == {i \in DOMAIN q : q[i].topic \in CmdTopics}
Nth(q, k) == CHOOSE i \in Cmds(q) : Cardinality({j \in Cmds(q) : j <= i}) = k
OutboxOps(q) ==
  [k \in 1..Cardinality(Cmds(q)) |->
     AsOp(q[Nth(q, k)].topic, q[Nth(q, k)].data.arg, q[Nth(q, k)].data.n)]
InboxOps(t, q) == [i \in DOMAIN q |-> AsOp(t, q[i].arg, q[i].n)]
OpsIn(p, m, o, i) ==
  InText(p) \o InText(m) \o OutboxOps(o) \o InboxOps("CreateFile", i["CreateFile"])
    \o InboxOps("Probe", i["Probe"]) \o InboxOps("StopTest", i["StopTest"])
    \o InboxOps("GetInfo", i["GetInfo"])
Pending == OpsIn(pipe, message, outbox, inbox)
RowData == [f \in Files |-> [i \in DOMAIN disk[f] |-> disk[f][i].data]]

LEMMA OpsInText ==
  /\ InText(<<>>) = <<>>
  /\ \A c : InText(<<c>>) = <<TextOp(c)>>
<1>1. ASSUME NEW c PROVE InText(<<c>>) = <<TextOp(c)>>
  <2> DEFINE x == TextOp(c)
  <2>1. InText(<<c>>) = [i \in DOMAIN <<c>> |-> TextOp(<<c>>[i])]
    BY DEF InText, TextOp
  <2>2. InText(<<c>>)[1] = x /\ InText(<<c>>) = [i \in 1..1 |-> InText(<<c>>)[i]]
    BY <2>1
  <2> HIDE DEF x
  <2>3. InText(<<c>>) = <<x>>
    BY <2>2
  <2> QED
    BY <2>3 DEF x
<1> QED
  BY <1>1 DEF InText

LEMMA OpsInInbox ==
  ASSUME NEW t
  PROVE  InboxOps(t, <<>>) = <<>> /\ \A p : InboxOps(t, <<p>>) = <<AsOp(t, p.arg, p.n)>>
BY DEF InboxOps

LEMMA OpsInOutbox ==
  ASSUME NEW q \in Seq(Posted)
  PROVE  /\ (\A a \in 1..Len(q) : q[a].topic \notin CmdTopics) => OutboxOps(q) = <<>>
         /\ \A a \in 1..Len(q) :
              /\ q[a].topic \in CmdTopics
              /\ \A b \in 1..Len(q) : b # a => q[b].topic \notin CmdTopics
              => OutboxOps(q) = <<AsOp(q[a].topic, q[a].data.arg, q[a].data.n)>>
<1>1. DOMAIN q = 1..Len(q) /\ Len(q) \in Nat
  BY LenProperties
<1>2. ASSUME \A a \in 1..Len(q) : q[a].topic \notin CmdTopics PROVE OutboxOps(q) = <<>>
  <2>1. Cmds(q) = {}
    BY <1>1, <1>2 DEF Cmds
  <2>2. Cardinality(Cmds(q)) = 0
    BY <2>1, FS_EmptySet
  <2> QED
    BY <2>2 DEF OutboxOps
<1>3. ASSUME NEW a \in 1..Len(q), q[a].topic \in CmdTopics,
             \A b \in 1..Len(q) : b # a => q[b].topic \notin CmdTopics
      PROVE  OutboxOps(q) = <<AsOp(q[a].topic, q[a].data.arg, q[a].data.n)>>
  <2>1. Cmds(q) = {a} /\ a \in Int
    BY <1>1, <1>3 DEF Cmds
  <2>2. Cardinality({a}) = 1
    BY FS_Singleton
  <2>3. \A i \in Cmds(q) : {j \in Cmds(q) : j <= i} = {a}
    BY <2>1
  <2>4. Nth(q, 1) = a
    BY <2>1, <2>2, <2>3 DEF Nth
  <2>5. Cardinality(Cmds(q)) = 1
    BY <2>1, <2>2
  <2> DEFINE o == AsOp(q[a].topic, q[a].data.arg, q[a].data.n)
  <2>6. OutboxOps(q)[1] = o /\ OutboxOps(q) = [k \in 1..1 |-> OutboxOps(q)[k]]
    BY <2>4, <2>5 DEF OutboxOps
  <2> HIDE DEF o
  <2>7. OutboxOps(q) = <<o>>
    BY <2>6
  <2> QED
    BY <2>7 DEF o
<1> QED
  BY <1>2, <1>3

LEMMA OneOrNone ==
  /\ <<>> \o <<>> = <<>>
  /\ \A x : <<x>> \o <<>> = <<x>> /\ <<>> \o <<x>> = <<x>>
OBVIOUS

(* With no command published or delivered, or exactly one of them.         *)
LEMMA OpsOfText ==
  ASSUME NEW o \in Seq(Posted), \A a \in 1..Len(o) : o[a].topic \notin CmdTopics,
         NEW i, \A t \in CmdTopics : i[t] = <<>>
  PROVE  /\ OpsIn(<<>>, <<>>, o, i) = <<>>
         /\ \A c : /\ OpsIn(<<c>>, <<>>, o, i) = <<TextOp(c)>>
                   /\ OpsIn(<<>>, <<c>>, o, i) = <<TextOp(c)>>
<1>1. OutboxOps(o) = <<>> /\ \A t \in CmdTopics : InboxOps(t, i[t]) = <<>>
  BY OpsInOutbox, OpsInInbox
<1> QED
  BY <1>1, OpsInText, OneOrNone DEF OpsIn, CmdTopics

LEMMA OpsOfPublished ==
  ASSUME NEW o \in Seq(Posted), NEW a \in 1..Len(o), o[a].topic \in CmdTopics,
         \A b \in 1..Len(o) : b # a => o[b].topic \notin CmdTopics,
         NEW i, \A t \in CmdTopics : i[t] = <<>>
  PROVE  OpsIn(<<>>, <<>>, o, i) = <<AsOp(o[a].topic, o[a].data.arg, o[a].data.n)>>
<1> DEFINE x == AsOp(o[a].topic, o[a].data.arg, o[a].data.n)
<1>1. OutboxOps(o) = <<x>> /\ \A t \in CmdTopics : InboxOps(t, i[t]) = <<>>
  BY OpsInOutbox, OpsInInbox
<1> HIDE DEF x
<1>2. OpsIn(<<>>, <<>>, o, i) = <<x>>
  BY <1>1, OpsInText, OneOrNone DEF OpsIn, CmdTopics
<1> QED
  BY <1>2 DEF x

LEMMA OpsOfDelivered ==
  ASSUME NEW o \in Seq(Posted), \A a \in 1..Len(o) : o[a].topic \notin CmdTopics,
         NEW i, NEW t \in CmdTopics, NEW p, i[t] = <<p>>,
         \A u \in CmdTopics \ {t} : i[u] = <<>>
  PROVE  OpsIn(<<>>, <<>>, o, i) = <<AsOp(t, p.arg, p.n)>>
<1> DEFINE x == AsOp(t, p.arg, p.n)
<1>1. /\ OutboxOps(o) = <<>> /\ InboxOps(t, i[t]) = <<x>>
      /\ \A u \in CmdTopics \ {t} : InboxOps(u, i[u]) = <<>>
  BY OpsInOutbox, OpsInInbox
<1> HIDE DEF x
<1>2. OpsIn(<<>>, <<>>, o, i) = <<x>>
  BY <1>1, OpsInText, OneOrNone DEF OpsIn, CmdTopics
<1> QED
  BY <1>2 DEF x

(* The mapping of AsSession in these terms, and its actions.               *)
LEMMA OpsAreMapped ==
  /\ Pending = InText(pipe) \o InText(message) \o InOutbox \o InInbox("CreateFile")
                 \o InInbox("Probe") \o InInbox("StopTest") \o InInbox("GetInfo")
  /\ Pending' = (InText(pipe) \o InText(message) \o InOutbox \o InInbox("CreateFile")
                   \o InInbox("Probe") \o InInbox("StopTest") \o InInbox("GetInfo"))'
BY DEF Pending, OpsIn, OutboxOps, Cmds, Nth, InboxOps, InOutbox, InInbox

LEMMA MapsToRequest ==
  ASSUME Pending = <<>>, NEW c \in AsSession!Ops, Pending' = <<c>>,
         c.op = "CreateFile" => file = NoFile, UNCHANGED <<file, RowData>>
  PROVE  AsSession!Request
<1> DEFINE ops == InText(pipe) \o InText(message) \o InOutbox \o InInbox("CreateFile")
                    \o InInbox("Probe") \o InInbox("StopTest") \o InInbox("GetInfo")
<1>1. ops = <<>> /\ ops' = <<c>>
  BY OpsAreMapped
<1>2. ops' # <<>>
  <2>1. <<c>> # <<>>
    OBVIOUS
  <2> QED
    BY <1>1, <2>1
<1>3. UNCHANGED <<file, [f \in Files |-> [i \in DOMAIN disk[f] |-> disk[f][i].data]]>>
  BY DEF RowData
<1> QED
  BY <1>1, <1>2, <1>3 DEF AsSession!Request

LEMMA MapsToPerform ==
  ASSUME NEW c, Pending = <<c>>, Pending' = <<>>,
         file' = CASE c.op = "CreateFile" -> c.arg
                   [] c.op = "StopTest"   -> NoFile
                   [] OTHER               -> file,
         RowData' = IF c.op = "Probe" /\ file # NoFile
                    THEN [RowData EXCEPT ![file] = Append(@, c.n)] ELSE RowData
  PROVE  AsSession!Perform
<1> DEFINE ops == InText(pipe) \o InText(message) \o InOutbox \o InInbox("CreateFile")
                    \o InInbox("Probe") \o InInbox("StopTest") \o InInbox("GetInfo")
           data == [f \in Files |-> [i \in DOMAIN disk[f] |-> disk[f][i].data]]
<1>1. ops # <<>> /\ Head(ops) = c /\ ops' = <<>>
  BY OpsAreMapped
<1>2. data' = IF Head(ops).op = "Probe" /\ file # NoFile
              THEN [data EXCEPT ![file] = Append(@, Head(ops).n)] ELSE data
  <2>1. data = RowData /\ data' = RowData'
    BY DEF RowData
  <2> HIDE DEF ops, data
  <2> QED
    BY <1>1, <2>1
<1>3. file' = CASE Head(ops).op = "CreateFile" -> Head(ops).arg
                [] Head(ops).op = "StopTest"   -> NoFile
                [] OTHER                       -> file
  <2> HIDE DEF ops
  <2> QED
    BY <1>1
<1> QED
  BY <1>1, <1>2, <1>3, Zenon DEF AsSession!Perform

LEMMA MapsToLeave ==
  ASSUME Pending = <<>>, Pending' = <<>>, file' = NoFile, RowData' = RowData
  PROVE  AsSession!Leave
BY OpsAreMapped DEF AsSession!Leave, RowData

LEMMA MapsToStutter ==
  ASSUME UNCHANGED <<file, RowData, Pending>>
  PROVE  UNCHANGED AsSession!sessionVars
BY OpsAreMapped DEF AsSession!sessionVars, RowData

LEMMA SomeOutcome ==
  ASSUME NEW c, c.command \in Int, c.args \in ArgsKinds
  PROVE  createCommand(c) # {}
<1>1. CASE c.command = NotInt \/ c.command = Absent
  BY <1>1 DEF createCommand, NotInt, Absent, NeedsArgs, CREATE, PROBE, STOP, GETINFO
<1>2. CASE c.command # NotInt /\ c.command # Absent /\ NeedsArgs(c)
  BY <1>2 DEF createCommand, ArgsKinds
<1>3. CASE c.command # NotInt /\ c.command # Absent /\ ~NeedsArgs(c)
  BY <1>3 DEF createCommand
<1> QED
  BY <1>1, <1>2, <1>3

(* The operation that a text asks for.                                     *)
LEMMA TextOps ==
  ASSUME NEW c \in Asked
  PROVE  /\ TextOp(c) \in AsSession!Ops
         /\ TextOp(c).op = "CreateFile" => "CreateFile" \in createCommand(c)
         /\ (\A t \in CmdTopics : t \notin createCommand(c)) => TextOp(c).op = "none"
         /\ \A t \in CmdTopics : createCommand(c) = {t} => TextOp(c) = AsOp(t, c.arg, c.n)
<1>1. /\ c.command \in Int /\ c.args \in ArgsKinds /\ c.arg \in {"-"} \cup Files
      /\ c.n \in 0..MaxCommands /\ 0 \in 0..MaxCommands
  BY SocketServerAssumption DEF Asked, Requests
<1>2. createCommand(c) # {}
  BY <1>1, SomeOutcome
<1>3. \A t : AsOp(t, c.arg, c.n) \in AsSession!Ops /\ AsOp("none", "-", 0) \in AsSession!Ops
  BY <1>1 DEF AsOp, OpOf, AsSession!Ops
<1>4. AsOp("none", "-", 0).op = "none"
      /\ \A t : AsOp(t, c.arg, c.n).op = "CreateFile" => t = "CreateFile"
  BY DEF AsOp, OpOf
<1>5. CASE createCommand(c) \subseteq CmdTopics
  <2>1. PICK t \in createCommand(c) : t = CHOOSE u \in createCommand(c) : TRUE
    BY <1>2
  <2>2. TextOp(c) = AsOp(t, c.arg, c.n)
    BY <1>5, <2>1 DEF TextOp
  <2>3. t \in CmdTopics
    BY <1>5, <2>1
  <2> QED
    BY <1>3, <1>4, <2>1, <2>2, <2>3
<1>6. CASE ~(createCommand(c) \subseteq CmdTopics)
  <2>1. TextOp(c) = AsOp("none", "-", 0)
    BY <1>6 DEF TextOp
  <2>2. TextOp(c).op = "none"
    BY <1>4, <2>1
  <2> QED
    BY <1>3, <1>6, <2>1, <2>2
<1> QED
  BY <1>5, <1>6

LEMMA NothingPending ==
  /\ BusTypes /\ NonePending => Pending = <<>>
  /\ BusTypes' /\ NonePending' => Pending' = <<>>
<1>1. ASSUME BusTypes, NonePending PROVE Pending = <<>>
  <2>1. /\ pipe = <<>> /\ message = <<>> /\ outbox \in Seq(Posted)
        /\ \A a \in 1..Len(outbox) : outbox[a].topic \notin CmdTopics
        /\ \A t \in CmdTopics : inbox[t] = <<>>
    BY <1>1 DEF BusTypes, NonePending, NoneInText, NonePublished, NoneDelivered
  <2>2. OpsIn(<<>>, <<>>, outbox, inbox) = <<>>
    BY <2>1, OpsOfText
  <2> QED
    BY <2>1, <2>2 DEF Pending
<1>2. ASSUME BusTypes', NonePending' PROVE Pending' = <<>>
  <2>1. /\ pipe' = <<>> /\ message' = <<>> /\ outbox' \in Seq(Posted)
        /\ \A a \in 1..Len(outbox') : outbox'[a].topic \notin CmdTopics
        /\ \A t \in CmdTopics : inbox'[t] = <<>>
    BY <1>2 DEF BusTypes, NonePending, NoneInText, NonePublished, NoneDelivered
  <2>2. OpsIn(<<>>, <<>>, outbox', inbox') = <<>>
    BY <2>1, OpsOfText
  <2> QED
    BY <2>1, <2>2 DEF Pending
<1> QED
  BY <1>1, <1>2

(* Steps that move no command.                                             *)
LEMMA SamePlace ==
  ASSUME UNCHANGED <<pipe, message, outbox>>, \A t \in CmdTopics : inbox'[t] = inbox[t]
  PROVE  Pending' = Pending
BY DEF Pending, OpsIn, CmdTopics

LEMMA SendMaps ==
  ASSUME ClientKind = "orderly", Typed, SessionInv, BusTypes', NEW c \in Commands, Send(c)
  PROVE  AsSession!Request
<1>1. /\ OneCommand /\ Settled /\ NonePublished' /\ NoneDelivered' /\ message' = <<>>
      /\ c.command = CREATE => Wants = NoFile
      /\ UNCHANGED file
  BY Sends DEF SessionInv
<1>2. PICK x \in Asked : x.command = c.command /\ x.args = c.args /\ pipe' = <<x>>
  BY <1>1, Sends
<1>3. BusTypes /\ NonePending /\ FollowsWants
  BY <1>1 DEF Typed, DataInv, Settled, NonePending, SessionInv, FileInv
<1>4. Pending' = <<TextOp(x)>>
  <2>1. /\ outbox' \in Seq(Posted) /\ \A a \in 1..Len(outbox') : outbox'[a].topic \notin CmdTopics
        /\ \A t \in CmdTopics : inbox'[t] = <<>>
    BY <1>1 DEF BusTypes, NonePublished, NoneDelivered
  <2>2. OpsIn(<<x>>, <<>>, outbox', inbox') = <<TextOp(x)>>
    BY <2>1, OpsOfText
  <2> QED
    BY <1>1, <1>2, <2>2 DEF Pending
<1>5. TextOp(x).op = "CreateFile" => file = NoFile
  <2>1. x.command \in Int /\ x.args \in ArgsKinds
    BY DEF Asked, Requests
  <2> QED
    BY <1>1, <1>2, <1>3, <2>1, TextOps, CreateIsCreate DEF FollowsWants
<1>6. RowData' = RowData
  BY DEF Send, RowData, fileVars
<1> QED
  BY <1>1, <1>3, <1>4, <1>5, <1>6, TextOps, NothingPending, MapsToRequest

LEMMA ReceiveMaps ==
  ASSUME Typed, OneCommand, waiting_command
  PROVE  Pending' = Pending
<1>1. CommandTypes /\ MessageInv /\ BusTypes
  BY DEF Typed, DataInv
<1>2. PICK k \in 1..Len(pipe) :
        /\ message' = SubSeq(pipe, 1, k)
        /\ Len(message') = k /\ Len(pipe') = Len(pipe) - k
        /\ \A a \in 1..k : message'[a] = pipe[a]
  BY <1>1, ReceiveKeepsTypes
<1>3. IsSent
  <2>1. pc["main"] = "recv" /\ pipe # <<>>
    BY <1>2 DEF waiting_command
  <2> QED
    BY <2>1, WhereMainIs
<1>4. PICK c \in Asked : c = pipe[1]
  <2>1. pipe \in Seq(Asked) /\ 1 \in 1..Len(pipe)
    BY <1>1, <1>3 DEF CommandTypes, IsSent
  <2> QED
    BY <2>1, ElementOfSeq
<1>5. pipe = <<c>> /\ message' = <<c>> /\ pipe' = <<>>
  <2>1. pipe \in Seq(Asked) /\ message' \in Seq(Asked) /\ pipe' \in Seq(Asked)
    BY <1>1, ReceiveKeepsTypes DEF CommandTypes
  <2>2. Len(pipe) = 1 /\ Len(message') = 1 /\ Len(pipe') = 0 /\ message'[1] = c
    BY <1>2, <1>3, <1>4 DEF IsSent
  <2> QED
    BY <1>4, <2>1, <2>2, EmptySeq
<1>6. /\ message = <<>> /\ outbox' = outbox /\ inbox' = inbox /\ outbox \in Seq(Posted)
      /\ \A a \in 1..Len(outbox) : outbox[a].topic \notin CmdTopics
      /\ \A t \in CmdTopics : inbox[t] = <<>>
  BY <1>1, <1>3 DEF IsSent, NonePublished, NoneDelivered, BusTypes, waiting_command, busVars
<1>7. /\ OpsIn(<<c>>, <<>>, outbox, inbox) = <<TextOp(c)>>
      /\ OpsIn(<<>>, <<c>>, outbox, inbox) = <<TextOp(c)>>
  <2>1. /\ outbox \in Seq(Posted)
        /\ \A a \in 1..Len(outbox) : outbox[a].topic \notin CmdTopics
        /\ \A t \in CmdTopics : inbox[t] = <<>>
    BY <1>6
  <2> QED
    BY <2>1, OpsOfText
<1> QED
  BY <1>5, <1>6, <1>7 DEF Pending

LEMMA ExecuteMaps ==
  ASSUME Typed, OneCommand, BusTypes', execute_command
  PROVE  AsSession!Perform \/ UNCHANGED AsSession!sessionVars
<1>1. BusTypes /\ IsReceived
  BY WhereMainIs DEF execute_command, Typed, DataInv
<1>2. /\ pipe' = <<>> /\ message' = <<>> /\ pipe = <<>> /\ NonePublished /\ NoneDelivered
      /\ UNCHANGED <<file, RowData>>
  BY <1>1 DEF IsReceived, execute_command, clientVars, fileVars, RowData
<1>3. PICK c \in Asked : c = message[1] /\ message = <<c>>
  <2>1. message \in Seq(Asked) /\ 1 \in 1..Len(message) /\ Len(message) = 1
    BY <1>1 DEF Typed, DataInv, CommandTypes, IsReceived
  <2>2. message[1] \in Asked
    BY <2>1, ElementOfSeq
  <2> QED
    BY <2>1, <2>2
<1>4. Pending = <<TextOp(c)>>
  <2>1. /\ outbox \in Seq(Posted) /\ \A a \in 1..Len(outbox) : outbox[a].topic \notin CmdTopics
        /\ \A t \in CmdTopics : inbox[t] = <<>>
    BY <1>1, <1>2 DEF BusTypes, NonePublished, NoneDelivered
  <2>2. OpsIn(<<>>, <<c>>, outbox, inbox) = <<TextOp(c)>>
    BY <2>1, OpsOfText
  <2> QED
    BY <1>2, <1>3, <2>2 DEF Pending
<1>5. ASSUME NEW t \in CmdTopics, NEW p \in PayloadsOf(t), Publish(t, p),
             createCommand(c) = {t}, p.arg = c.arg, t = "Probe" => p.n = c.n
      PROVE  Pending' = Pending
  <2>1. /\ Len(outbox) \in Nat /\ Len(outbox') = Len(outbox) + 1 /\ inbox' = inbox
        /\ \A a \in 1..Len(outbox) : outbox'[a] = outbox[a]
        /\ outbox'[Len(outbox) + 1] = [topic |-> t, data |-> p]
    <3>1. t \in Topics
      BY SocketServerAssumption DEF AllTopics
    <3> QED
      BY <1>1, <1>5, <3>1, PublishAppends
  <2> DEFINE n == Len(outbox)
  <2>2. PICK k \in Nat : k = n + 1
    BY <2>1
  <2>3. \A b \in 1..k : b # k => b \in 1..n
    BY <2>1, <2>2
  <2>4. /\ outbox' \in Seq(Posted) /\ k \in 1..Len(outbox')
        /\ outbox'[k].topic = t /\ outbox'[k].data = p
        /\ \A b \in 1..Len(outbox') : b # k => outbox'[b].topic \notin CmdTopics
        /\ \A u \in CmdTopics : inbox'[u] = <<>>
    <3> HIDE DEF n
    <3>1. outbox'[k] = [topic |-> t, data |-> p] /\ Len(outbox') = k
      BY <2>1, <2>2 DEF n
    <3>2. \A b \in 1..n : outbox'[b].topic \notin CmdTopics
      BY <1>2, <2>1 DEF n, NonePublished
    <3>3. \A u \in CmdTopics : inbox'[u] = <<>>
      BY <1>2, <2>1 DEF NoneDelivered
    <3>4. outbox' \in Seq(Posted) /\ k \in 1..k
      BY <2>1, <2>2 DEF BusTypes, n
    <3> QED
      BY <2>3, <3>1, <3>2, <3>3, <3>4
  <2>5. OpsIn(<<>>, <<>>, outbox', inbox') = <<AsOp(t, p.arg, p.n)>>
    BY <2>4, OpsOfPublished
  <2>6. AsOp(t, p.arg, p.n) = AsOp(t, c.arg, c.n)
    BY <1>5 DEF AsOp
  <2>7. TextOp(c) = AsOp(t, c.arg, c.n)
    BY <1>5, TextOps
  <2> QED
    BY <1>2, <1>4, <2>5, <2>6, <2>7 DEF Pending
<1>6. ASSUME UNCHANGED busVars, \A t \in CmdTopics : t \notin createCommand(c)
      PROVE  AsSession!Perform
  <2>1. NonePublished' /\ NoneDelivered' /\ NoneInText'
    BY <1>2, <1>6, BusUnchanged DEF NoneInText
  <2>2. Pending' = <<>>
    BY <2>1, NothingPending DEF NonePending
  <2>3. TextOp(c).op = "none"
    BY <1>6, TextOps
  <2> QED
    BY <1>2, <1>4, <2>2, <2>3, MapsToPerform
<1> QED
  BY <1>1, <1>2, <1>3, <1>5, <1>6, Executed, MapsToStutter

LEMMA TransmitMaps ==
  ASSUME Typed, OneCommand, BusTypes', TransmitStep
  PROVE  Pending' = Pending
<1>1. BusTypes /\ Transmit /\ UNCHANGED <<pipe, message>>
  BY DEF TransmitStep, serverVars, clientVars, Typed, DataInv
<1>2. ASSUME NonePublished PROVE Pending' = Pending
  <2>1. NonePublished'
    BY <1>1, <1>2, OtherTransmitted
  <2>2. \A t \in CmdTopics : inbox'[t] = inbox[t]
    BY <1>1, <1>2, OtherTransmitted
  <2>3. OutboxOps(outbox') = <<>> /\ OutboxOps(outbox) = <<>>
    BY <1>1, <1>2, <2>1, OpsInOutbox DEF BusTypes, NonePublished
  <2> QED
    BY <1>1, <2>2, <2>3 DEF Pending, OpsIn, CmdTopics
<1>3. CASE IsPublished
  <2>1. /\ NoneInText /\ NoneInText' /\ outbox \in Seq(Posted) /\ outbox' \in Seq(Posted)
        /\ \A t \in CmdTopics : inbox[t] = <<>>
    BY <1>1, <1>3 DEF IsPublished, NoneInText, NoneDelivered, BusTypes
  <2>2. PICK a \in 1..Len(outbox) :
          /\ outbox[a].topic \in CmdTopics
          /\ \A b \in 1..Len(outbox) : b # a => outbox[b].topic \notin CmdTopics
    BY <1>3 DEF IsPublished, OnePublished, OnlyPublished
  <2> DEFINE x == AsOp(outbox[a].topic, outbox[a].data.arg, outbox[a].data.n)
             n == Len(outbox)
             m == outbox[1]
  <2>3. Pending = <<x>>
    <3>1. OpsIn(<<>>, <<>>, outbox, inbox) = <<x>>
      BY <2>1, <2>2, OpsOfPublished
    <3> QED
      BY <2>1, <3>1 DEF Pending, NoneInText
  <2>4. /\ n \in Nat \ {0} /\ Len(outbox') = n - 1 /\ m \in Posted
        /\ \A b \in 1..(n - 1) : outbox'[b] = outbox[b + 1]
        /\ inbox' = [inbox EXCEPT ![m.topic] =
                       IF Len(@) < HighWater THEN Append(@, m.data) ELSE @]
    BY <1>1, TransmitMoves
  <2>5. \A b \in 1..(n - 1) : b + 1 \in 1..n /\ b + 1 # 1
    BY <2>4
  <2>6. /\ inbox \in [Topics -> Seq(Payloads)] /\ CmdTopics \subseteq Topics
        /\ m.topic \in Topics /\ Len(<<>>) < HighWater
    BY <1>1, <2>4, SocketServerAssumption DEF BusTypes, AllTopics, Posted
  <2>7. CASE a = 1
    <3>1. \A b \in 1..Len(outbox') : outbox'[b].topic \notin CmdTopics
      <4> HIDE DEF n
      <4>1. \A b \in 1..n : b # a => outbox[b].topic \notin CmdTopics
        BY <2>2 DEF n
      <4> QED
        BY <2>4, <2>5, <2>7, <4>1
    <3>2. inbox[m.topic] = <<>> /\ m.topic \in CmdTopics
      BY <2>1, <2>2, <2>7
    <3>3. inbox'[m.topic] = <<m.data>> /\ \A u \in CmdTopics \ {m.topic} : inbox'[u] = <<>>
      <4>1. Append(<<>>, m.data) = <<m.data>>
        OBVIOUS
      <4> HIDE DEF m
      <4> QED
        BY <2>1, <2>4, <2>6, <3>2, <4>1
    <3>4. OpsIn(<<>>, <<>>, outbox', inbox') = <<AsOp(m.topic, m.data.arg, m.data.n)>>
      <4> HIDE DEF m
      <4> QED
        BY <2>1, <3>1, <3>2, <3>3, OpsOfDelivered
    <3> QED
      BY <2>1, <2>3, <2>7, <3>4 DEF Pending, NoneInText
  <2>8. CASE a # 1
    <3>1. PICK k \in 1..(n - 1) : a = k + 1
      <4>1. a - 1 \in 1..(n - 1) /\ a = (a - 1) + 1
        BY <2>4, <2>8
      <4> QED
        BY <4>1
    <3>2. \A b \in 1..(n - 1) : b # k => b + 1 # a
      BY <2>4, <3>1
    <3>3. /\ k \in 1..Len(outbox') /\ outbox'[k] = outbox[a]
          /\ \A b \in 1..Len(outbox') : b # k => outbox'[b].topic \notin CmdTopics
      <4> HIDE DEF n
      <4>1. \A b \in 1..n : b # a => outbox[b].topic \notin CmdTopics
        BY <2>2 DEF n
      <4> QED
        BY <2>4, <2>5, <3>1, <3>2, <4>1
    <3>4. m.topic \notin CmdTopics
      <4>1. 1 \in 1..n
        BY <2>4
      <4> QED
        BY <2>2, <2>8, <4>1
    <3>5. \A u \in CmdTopics : inbox'[u] = <<>>
      <4> HIDE DEF m
      <4> QED
        BY <2>1, <2>4, <2>6, <3>4
    <3>6. OpsIn(<<>>, <<>>, outbox', inbox')
            = <<AsOp(outbox'[k].topic, outbox'[k].data.arg, outbox'[k].data.n)>>
      BY <2>1, <2>2, <3>3, <3>5, OpsOfPublished
    <3> QED
      BY <2>1, <2>3, <3>3, <3>6 DEF Pending, NoneInText
  <2> QED
    BY <2>7, <2>8
<1> QED
  BY <1>2, <1>3 DEF OneCommand, Settled, Cleaning, IsSent, IsReceived, IsDelivered, IsHandled

LEMMA OtherOps ==
  ASSUME Typed, OneCommand, BusTypes', TrackerStep
  PROVE  Pending' = Pending
<1>1. /\ BusTypes /\ ResetTypes /\ DataInv /\ UNCHANGED <<pipe, message>>
      /\ outbox \in Seq(Posted) /\ outbox' \in Seq(Posted)
  BY DEF TrackerStep, serverVars, clientVars, Typed, DataInv, ResetInv, BusTypes
<1>2. CASE UNCHANGED busVars
  BY <1>1, <1>2, SamePlace DEF busVars
<1>3. ASSUME NEW t \in {"ZED_Position", "ZED_Status"}, NEW p \in PayloadsOf(t), Publish(t, p)
      PROVE  Pending' = Pending
  <2>1. t \in Topics /\ t \notin CmdTopics
    BY SocketServerAssumption DEF AllTopics, CmdTopics
  <2>2. /\ Len(outbox) \in Nat /\ Len(outbox') = Len(outbox) + 1 /\ inbox' = inbox
        /\ \A a \in 1..Len(outbox) : outbox'[a] = outbox[a]
        /\ outbox'[Len(outbox) + 1] = [topic |-> t, data |-> p]
    BY <1>1, <1>3, <2>1, PublishAppends
  <2>3. OutboxOps(outbox') = OutboxOps(outbox)
    <3>1. CASE NonePublished
      <4>1. NonePublished'
        BY <1>1, <1>3, <2>1, <3>1, OtherPublished
      <4>2. OutboxOps(outbox') = <<>> /\ OutboxOps(outbox) = <<>>
        BY <1>1, <3>1, <4>1, OpsInOutbox DEF NonePublished
      <4> QED
        BY <4>2
    <3>2. CASE OnePublished
      <4> DEFINE n == Len(outbox)
      <4>1. PICK a \in 1..n : OnlyPublished(a)
        BY <3>2 DEF OnePublished
      <4>2. \A b \in 1..(n + 1) : b \in 1..n \/ b = n + 1
        BY <2>2
      <4>3. a \in 1..(n + 1)
        BY <2>2
      <4>4. /\ a \in 1..Len(outbox') /\ outbox'[a] = outbox[a] /\ outbox[a].topic \in CmdTopics
            /\ \A b \in 1..Len(outbox') : b # a => outbox'[b].topic \notin CmdTopics
        <5>1. \A b \in 1..n : b # a => outbox'[b].topic \notin CmdTopics
          BY <2>2, <4>1 DEF OnlyPublished
        <5>2. outbox'[n + 1].topic \notin CmdTopics /\ Len(outbox') = n + 1
              /\ outbox'[a] = outbox[a] /\ outbox[a].topic \in CmdTopics
          BY <2>1, <2>2, <4>1 DEF OnlyPublished
        <5> HIDE DEF n
        <5> QED
          BY <4>2, <4>3, <5>1, <5>2
      <4>5. OutboxOps(outbox')
              = <<AsOp(outbox'[a].topic, outbox'[a].data.arg, outbox'[a].data.n)>>
        BY <1>1, <4>4, OpsInOutbox
      <4>6. OutboxOps(outbox) = <<AsOp(outbox[a].topic, outbox[a].data.arg, outbox[a].data.n)>>
        BY <1>1, <4>1, OpsInOutbox DEF OnlyPublished
      <4> QED
        BY <4>4, <4>5, <4>6
    <3> QED
      BY <3>1, <3>2 DEF OneCommand, Settled, Cleaning, IsSent, IsReceived, IsPublished,
         IsDelivered, IsHandled
  <2> QED
    BY <1>1, <2>2, <2>3 DEF Pending, OpsIn
<1> QED
  BY <1>1, <1>2, <1>3, TrackerPublishes

LEMMA TakenOp ==
  ASSUME Typed, OneCommand, BusTypes', NEW t \in CmdTopics, Take(t), UNCHANGED <<pipe, message>>
  PROVE  /\ Pending = <<AsOp(t, Head(inbox[t]).arg, Head(inbox[t]).n)>>
         /\ Pending' = <<>>
<1>1. BusTypes /\ t \in Topics
  BY SocketServerAssumption DEF Typed, DataInv, AllTopics
<1>2. IsDelivered /\ Len(inbox[t]) = 1 /\ NoneDelivered' /\ NonePublished'
  BY <1>1, CommandTaken
<1>3. /\ NoneInText /\ outbox \in Seq(Posted) /\ inbox[t] \in Seq(Payloads)
      /\ \A a \in 1..Len(outbox) : outbox[a].topic \notin CmdTopics
      /\ \A u \in CmdTopics \ {t} : inbox[u] = <<>>
  BY <1>1, <1>2 DEF IsDelivered, OnlyDelivered, NonePublished, BusTypes
<1>4. PICK p \in {Head(inbox[t])} : inbox[t] = <<p>>
  BY <1>2, <1>3
<1>5. OpsIn(<<>>, <<>>, outbox, inbox) = <<AsOp(t, p.arg, p.n)>>
  BY <1>3, <1>4, OpsOfDelivered
<1>6. Pending' = <<>>
  <2>1. NonePending'
    BY <1>2, <1>3 DEF NonePending, NoneInText
  <2> QED
    BY <2>1, NothingPending
<1> QED
  BY <1>3, <1>5, <1>6 DEF Pending, NoneInText

LEMMA DataAppend ==
  ASSUME NEW q \in Seq(Rows), NEW r \in Rows
  PROVE  [i \in DOMAIN Append(q, r) |-> Append(q, r)[i].data]
           = Append([i \in DOMAIN q |-> q[i].data], r.data)
<1> DEFINE D == {NoField} \cup 1..MaxCommands
           d == [i \in DOMAIN q |-> q[i].data]
           a == Append(q, r)
           n == Len(q)
<1>1. /\ DOMAIN q = 1..n /\ n \in Nat /\ a \in Seq(Rows) /\ Len(a) = n + 1
      /\ \A i \in 1..n : a[i] = q[i]
      /\ a[n + 1] = r /\ DOMAIN a = 1..(n + 1)
  BY AppendProperties, LenProperties
<1>2. d \in Seq(D) /\ Len(d) = n
  <2>1. \A i \in 1..n : q[i] \in Rows
    BY ElementOfSeq
  <2>2. d \in [1..n -> D]
    BY <1>1, <2>1 DEF Rows
  <2> HIDE DEF d, n, D
  <2> QED
    BY <1>1, <2>2
<1>3. r.data \in D
  BY DEF Rows
<1>4. /\ DOMAIN Append(d, r.data) = 1..(n + 1)
      /\ \A i \in 1..n : Append(d, r.data)[i] = d[i]
      /\ Append(d, r.data)[n + 1] = r.data
      /\ Append(d, r.data) \in Seq(D)
  <2> HIDE DEF d, n, D
  <2> QED
    BY <1>1, <1>2, <1>3, AppendProperties, LenProperties
<1>5. \A i \in 1..n : d[i] = q[i].data
  BY <1>1
<1>6. \A i \in 1..(n + 1) : i \in 1..n \/ i = n + 1
  BY <1>1
<1> HIDE DEF d, n, D, a
<1>7. \A i \in 1..(n + 1) : Append(d, r.data)[i] = a[i].data
  BY <1>1, <1>4, <1>5, <1>6
<1>8. Append(d, r.data) = [i \in 1..(n + 1) |-> Append(d, r.data)[i]]
  BY <1>4, LenProperties
<1>9. [i \in DOMAIN a |-> a[i].data] = Append(d, r.data)
  BY <1>1, <1>7, <1>8
<1> QED
  BY <1>9 DEF a, d

LEMMA CallbackMaps ==
  ASSUME Typed, SessionInv, BusTypes',
         createFile_callback \/ stop_callback \/ probe_callback \/ getInfo_callback
  PROVE  AsSession!Perform
<1>1. BusTypes /\ StateTypes /\ OneCommand /\ UNCHANGED <<pipe, message>>
  BY DEF Typed, DataInv, SessionInv, createFile_callback, stop_callback, probe_callback,
     getInfo_callback, clientVars
<1>2. {"CreateFile", "StopTest", "Probe", "GetInfo"} = CmdTopics
  BY DEF CmdTopics
<1>3. CASE createFile_callback
  <2> DEFINE h == Head(inbox["CreateFile"])
             c == AsOp("CreateFile", h.arg, h.n)
  <2>1. Take("CreateFile") /\ RowData' = RowData
    BY <1>3 DEF createFile_callback, RowData
  <2>2. Pending = <<c>> /\ Pending' = <<>>
    BY <1>1, <1>2, <2>1, TakenOp
  <2>3. file' = h.arg
    BY <1>3 DEF createFile_callback
  <2>4. c.op = "CreateFile" /\ c.arg = h.arg
    BY DEF AsOp, OpOf
  <2> HIDE DEF c
  <2> QED
    BY <2>1, <2>2, <2>3, <2>4, MapsToPerform
<1>4. CASE stop_callback
  <2> DEFINE h == Head(inbox["StopTest"])
             c == AsOp("StopTest", h.arg, h.n)
  <2>1. Take("StopTest") /\ RowData' = RowData /\ file' = NoFile
    BY <1>4 DEF stop_callback, RowData
  <2>2. Pending = <<c>> /\ Pending' = <<>>
    BY <1>1, <1>2, <2>1, TakenOp
  <2>3. c.op = "StopTest"
    BY DEF AsOp, OpOf
  <2> HIDE DEF c
  <2> QED
    BY <2>1, <2>2, <2>3, MapsToPerform
<1>5. CASE getInfo_callback
  <2> DEFINE h == Head(inbox["GetInfo"])
             c == AsOp("GetInfo", h.arg, h.n)
  <2>1. Take("GetInfo") /\ RowData' = RowData /\ file' = file
    BY <1>5 DEF getInfo_callback, RowData, fileVars
  <2>2. Pending = <<c>> /\ Pending' = <<>>
    BY <1>1, <1>2, <2>1, TakenOp
  <2>3. c.op = "none"
    BY DEF AsOp, OpOf
  <2> HIDE DEF c
  <2> QED
    BY <2>1, <2>2, <2>3, MapsToPerform
<1>6. CASE probe_callback
  <2> DEFINE h == Head(inbox["Probe"])
             c == AsOp("Probe", h.arg, h.n)
             row == [data |-> h.n, pos |-> NoField]
  <2>1. Take("Probe") /\ file' = file
    BY <1>6 DEF probe_callback
  <2>2. Pending = <<c>> /\ Pending' = <<>>
    BY <1>1, <1>2, <2>1, TakenOp
  <2>3. c.op = "Probe" /\ c.n = h.n
    BY DEF AsOp, OpOf
  <2>4. row \in Rows
    BY <1>1, <1>2, <2>1, TakeKeeps, SocketServerAssumption DEF PayloadsOf, AllTopics, Rows
  <2>5. row.data = h.n
    OBVIOUS
  <2>6. disk' = IF file = NoFile THEN disk ELSE [disk EXCEPT ![file] = Append(@, row)]
    BY <1>6 DEF probe_callback
  <2> HIDE DEF c, row
  <2>7. file # NoFile => RowData' = [RowData EXCEPT ![file] = Append(@, h.n)]
    <3> SUFFICES ASSUME file # NoFile PROVE RowData' = [RowData EXCEPT ![file] = Append(@, h.n)]
      OBVIOUS
    <3>1. file \in Files /\ disk \in [Files -> Seq(Rows)] /\ disk[file] \in Seq(Rows)
      BY <1>1 DEF StateTypes
    <3>2. disk'[file] = Append(disk[file], row) /\ \A f \in Files : f # file => disk'[f] = disk[f]
      BY <2>6, <3>1
    <3>3. [i \in DOMAIN disk'[file] |-> disk'[file][i].data]
            = Append([i \in DOMAIN disk[file] |-> disk[file][i].data], h.n)
      BY <2>4, <2>5, <3>1, <3>2, DataAppend
    <3>4. RowData'[file] = Append(RowData[file], h.n)
      BY <3>1, <3>3 DEF RowData
    <3>5. \A f \in Files : f # file => RowData'[f] = RowData[f]
      BY <3>2 DEF RowData
    <3>6. RowData = [f \in Files |-> RowData[f]] /\ RowData' = [f \in Files |-> RowData'[f]]
      BY DEF RowData
    <3> QED
      BY <3>1, <3>4, <3>5, <3>6
  <2>8. file = NoFile => RowData' = RowData
    BY <2>6 DEF RowData
  <2> QED
    BY <2>1, <2>2, <2>3, <2>7, <2>8, MapsToPerform
<1> QED
  BY <1>3, <1>4, <1>5, <1>6

LEMMA PositionUnseen ==
  ASSUME Typed, RowInv', ProbePosition
  PROVE  RowData' = RowData
<1>1. /\ StateTypes /\ StateTypes'
      /\ \A f \in Files :
           /\ Len(disk'[f]) \in {Len(disk[f]), Len(disk[f]) + 1}
           /\ \A a \in 1..Len(disk[f]) : disk'[f][a].data = disk[f][a].data
           /\ Len(disk'[f]) = Len(disk[f]) + 1 => disk'[f][Len(disk'[f])].data = NoField
  BY PositionWrites DEF Typed, DataInv
<1>2. ASSUME NEW f \in Files PROVE RowData'[f] = RowData[f]
  <2>1. /\ disk[f] \in Seq(Rows) /\ disk'[f] \in Seq(Rows)
        /\ DOMAIN disk[f] = 1..Len(disk[f]) /\ DOMAIN disk'[f] = 1..Len(disk'[f])
        /\ Len(disk[f]) \in Nat
    BY <1>1, LenProperties DEF StateTypes
  <2>2. Len(disk'[f]) = Len(disk[f])
    <3>1. \A a \in 1..Len(disk'[f]) : disk'[f][a].data # NoField
      BY DEF RowInv
    <3>2. PICK k \in Nat : k = Len(disk[f]) + 1
      BY <2>1
    <3>3. Len(disk'[f]) = k => k \in 1..Len(disk'[f])
      BY <2>1, <3>2
    <3> QED
      BY <1>1, <3>1, <3>2, <3>3
  <2>3. [a \in DOMAIN disk'[f] |-> disk'[f][a].data] = [a \in DOMAIN disk[f] |-> disk[f][a].data]
    BY <1>1, <2>1, <2>2
  <2> QED
    BY <2>3 DEF RowData
<1>3. RowData = [f \in Files |-> RowData[f]] /\ RowData' = [f \in Files |-> RowData'[f]]
  BY DEF RowData
<1> QED
  BY <1>2, <1>3

LEMMA EachStepIsASession ==
  ASSUME ClientKind = "orderly", Typed, SessionInv, [Next]_vars
  PROVE  [AsSession!SessionNext]_AsSession!sessionVars
<1>1. BusTypes /\ BusTypes' /\ OneCommand /\ RowInv'
  <2>1. ResetTypes /\ DataInv
    BY DEF Typed, ResetInv
  <2> QED
    BY <2>1, BusTypesStep, RowInvStep DEF DataInv, SessionInv
<1>2. ASSUME RowData' = RowData, file' = file, Pending' = Pending
      PROVE  UNCHANGED AsSession!sessionVars
  BY <1>2, MapsToStutter
<1>3. CASE \E c \in Commands : Send(c)
  BY <1>1, <1>3, SendMaps DEF AsSession!SessionNext
<1>4. CASE waiting_command
  BY <1>1, <1>2, <1>4, ReceiveMaps DEF waiting_command, fileVars, RowData
<1>5. CASE execute_command
  BY <1>1, <1>5, ExecuteMaps DEF AsSession!SessionNext
<1>6. CASE TransmitStep
  BY <1>1, <1>2, <1>6, TransmitMaps DEF TransmitStep, serverVars, fileVars, RowData
<1>7. CASE TrackerStep
  BY <1>1, <1>2, <1>7, OtherOps DEF TrackerStep, serverVars, fileVars, RowData
<1>8. CASE zedStatus_callback \/ zedPosition_callback
  <2>1. inbox \in [Topics -> Seq(Payloads)] /\ CmdTopics \subseteq Topics
    BY <1>1, SocketServerAssumption DEF BusTypes, AllTopics
  <2>2. UNCHANGED <<pipe, message, outbox, file, disk>>
        /\ \A t \in CmdTopics : inbox'[t] = inbox[t]
    BY <1>8, <2>1 DEF zedStatus_callback, zedPosition_callback, Take, clientVars, fileVars,
       CmdTopics
  <2> QED
    BY <1>2, <2>2, SamePlace DEF RowData
<1>9. CASE createFile_callback \/ stop_callback \/ probe_callback \/ getInfo_callback
  BY <1>1, <1>9, CallbackMaps DEF AsSession!SessionNext
<1>10. CASE waiting_command_failed
  <2>1. /\ Settled /\ pipe' = <<>> /\ message' = message /\ UNCHANGED busVars
        /\ file' = NoFile /\ RowData' = RowData
    BY <1>1, <1>10, WhereMainIs DEF waiting_command_failed, RowData
  <2>2. NonePending /\ NonePending'
    BY <2>1, BusUnchanged DEF Settled, NonePending, NoneInText
  <2> QED
    BY <1>1, <2>1, <2>2, NothingPending, MapsToLeave DEF AsSession!SessionNext
<1>11. CASE AcceptStep
  <2>1. /\ Settled /\ (pipe' = <<>> \/ pipe' = pipe)
        /\ UNCHANGED <<message, outbox, inbox, file, disk>>
    BY <1>1, <1>11, WhereMainIs DEF AcceptStep, waiting_connection, waiting_connection_failed,
       waiting_connection_again, clientVars, busVars, fileVars
  <2>2. pipe' = pipe
    BY <2>1 DEF Settled, NoneInText
  <2> QED
    BY <1>2, <2>1, <2>2, SamePlace DEF RowData
<1>12. CASE ProbePosition
  <2>1. UNCHANGED <<pipe, message, outbox, inbox, file>>
    BY <1>12 DEF ProbePosition, clientVars, busVars
  <2> QED
    BY <1>1, <1>2, <1>12, <2>1, SamePlace, PositionUnseen
<1>13. CASE \/ Disconnect \/ createFile_throws \/ ConstructTracker \/ UNCHANGED vars
            \/ \E th \in {"main", "CreateFile", "StopTest"} : Reset(th)
  <2>1. UNCHANGED <<pipe, message, outbox, inbox, file, disk>>
    BY <1>13 DEF Disconnect, createFile_throws, ConstructTracker, vars, Reset, ResetLoad,
       ResetStore, DeleteTracker, JoinAndFree, zed_setZeroStatus, zed_setZeroPosition,
       clientVars, fileVars, busVars
  <2> QED
    BY <1>2, <2>1, SamePlace DEF RowData
<1> QED
  BY <1>3, <1>4, <1>5, <1>6, <1>7, <1>8, <1>9, <1>10, <1>11, <1>12, <1>13
     DEF Next, MainStep, MainWorks, AcceptStep, CreateStep, StopStep, ProbeStep

LEMMA SessionBegins == Init => AsSession!SessionInit
<1> SUFFICES ASSUME Init PROVE AsSession!SessionInit
  OBVIOUS
<1>1. NonePending /\ BusTypes /\ file = NoFile /\ disk = [f \in Files |-> <<>>]
  BY DataInit, SocketServerAssumption
     DEF DataInv, Init, BusInit, NonePending, NoneInText, NonePublished, NoneDelivered, AllTopics
<1>2. RowData = [f \in Files |-> <<>>]
  BY <1>1 DEF RowData
<1>3. Pending = <<>>
  BY <1>1, NothingPending
<1> QED
  BY <1>1, <1>2, <1>3, OpsAreMapped DEF AsSession!SessionInit, RowData

(* Six threads, two queues and a connection carry out an orderly client's  *)
(* commands as one sequential program would: CREATE opens the session's    *)
(* file, each PROBE becomes one row of it, STOP or leaving closes it, and  *)
(* nothing is performed twice, lost or out of order. A CREATE whose file   *)
(* does not open ends the process, unperformed.                            *)
THEOREM ServerImplementsSession ==
  ASSUME ClientKind = "orderly" PROVE Spec => ImplementsSession
<1>1. Typed /\ SessionInv /\ [Next]_vars
        => [AsSession!SessionNext]_AsSession!sessionVars
  BY EachStepIsASession
<1> QED
  BY <1>1, SessionBegins, SessionInvHolds, PTL
     DEF Spec, ImplementsSession, AsSession!SessionSpec

==============================================================================
