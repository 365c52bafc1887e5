---------------------------- MODULE ServerDataProofs ----------------------------
(***************************************************************************)
(* What the server's messages, files and positions contain, for every set  *)
(* of commands, kind of client and number of commands and clients: the     *)
(* types, the order of the rows and the last status shown.                 *)
(***************************************************************************)
EXTENDS SocketServerProofs, SequenceTheorems, FiniteSetTheorems

(* What is published on each topic; each callback relies on its own part.  *)
PayloadsOf(t) ==
  {p \in Payloads : /\ t = "CreateFile" => p.arg \in Files
                    /\ t = "Probe"      => p.n \in 1..MaxCommands
                    /\ t = "ZED_Status" => p.arg \in Statuses}

Posted == {m \in [topic : Topics, data : Payloads] : m.data \in PayloadsOf(m.topic)}

Asked == {c \in Requests : c.command = CREATE /\ c.args = "valid" => c.arg \in Files}

CommandTypes ==
  /\ pipe \in Seq(Asked) /\ message \in Seq(Asked)
  /\ wanted \in Seq([by : 0..MaxClients, file : Files \cup {NoFile}])
  /\ Len(wanted) <= MaxCommands

BusTypes ==
  /\ outbox \in Seq(Posted)
  /\ inbox \in [Topics -> Seq(Payloads)]
  /\ \A t \in Topics : inbox[t] \in Seq(PayloadsOf(t))

ActorTypes ==
  /\ client \in 0..MaxClients
  /\ connected \/ pipe # <<>> \/ pc["main"] = "execute" => client >= 1
  /\ trackerPc \in TrackerPcs /\ (trackerPc # "none" => generation >= 1)
  /\ position \in Positions /\ cameraStatus \in Statuses

StateTypes ==
  /\ file \in Files \cup {NoFile}
  /\ disk \in [Files -> Seq(Rows)]
  /\ zed_status \in Statuses /\ zed_pos \in Positions
  /\ fault \in Faults

(* A tracker is constructed by a CREATE, one of the commands sent.         *)
Creates == {a \in 1..Len(outbox) : outbox[a].topic = "CreateFile"}
Constructing == IF pc["CreateFile"] = "construct" THEN 1 ELSE 0
GenerationsAsked ==
  /\ IsFiniteSet(Creates)
  /\ generation + Constructing + Len(inbox["CreateFile"]) + Cardinality(Creates)
       + Len(message) + Len(pipe) <= Len(wanted)

DataInv == CommandTypes /\ BusTypes /\ ActorTypes /\ StateTypes /\ GenerationsAsked

(* The serials in s, from one greater than lo up to hi, rise; 0 is none.   *)
Rising(s, lo, hi) ==
  \A a \in DOMAIN s : s[a] # 0 =>
    /\ lo < s[a] /\ s[a] <= hi
    /\ \A b \in DOMAIN s : a < b /\ s[b] # 0 => s[a] < s[b]

(* The serials of the probes on their way, and of the rows of a file.      *)
InPipe == [a \in 1..Len(pipe) |-> pipe[a].n]
InMessage == [a \in 1..Len(message) |-> message[a].n]
Published ==
  [a \in 1..Len(outbox) |-> IF outbox[a].topic = "Probe" THEN outbox[a].data.n ELSE 0]
Delivered == [a \in 1..Len(inbox["Probe"]) |-> inbox["Probe"][a].n]
Recorded(f) ==
  [a \in 1..Len(disk[f]) |-> IF disk[f][a].data = NoField THEN 0 ELSE disk[f][a].data]

(* A probe never overtakes another: four numbers tell the serials in the   *)
(* files from those delivered, published, received and sent.               *)
Separated(d, i, o, m) ==
  /\ d <= i /\ i <= o /\ o <= m /\ m <= Len(wanted)
  /\ \A f \in Files : Rising(Recorded(f), 0, d)
  /\ Rising(Delivered, d, i)
  /\ Rising(Published, i, o)
  /\ Rising(InMessage, o, m)
  /\ Rising(InPipe, m, Len(wanted))

RowsInv == \E d, i, o, m \in 0..Len(wanted) : Separated(d, i, o, m)

(* The last status that has been or will be shown is Stop.                 *)
NoStatusIn(q) == \A a \in 1..Len(q) : q[a].topic # "ZED_Status"
LastPublished ==
  \A a \in 1..Len(outbox) :
    /\ outbox[a].topic = "ZED_Status"
    /\ \A b \in 1..Len(outbox) : a < b => outbox[b].topic # "ZED_Status"
    => outbox[a].data.arg = "Stop"
LastDelivered ==
  NoStatusIn(outbox) /\ inbox["ZED_Status"] # <<>>
    => inbox["ZED_Status"][Len(inbox["ZED_Status"])].arg = "Stop"
LastShown == NoStatusIn(outbox) /\ inbox["ZED_Status"] = <<>> => zed_status = "Stop"
StatusInv ==
  trackerPc \in {"none", "exited"} => LastPublished /\ LastDelivered /\ LastShown

StatusHasRoom == Len(inbox["ZED_Status"]) < HighWater

------------------------------------------------------------------------------
(* The bus                                                                 *)

LEMMA PublishKeeps ==
  ASSUME BusTypes, NEW t \in Topics, NEW p \in PayloadsOf(t), Publish(t, p)
  PROVE  BusTypes'
<1>1. [topic |-> t, data |-> p] \in Posted
  BY DEF Posted, PayloadsOf
<1>2. outbox' \in Seq(Posted)
  BY <1>1, AppendProperties DEF BusTypes, Publish
<1> QED
  BY <1>2 DEF BusTypes, Publish

LEMMA TakeKeeps ==
  ASSUME BusTypes, NEW t \in Topics, Take(t)
  PROVE  BusTypes' /\ Head(inbox[t]) \in PayloadsOf(t)
<1>1. /\ inbox[t] \in Seq(PayloadsOf(t)) /\ inbox[t] \in Seq(Payloads) /\ inbox[t] # <<>>
      /\ inbox' = [inbox EXCEPT ![t] = Tail(inbox[t])] /\ outbox' = outbox
  BY DEF BusTypes, Take
<1>2. Head(inbox[t]) \in PayloadsOf(t) /\ Tail(inbox[t]) \in Seq(PayloadsOf(t))
  BY <1>1, HeadTailProperties
<1>3. Tail(inbox[t]) \in Seq(Payloads)
  BY <1>1, HeadTailProperties
<1>4. inbox' \in [Topics -> Seq(Payloads)] /\ \A u \in Topics : inbox'[u] \in Seq(PayloadsOf(u))
  BY <1>1, <1>2, <1>3 DEF BusTypes
<1> QED
  BY <1>1, <1>2, <1>4 DEF BusTypes

LEMMA TransmitKeepsTypes ==
  ASSUME BusTypes, Transmit
  PROVE  BusTypes'
<1> DEFINE m == Head(outbox)
           q == inbox[m.topic]
<1>1. m \in Posted /\ outbox' \in Seq(Posted)
  BY HeadTailProperties DEF BusTypes, Transmit
<1>2. m.topic \in Topics /\ m.data \in PayloadsOf(m.topic) /\ m.data \in Payloads
  BY <1>1 DEF Posted
<1>3. inbox' = [inbox EXCEPT ![m.topic] = IF Len(q) < HighWater THEN Append(q, m.data) ELSE q]
  BY DEF Transmit
<1> HIDE DEF m
<1>4. q \in Seq(PayloadsOf(m.topic)) /\ q \in Seq(Payloads)
  BY <1>2 DEF BusTypes
<1>5. Append(q, m.data) \in Seq(PayloadsOf(m.topic)) /\ Append(q, m.data) \in Seq(Payloads)
  BY <1>2, <1>4, AppendProperties
<1>6. inbox' \in [Topics -> Seq(Payloads)] /\ \A u \in Topics : inbox'[u] \in Seq(PayloadsOf(u))
  BY <1>2, <1>3, <1>4, <1>5 DEF BusTypes
<1> QED
  BY <1>1, <1>6 DEF BusTypes

------------------------------------------------------------------------------
(* Commands                                                                *)

(* Only a CREATE whose arguments decode becomes a CreateFile.              *)
LEMMA CreateNamesFile ==
  ASSUME NEW c, c.command \in Int, c.args \in ArgsKinds,
         c.command = CREATE /\ c.args = "valid" => c.arg \in Files,
         "CreateFile" \in createCommand(c)
  PROVE  c.arg \in Files
<1>1. c.command \in Int /\ c.args \in ArgsKinds
  OBVIOUS
<1>2. CASE c.command = CREATE
  <2>1. c.args = "valid"
    <3>1. /\ c.command # NotInt /\ c.command # Absent /\ NeedsArgs(c)
          /\ c.command \notin {STOP, GETINFO}
      BY <1>2 DEF NotInt, Absent, NeedsArgs, CREATE, STOP, GETINFO
    <3>2. CASE c.args = "absent"
      BY <3>1, <3>2 DEF createCommand
    <3>3. CASE c.args = "invalid"
      BY <3>1, <3>3 DEF createCommand
    <3> QED
      BY <1>1, <3>2, <3>3 DEF ArgsKinds
  <2> QED
    BY <1>2, <2>1
<1>3. CASE c.command # CREATE
  <2>1. c.command \in {PROBE, STOP, GETINFO} => CommandTopic(c.command) # "CreateFile"
    BY <1>3 DEF CommandTopic, CREATE, PROBE, STOP, GETINFO
  <2> QED
    BY <1>1, <1>3, <2>1 DEF createCommand, NeedsArgs, ArgsKinds
<1> QED
  BY <1>2, <1>3

(* What execute_command publishes is what the callback of its topic needs. *)
LEMMA ExecutePublishes ==
  ASSUME CommandTypes, ActorTypes, execute_command
  PROVE  \/ \E t \in CmdTopics : \E p \in PayloadsOf(t) :
              /\ Len(message) = 1 /\ Publish(t, p)
              /\ t = "Probe" => p.n = message[1].n
              /\ p.by = client /\ p.arg = message[1].arg
              /\ t \in createCommand(message[1]) /\ fault' = fault
         \/ /\ UNCHANGED busVars
            /\ \E o \in executeCommand(message) :
                 o \notin CmdTopics /\ (fault' = fault \/ o = "crash")
<1>1. PICK o \in executeCommand(message) :
         \/ /\ o \in CmdTopics /\ fault' = fault
            /\ Publish(o, Payload(client, IF o = "Probe" THEN message[1].n ELSE 0,
                                  message[1].arg))
         \/ /\ o \notin CmdTopics /\ UNCHANGED busVars
            /\ fault' = fault \/ o = "crash"
  BY DEF execute_command, CmdTopics, Terminate
<1>2. CASE o \in CmdTopics
  <2> DEFINE c == message[1]
             p == Payload(client, IF o = "Probe" THEN c.n ELSE 0, c.arg)
  <2>1. Len(message) = 1 /\ o \in createCommand(c)
    BY <1>1, <1>2 DEF executeCommand, CmdTopics
  <2>2. c \in Asked
    BY <2>1, ElementOfSeq DEF CommandTypes
  <2>3. o = "CreateFile" => c.arg \in Files
    BY <2>1, <2>2, CreateNamesFile DEF Asked, Requests
  <2>4. client \in 1..(MaxClients + MaxCommands)
    BY SocketServerAssumption DEF ActorTypes, execute_command
  <2>5. p.n \in Positions /\ (o = "Probe" => p.n \in 1..MaxCommands)
    BY <2>2 DEF Asked, Requests, Payload, Positions, Zero
  <2>6. p.arg = c.arg /\ p.arg \in {"-"} \cup Files \cup Statuses
    BY <2>2 DEF Asked, Requests, Payload
  <2>7. p \in Payloads
    BY <2>4, <2>5, <2>6 DEF Payloads, Payload
  <2>8. p \in PayloadsOf(o)
    BY <1>2, <2>3, <2>5, <2>6, <2>7 DEF PayloadsOf, CmdTopics
  <2>9. /\ Publish(o, p) /\ (o = "Probe" => p.n = c.n) /\ fault' = fault
        /\ p.by = client /\ p.arg = c.arg
    BY <1>1, <1>2 DEF Payload
  <2> QED
    BY <1>2, <2>1, <2>8, <2>9
<1> QED
  BY <1>1, <1>2

(* The generations that TypeOK allows are those of the commands sent.      *)
LEMMA GenerationBound ==
  ASSUME ResetTypes, CommandTypes, BusTypes, GenerationsAsked
  PROVE  /\ generation \in 0..MaxCommands
         /\ pc["CreateFile"] = "construct" => generation + 1 \in 1..MaxCommands
<1> DEFINE i == Len(inbox["CreateFile"])
           o == Cardinality(Creates)
           m == Len(message)
           p == Len(pipe)
           w == Len(wanted)
<1>1. i \in Nat /\ o \in Nat /\ m \in Nat /\ p \in Nat /\ w \in Nat
  BY LenProperties, FS_CardinalityType, SocketServerAssumption
     DEF BusTypes, CommandTypes, GenerationsAsked, AllTopics, CmdTopics
<1>2. Constructing \in {0, 1} /\ (pc["CreateFile"] = "construct" => Constructing = 1)
  BY DEF Constructing
<1>3. generation \in Nat /\ w <= MaxCommands /\ MaxCommands \in Nat
  BY SocketServerAssumption DEF ResetTypes, CommandTypes
<1>4. generation + Constructing + i + o + m + p <= w
  BY DEF GenerationsAsked
<1> HIDE DEF i, o, m, p, w
<1>5. generation + Constructing <= MaxCommands
  BY <1>1, <1>2, <1>3, <1>4
<1> QED
  BY <1>2, <1>3, <1>5

LEMMA TrackerPublishes ==
  ASSUME ResetTypes, DataInv, TrackerStep
  PROVE  /\ BusTypes' /\ ActorTypes'
         /\ \/ UNCHANGED busVars
            \/ \E t \in {"ZED_Position", "ZED_Status"} : \E p \in PayloadsOf(t) : Publish(t, p)
<1>1. generation \in Nat /\ generation \in 0..MaxCommands
  BY GenerationBound DEF DataInv, ResetTypes
<1>2. trackerPc \notin {"none", "exited"} /\ generation \in 1..MaxCommands
  BY <1>1 DEF TrackerStep, TrackerNext, TestTracking, PublishPosition, PublishStatus,
     PublishStop, DataInv, ActorTypes
<1>3. generation \in 1..(MaxClients + MaxCommands) /\ generation \in Positions
  BY <1>2, SocketServerAssumption DEF Positions
<1>4. {"ZED_Position", "ZED_Status"} \subseteq Topics
  BY SocketServerAssumption DEF AllTopics
<1>5. UNCHANGED <<client, connected, pipe, pc>>
  BY DEF TrackerStep, serverVars, clientVars
<1> USE DEF DataInv
<1>6. CASE TestTracking
  BY <1>5, <1>6 DEF TestTracking, BusTypes, ActorTypes, TrackerPcs, busVars
<1>7. CASE PublishPosition
  <2>1. position' \in Positions /\ cameraStatus' \in Statuses /\ trackerPc' = "status"
        /\ generation' = generation
    BY <1>3, <1>7, SocketServerAssumption DEF PublishPosition, ActorTypes, Statuses
  <2>2. Payload(generation, position', "-") \in PayloadsOf("ZED_Position")
    BY <1>3, <2>1 DEF PayloadsOf, Payloads, Payload
  <2>3. Publish("ZED_Position", Payload(generation, position', "-"))
    BY <1>7 DEF PublishPosition
  <2>4. BusTypes'
    BY <1>4, <2>2, <2>3, PublishKeeps
  <2> QED
    BY <1>2, <1>5, <2>1, <2>2, <2>3, <2>4 DEF ActorTypes, TrackerPcs
<1>8. CASE PublishStatus \/ PublishStop
  <2>1. PICK s \in Statuses : Publish("ZED_Status", Payload(generation, 0, s))
    BY <1>8 DEF PublishStatus, PublishStop, ActorTypes, Statuses
  <2>2. Payload(generation, 0, s) \in PayloadsOf("ZED_Status")
    BY <1>3, <2>1 DEF PayloadsOf, Payloads, Payload, Positions, Zero
  <2>3. BusTypes'
    BY <1>4, <2>1, <2>2, PublishKeeps
  <2>4. /\ trackerPc' \in {"loop", "exited"}
        /\ UNCHANGED <<generation, position, cameraStatus>>
    BY <1>8 DEF PublishStatus, PublishStop
  <2> QED
    BY <1>2, <1>5, <2>1, <2>2, <2>3, <2>4 DEF ActorTypes, TrackerPcs
<1> QED
  BY <1>6, <1>7, <1>8 DEF TrackerStep, TrackerNext

------------------------------------------------------------------------------
(* Types                                                                   *)

LEMMA SendKeepsTypes ==
  ASSUME CommandTypes, ActorTypes, NEW c \in Commands, Send(c)
  PROVE  CommandTypes'
<1> DEFINE x == [command |-> c.command, args |-> c.args, arg |-> c.arg, n |-> Len(wanted')]
           w == [by |-> client, file |-> WantsAfter(c)]
<1>1. /\ wanted' = Append(wanted, w) /\ pipe' = Append(pipe, x) /\ message' = message
      /\ Len(wanted) < MaxCommands
  BY DEF Send
<1>2. /\ c \in [command : Int, args : ArgsKinds, arg : {"-"} \cup Files]
      /\ c.command = CREATE /\ c.args = "valid" => c.arg \in Files
  BY CommandsAssumption
<1>3. /\ Len(wanted') = Len(wanted) + 1 /\ Len(wanted) \in Nat
  BY <1>1, AppendProperties, LenProperties DEF CommandTypes, Send
<1>4. x \in Asked
  BY <1>1, <1>2, <1>3, SocketServerAssumption DEF Asked, Requests
<1>5. w \in [by : 0..MaxClients, file : Files \cup {NoFile}]
  <2>1. ASSUME "CreateFile" \in createCommand(c) PROVE c.arg \in Files
    <3>1. /\ c.command \in Int /\ c.args \in ArgsKinds
          /\ c.command = CREATE /\ c.args = "valid" => c.arg \in Files
      BY <1>2
    <3> QED
      BY <2>1, <3>1, CreateNamesFile
  <2>2. Wants \in Files \cup {NoFile}
    <3>1. wanted # <<>> => wanted[Len(wanted)] \in [by : 0..MaxClients, file : Files \cup {NoFile}]
      <4>1. /\ wanted \in Seq([by : 0..MaxClients, file : Files \cup {NoFile}])
            /\ wanted # <<>> => Len(wanted) \in 1..Len(wanted)
        BY <1>3, EmptySeq DEF CommandTypes
      <4> QED
        BY <4>1, ElementOfSeq, Zenon
    <3> QED
      BY <3>1 DEF Wants
  <2>3. WantsAfter(c) \in Files \cup {NoFile}
    <3>1. CASE createCommand(c) = {"CreateFile"}
      BY <2>1, <3>1 DEF WantsAfter
    <3>2. CASE createCommand(c) = {"StopTest"}
      BY <3>2 DEF WantsAfter
    <3>3. CASE createCommand(c) # {"CreateFile"} /\ createCommand(c) # {"StopTest"}
      BY <2>2, <3>3 DEF WantsAfter
    <3> QED
      BY <3>1, <3>2, <3>3
  <2> QED
    BY <2>3 DEF ActorTypes
<1> HIDE DEF x, w
<1>6. /\ pipe' \in Seq(Asked)
      /\ wanted' \in Seq([by : 0..MaxClients, file : Files \cup {NoFile}])
  BY <1>1, <1>4, <1>5, AppendProperties DEF CommandTypes
<1> QED
  BY <1>1, <1>3, <1>6, SocketServerAssumption DEF CommandTypes

LEMMA ReceiveKeepsTypes ==
  ASSUME CommandTypes, MessageInv, waiting_command
  PROVE  /\ CommandTypes'
         /\ \E k \in 1..Len(pipe) :
              /\ message' = SubSeq(pipe, 1, k)
              /\ pipe' = SubSeq(pipe, k + 1, Len(pipe))
              /\ Len(message') = k /\ Len(pipe') = Len(pipe) - k
              /\ \A a \in 1..k : message'[a] = pipe[a]
              /\ \A a \in 1..(Len(pipe) - k) : pipe'[a] = pipe[k + a]
<1>1. PICK k \in 1..Len(pipe) :
        /\ message' = message \o SubSeq(pipe, 1, k)
        /\ pipe' = SubSeq(pipe, k + 1, Len(pipe))
  BY DEF waiting_command
<1>2. pipe \in Seq(Asked) /\ message = <<>> /\ Len(pipe) \in Nat
  BY LenProperties DEF CommandTypes, MessageInv, waiting_command
<1>3. /\ SubSeq(pipe, 1, k) \in Seq(Asked) /\ Len(SubSeq(pipe, 1, k)) = k
      /\ \A a \in 1..k : SubSeq(pipe, 1, k)[a] = pipe[a]
  BY <1>2, SubSeqProperties
<1>4. /\ pipe' \in Seq(Asked) /\ Len(pipe') = Len(pipe) - k
      /\ \A a \in 1..(Len(pipe) - k) : pipe'[a] = pipe[k + a]
  BY <1>1, <1>2, SubSeqProperties
<1>5. message' = SubSeq(pipe, 1, k)
  BY <1>1, <1>2, <1>3, ConcatEmptySeq, Zenon
<1> QED
  BY <1>1, <1>3, <1>4, <1>5 DEF CommandTypes, waiting_command, clientVars

LEMMA CommandTypesStep ==
  CommandTypes /\ ActorTypes /\ MessageInv /\ [Next]_vars => CommandTypes'
<1> SUFFICES ASSUME CommandTypes, ActorTypes, MessageInv, [Next]_vars PROVE CommandTypes'
  OBVIOUS
<1>1. CASE \E c \in Commands : Send(c)
  BY <1>1, SendKeepsTypes
<1>2. CASE waiting_command
  BY <1>2, ReceiveKeepsTypes
<1>3. CASE AcceptStep \/ waiting_command_failed \/ execute_command
  <2>1. <<>> \in Seq(Asked)
    BY EmptySeq
  <2>2. /\ pipe' = pipe \/ pipe' = <<>>
        /\ message' = message \/ message' = <<>>
        /\ wanted' = wanted
    BY <1>3 DEF AcceptStep, waiting_connection, waiting_connection_failed,
       waiting_connection_again, waiting_command_failed, execute_command, clientVars
  <2> QED
    BY <2>1, <2>2 DEF CommandTypes
<1>4. CASE UNCHANGED <<pipe, message, wanted>>
  BY <1>4 DEF CommandTypes
<1> QED
  BY <1>1, <1>2, <1>3, <1>4 DEF Next, Disconnect, MainStep, MainWorks, AcceptStep, Reset,
     ResetLoad, ResetStore, DeleteTracker, JoinAndFree, zed_setZeroStatus, zed_setZeroPosition,
     CreateStep, createFile_callback, createFile_throws, ConstructTracker, StopStep,
     stop_callback, ProbeStep, probe_callback, ProbePosition, getInfo_callback,
     zedStatus_callback, zedPosition_callback,
     TrackerStep, TransmitStep, serverVars, vars, clientVars

LEMMA BusTypesStep ==
  ResetTypes /\ DataInv /\ [Next]_vars => BusTypes'
<1> SUFFICES ASSUME ResetTypes, DataInv, [Next]_vars PROVE BusTypes'
  OBVIOUS
<1>1. BusTypes /\ CommandTypes /\ ActorTypes
  BY DEF DataInv
<1>2. AllTopics = Topics /\ CmdTopics \subseteq Topics
  BY SocketServerAssumption DEF AllTopics
<1>3. CASE execute_command
  <2>1. CASE UNCHANGED busVars
    BY <1>1, <2>1 DEF busVars, BusTypes
  <2>2. CASE \E t \in CmdTopics : \E p \in PayloadsOf(t) : Publish(t, p)
    BY <1>1, <1>2, <2>2, PublishKeeps
  <2> QED
    BY <1>1, <1>3, <2>1, <2>2, ExecutePublishes
<1>4. CASE TrackerStep
  BY <1>4, TrackerPublishes
<1>5. CASE TransmitStep
  BY <1>1, <1>5, TransmitKeepsTypes DEF TransmitStep
<1>6. ASSUME NEW t \in AllTopics, Take(t) PROVE BusTypes'
  BY <1>1, <1>2, <1>6, TakeKeeps
<1>7. CASE \/ createFile_callback \/ stop_callback \/ probe_callback \/ getInfo_callback
           \/ zedStatus_callback \/ zedPosition_callback
  BY <1>6, <1>7 DEF createFile_callback, stop_callback, probe_callback, getInfo_callback,
     zedStatus_callback, zedPosition_callback, AllTopics, CmdTopics
<1>8. CASE UNCHANGED busVars
  BY <1>1, <1>8 DEF busVars, BusTypes
<1> QED
  BY <1>3, <1>4, <1>5, <1>7, <1>8 DEF Next, Send, Disconnect, MainStep, MainWorks, AcceptStep,
     waiting_connection, waiting_connection_failed, waiting_connection_again, waiting_command,
     waiting_command_failed, Reset, ResetLoad, ResetStore, DeleteTracker, JoinAndFree,
     zed_setZeroStatus, zed_setZeroPosition, CreateStep, createFile_throws, ConstructTracker,
     StopStep, ProbeStep, ProbePosition, vars

LEMMA ActorTypesStep ==
  ResetTypes /\ DataInv /\ [Next]_vars => ActorTypes'
<1> SUFFICES ASSUME ResetTypes, DataInv, [Next]_vars PROVE ActorTypes'
  OBVIOUS
<1> USE DEF Go, ActorTypes, Threads
<1>1. /\ ActorTypes /\ generation \in Nat /\ pc \in [Threads -> Steps]
      /\ client \in Nat /\ MaxClients \in Nat
  BY SocketServerAssumption DEF DataInv, ResetTypes
<1>2. CASE AcceptStep
  <2>1. CASE waiting_connection
    <3>1. client < MaxClients /\ client' = client + 1
      BY <2>1 DEF waiting_connection
    <3>2. client' \in 0..MaxClients /\ client' >= 1
      BY <1>1, <3>1
    <3> QED
      BY <1>1, <2>1, <3>2 DEF waiting_connection, trackerVars
  <2>2. CASE waiting_connection_failed \/ waiting_connection_again
    BY <1>1, <2>2 DEF waiting_connection_failed, waiting_connection_again, clientVars,
       trackerVars
  <2> QED
    BY <1>2, <2>1, <2>2 DEF AcceptStep
<1>3. CASE waiting_command
  <2>1. pipe # <<>>
    BY <1>3 DEF waiting_command
  <2> QED
    BY <1>1, <1>3, <2>1 DEF waiting_command, trackerVars
<1>4. CASE waiting_command_failed \/ execute_command
  BY <1>1, <1>4 DEF waiting_command_failed, execute_command, trackerVars, clientVars
<1>5. ASSUME NEW th \in {"main", "CreateFile", "StopTest"}, Reset(th) PROVE ActorTypes'
  BY <1>1, <1>5 DEF Reset, ResetLoad, ResetStore, AfterReset, DeleteTracker, StopTracking,
     JoinAndFree, JoinTracker, zed_setZeroStatus, zed_setZeroPosition, clientVars, trackerVars,
     TrackerPcs
<1>6. CASE ConstructTracker
  BY <1>1, <1>6, SocketServerAssumption DEF ConstructTracker, StartTracker, trackerVars,
     clientVars, Positions, Statuses, TrackerPcs
<1>7. CASE TrackerStep
  BY <1>7, TrackerPublishes
<1>8. CASE \/ createFile_callback \/ createFile_throws \/ stop_callback \/ ProbeStep
           \/ getInfo_callback \/ zedStatus_callback \/ zedPosition_callback
  BY <1>1, <1>8 DEF createFile_callback, createFile_throws, stop_callback, ProbeStep,
     probe_callback,
     ProbePosition, getInfo_callback, zedStatus_callback, zedPosition_callback, clientVars,
     trackerVars
<1>9. CASE Disconnect \/ TransmitStep \/ UNCHANGED vars
  BY <1>1, <1>9 DEF Disconnect, TransmitStep, serverVars, vars, clientVars, trackerVars
<1>10. ASSUME NEW c \in Commands, Send(c) PROVE ActorTypes'
  <2>1. connected /\ UNCHANGED <<client, connected, pc, trackerVars>>
    BY <1>10 DEF Send
  <2>2. client >= 1
    BY <1>1, <2>1
  <2> QED
    BY <1>1, <2>1, <2>2 DEF trackerVars
<1> QED
  BY <1>2, <1>3, <1>4, <1>5, <1>6, <1>7, <1>8, <1>9, <1>10
     DEF Next, MainStep, MainWorks, AcceptStep, CreateStep, StopStep

LEMMA ProbeWrites ==
  ASSUME BusTypes, StateTypes, probe_callback
  PROVE  StateTypes'
<1> DEFINE row == [data |-> Head(inbox["Probe"]).n, pos |-> NoField]
<1>1. row \in Rows
  BY TakeKeeps, SocketServerAssumption
     DEF probe_callback, PayloadsOf, AllTopics, CmdTopics, Rows
<1> HIDE DEF row
<1>2. disk' = IF file = NoFile THEN disk ELSE [disk EXCEPT ![file] = Append(@, row)]
  BY DEF probe_callback, row
<1>3. disk' \in [Files -> Seq(Rows)]
  <2>1. CASE file = NoFile
    BY <1>2, <2>1 DEF StateTypes
  <2>2. CASE file # NoFile
    <3>1. file \in Files /\ Append(disk[file], row) \in Seq(Rows)
      BY <1>1, <2>2, AppendProperties DEF StateTypes
    <3> QED
      BY <1>2, <2>2, <3>1 DEF StateTypes
  <2> QED
    BY <2>1, <2>2
<1> QED
  BY <1>3 DEF probe_callback, StateTypes, zedVars

(* The rows as ProbePosition leaves them: at most one more, without data.  *)
LEMMA PositionWrites ==
  ASSUME StateTypes, ProbePosition
  PROVE  /\ StateTypes'
         /\ \A f \in Files :
              /\ Len(disk'[f]) \in {Len(disk[f]), Len(disk[f]) + 1}
              /\ \A a \in 1..Len(disk[f]) : disk'[f][a].data = disk[f][a].data
              /\ Len(disk'[f]) = Len(disk[f]) + 1 => disk'[f][Len(disk'[f])].data = NoField
<1>1. CASE file = NoFile
  BY <1>1 DEF ProbePosition, StateTypes, zedVars
<1>2. CASE file # NoFile
  <2> DEFINE rows == disk[file]
             n == Len(rows)
             row == [data |-> NoField, pos |-> zed_pos]
             next == IF EndsOpen(rows) THEN [rows EXCEPT ![n].pos = zed_pos]
                     ELSE Append(rows, row)
  <2>1. file \in Files /\ rows \in Seq(Rows) /\ n \in Nat /\ zed_pos \in Positions
    BY <1>2, LenProperties DEF StateTypes
  <2>2. disk' = [disk EXCEPT ![file] = next]
    BY <1>2 DEF ProbePosition
  <2>3. /\ next \in Seq(Rows) /\ Len(next) \in {n, n + 1}
        /\ \A a \in 1..n : next[a].data = rows[a].data
        /\ Len(next) = n + 1 => next[n + 1].data = NoField
    <3>1. CASE EndsOpen(rows)
      <4>1. n \in 1..n
        BY <2>1, <3>1, EmptySeq DEF EndsOpen
      <4>2. rows[n] \in Rows
        BY <2>1, <4>1, ElementOfSeq
      <4>3. next = [rows EXCEPT ![n] = [rows[n] EXCEPT !.pos = zed_pos]]
        BY <3>1
      <4>4. [rows[n] EXCEPT !.pos = zed_pos] \in Rows
            /\ [rows[n] EXCEPT !.pos = zed_pos].data = rows[n].data
        BY <2>1, <4>2 DEF Rows
      <4>5. next \in Seq(Rows) /\ Len(next) = n
        BY <2>1, <4>1, <4>3, <4>4, ExceptSeq
      <4>6. ASSUME NEW a \in 1..n PROVE next[a].data = rows[a].data
        BY <2>1, <4>3, <4>4
      <4> QED
        BY <2>1, <4>5, <4>6
    <3>2. CASE ~EndsOpen(rows)
      <4>1. row \in Rows /\ row.data = NoField
        BY <2>1 DEF Rows
      <4>2. next = Append(rows, row)
        BY <3>2
      <4> HIDE DEF row
      <4> QED
        BY <2>1, <4>1, <4>2, AppendProperties
    <3> QED
      BY <3>1, <3>2
  <2> HIDE DEF next
  <2>4. disk' \in [Files -> Seq(Rows)]
    BY <2>1, <2>2, <2>3 DEF StateTypes
  <2>5. \A f \in Files : f # file => disk'[f] = disk[f]
    BY <2>1, <2>2 DEF StateTypes
  <2>6. disk'[file] = next
    BY <2>1, <2>2 DEF StateTypes
  <2> QED
    BY <2>1, <2>3, <2>4, <2>5, <2>6 DEF ProbePosition, StateTypes, zedVars
<1> QED
  BY <1>1, <1>2

LEMMA StateTypesStep ==
  ResetTypes /\ DataInv /\ [Next]_vars => StateTypes'
<1> SUFFICES ASSUME ResetTypes, DataInv, [Next]_vars PROVE StateTypes'
  OBVIOUS
<1>1. BusTypes /\ StateTypes
  BY DEF DataInv
<1>2. AllTopics = Topics
  BY SocketServerAssumption
<1> USE DEF Terminate, StateTypes, Faults
<1>3. CASE createFile_callback
  <2>1. Head(inbox["CreateFile"]).arg \in Files
    BY <1>1, <1>2, <1>3, TakeKeeps DEF createFile_callback, AllTopics, CmdTopics, PayloadsOf
  <2> QED
    BY <1>1, <1>3, <2>1 DEF createFile_callback, zedVars
<1>4. CASE probe_callback
  BY <1>1, <1>4, ProbeWrites
<1>5. CASE ProbePosition
  BY <1>1, <1>5, PositionWrites
<1>6. CASE zedStatus_callback
  BY <1>1, <1>2, <1>6, TakeKeeps DEF zedStatus_callback, AllTopics, PayloadsOf, fileVars
<1>7. CASE zedPosition_callback
  BY <1>1, <1>2, <1>7, TakeKeeps DEF zedPosition_callback, AllTopics, PayloadsOf, Payloads,
     fileVars
<1>8. ASSUME NEW th \in {"main", "CreateFile", "StopTest"}, Reset(th) PROVE StateTypes'
  BY <1>1, <1>8 DEF Reset, ResetLoad, ResetStore, DeleteTracker, JoinAndFree,
     zed_setZeroStatus, zed_setZeroPosition, fileVars, zedVars, Statuses, Positions
<1>9. CASE \/ waiting_command_failed \/ execute_command \/ createFile_throws \/ stop_callback
           \/ ConstructTracker \/ getInfo_callback
  BY <1>1, <1>9 DEF waiting_command_failed, execute_command, createFile_throws, stop_callback,
     ConstructTracker, getInfo_callback, fileVars, zedVars
<1>10. CASE \/ \E c \in Commands : Send(c)
            \/ Disconnect \/ AcceptStep \/ waiting_command \/ TrackerStep
            \/ TransmitStep \/ UNCHANGED vars
  BY <1>1, <1>10 DEF Send, Disconnect, AcceptStep, waiting_connection,
     waiting_connection_failed, waiting_connection_again, waiting_command, TrackerStep,
     TransmitStep, serverVars, vars, fileVars, zedVars
<1> QED
  BY <1>3, <1>4, <1>5, <1>6, <1>7, <1>8, <1>9, <1>10
     DEF Next, MainStep, MainWorks, AcceptStep, CreateStep, StopStep, ProbeStep

------------------------------------------------------------------------------
(* Counting the CREATEs                                                    *)

LEMMA PublishCounts ==
  ASSUME BusTypes, IsFiniteSet(Creates), NEW t \in Topics, NEW p \in PayloadsOf(t), Publish(t, p)
  PROVE  /\ IsFiniteSet(Creates')
         /\ Cardinality(Creates') = Cardinality(Creates) + (IF t = "CreateFile" THEN 1 ELSE 0)
<1> DEFINE x == [topic |-> t, data |-> p]
           n == Len(outbox)
<1>1. x \in Posted /\ x.topic = t
  BY DEF Posted, PayloadsOf
<1>2. n \in Nat /\ outbox \in Seq(Posted) /\ outbox' = Append(outbox, x)
  BY LenProperties DEF BusTypes, Publish
<1> HIDE DEF x
<1>3. /\ Len(outbox') = n + 1 /\ outbox'[n + 1] = x
      /\ \A a \in 1..n : outbox'[a] = outbox[a]
  BY <1>1, <1>2, AppendProperties
<1>4. Creates' = IF t = "CreateFile" THEN Creates \cup {n + 1} ELSE Creates
  BY <1>1, <1>2, <1>3 DEF Creates
<1>5. n + 1 \notin Creates
  BY <1>2 DEF Creates
<1>6. Cardinality(Creates) \in Nat
  BY FS_CardinalityType
<1> QED
  BY <1>4, <1>5, <1>6, FS_AddElement

LEMMA TransmitCounts ==
  ASSUME BusTypes, IsFiniteSet(Creates), Transmit
  PROVE  /\ IsFiniteSet(Creates')
         /\ \E i, o \in Nat : /\ Len(inbox'["CreateFile"]) = i /\ Cardinality(Creates') = o
                             /\ i + o <= Len(inbox["CreateFile"]) + Cardinality(Creates)
<1> DEFINE m == Head(outbox)
           n == Len(outbox)
           q == inbox["CreateFile"]
           Rest == Creates \ {1}
           shift == [a \in Creates' |-> a + 1]
<1>1. /\ outbox \in Seq(Posted) /\ outbox # <<>> /\ outbox' = Tail(outbox)
      /\ n \in Nat \ {0} /\ m = outbox[1]
  BY EmptySeq DEF BusTypes, Transmit
<1>2. /\ m \in Posted /\ Len(outbox') = n - 1
      /\ \A a \in 1..(n - 1) : outbox'[a] = outbox[a + 1]
  BY <1>1, HeadTailProperties
<1>3. shift \in Injection(Creates', Rest)
  <2>1. \A a \in Creates' : a \in Int /\ a + 1 \in Rest
    BY <1>1, <1>2 DEF Creates
  <2> QED
    BY <2>1 DEF Injection, IsInjective
<1>4. IsFiniteSet(Rest) /\ Cardinality(Rest) = IF 1 \in Creates THEN Cardinality(Creates) - 1
                                               ELSE Cardinality(Creates)
  BY FS_RemoveElement
<1>5. IsFiniteSet(Creates') /\ Cardinality(Creates') <= Cardinality(Rest)
  BY <1>3, <1>4, FS_Injection
<1>6. /\ Cardinality(Creates') \in Nat /\ Cardinality(Rest) \in Nat
      /\ Cardinality(Creates) \in Nat
  BY <1>4, <1>5, FS_CardinalityType
<1>7. q \in Seq(Payloads) /\ Len(q) \in Nat /\ m.topic \in Topics /\ m.data \in Payloads
  BY <1>2, LenProperties, SocketServerAssumption DEF BusTypes, AllTopics, CmdTopics, Posted
<1>8. PICK o \in Nat : Cardinality(Creates') = o /\ o <= Cardinality(Rest)
  BY <1>5, <1>6
<1>9. CASE m.topic = "CreateFile"
  <2>1. 1 \in Creates
    BY <1>1, <1>9 DEF Creates
  <2>2. inbox'["CreateFile"] = q \/ inbox'["CreateFile"] = Append(q, m.data)
    BY <1>7, <1>9 DEF Transmit, BusTypes
  <2>3. PICK i \in Nat : Len(inbox'["CreateFile"]) = i /\ i <= Len(q) + 1
    BY <1>7, <2>2, AppendProperties
  <2>4. i + o <= Len(q) + Cardinality(Creates)
    <3> HIDE DEF q, Rest
    <3> QED
      BY <1>4, <1>6, <1>7, <1>8, <2>1, <2>3
  <2> QED
    BY <1>5, <1>8, <2>3, <2>4
<1>10. CASE m.topic # "CreateFile"
  <2>1. inbox'["CreateFile"] = q
    BY <1>7, <1>10 DEF Transmit, BusTypes
  <2>2. Len(q) + o <= Len(q) + Cardinality(Creates)
    <3> HIDE DEF q, Rest
    <3> QED
      BY <1>4, <1>6, <1>7, <1>8
  <2> QED
    BY <1>5, <1>7, <1>8, <2>1, <2>2
<1> QED
  BY <1>9, <1>10

LEMMA GenerationsStep ==
  ASSUME ResetTypes, DataInv, MessageInv, [Next]_vars
  PROVE  GenerationsAsked'
<1> DEFINE i == Len(inbox["CreateFile"])
           o == Cardinality(Creates)
           m == Len(message)
           p == Len(pipe)
           w == Len(wanted)
<1>1. BusTypes /\ CommandTypes /\ ActorTypes /\ IsFiniteSet(Creates)
  BY DEF DataInv, GenerationsAsked
<1>2. AllTopics = Topics /\ CmdTopics \subseteq Topics /\ "CreateFile" \in Topics
  BY SocketServerAssumption DEF AllTopics, CmdTopics
<1>3. /\ i \in Nat /\ o \in Nat /\ m \in Nat /\ p \in Nat /\ w \in Nat
      /\ generation \in Nat
  BY <1>1, <1>2, LenProperties, FS_CardinalityType DEF BusTypes, CommandTypes, ResetTypes
<1>4. pc \in [Threads -> Steps]
  BY DEF ResetTypes
<1>5. generation + Constructing + i + o + m + p <= w
  BY DEF DataInv, GenerationsAsked
<1>6. Constructing \in {0, 1}
  BY DEF Constructing
<1>7. Len(<<>>) = 0
  OBVIOUS
<1>8. outbox' = outbox => Creates' = Creates
  BY DEF Creates
<1>9. ASSUME IsFiniteSet(Creates'),
             generation' + Constructing' + i' + o' + m' + p' <= w'
      PROVE  GenerationsAsked'
  BY <1>9 DEF GenerationsAsked
<1>10. (pc'["CreateFile"] = pc["CreateFile"]) => Constructing' = Constructing
  BY DEF Constructing
<1>11. /\ UNCHANGED <<message, pipe, wanted>> => m' = m /\ p' = p /\ w' = w
       /\ UNCHANGED busVars => i' = i /\ o' = o /\ Creates' = Creates
  BY DEF busVars, Creates
(* Commands.                                                               *)
<1>12. ASSUME NEW c \in Commands, Send(c) PROVE GenerationsAsked'
  <2>1. w' = w + 1 /\ p' = p + 1 /\ m' = m
    <3>1. /\ pipe' \in Seq(Asked) /\ wanted' \in Seq([by : 0..MaxClients, file : Files \cup {NoFile}])
      BY <1>1, <1>12, SendKeepsTypes DEF CommandTypes
    <3> QED
      BY <1>1, <1>12, <3>1 DEF Send, CommandTypes
  <2>2. /\ i' = i /\ o' = o /\ IsFiniteSet(Creates') /\ generation' = generation
        /\ Constructing' = Constructing
    BY <1>1, <1>10, <1>11, <1>12 DEF Send, trackerVars
  <2> HIDE DEF i, o, m, p, w
  <2>3. generation' + Constructing' + i' + o' + m' + p' <= w'
    BY <1>3, <1>5, <1>6, <2>1, <2>2
  <2> QED
    BY <1>9, <2>3, <2>1, <2>2
<1>13. CASE waiting_connection \/ waiting_command_failed
  <2>1. w' = w /\ p' = 0 /\ m' = m
    BY <1>7, <1>13 DEF waiting_connection, waiting_command_failed
  <2>2. /\ i' = i /\ o' = o /\ IsFiniteSet(Creates') /\ generation' = generation
        /\ Constructing' = Constructing
    BY <1>1, <1>4, <1>10, <1>11, <1>13
       DEF waiting_connection, waiting_command_failed, trackerVars, Go, Threads
  <2> HIDE DEF i, o, m, p, w
  <2>3. generation' + Constructing' + i' + o' + m' + p' <= w'
    BY <1>3, <1>5, <1>6, <2>1, <2>2
  <2> QED
    BY <1>9, <2>3, <2>1, <2>2
<1>14. CASE waiting_command
  <2>1. PICK k \in Nat : w' = w /\ m = 0 /\ k <= p /\ m' = k /\ p' = p - k
    <3>1. PICK k \in 1..Len(pipe) : Len(message') = k /\ Len(pipe') = Len(pipe) - k
      BY <1>1, <1>14, ReceiveKeepsTypes
    <3>2. message = <<>> /\ wanted' = wanted
      BY <1>14 DEF waiting_command, MessageInv
    <3> QED
      BY <1>3, <1>7, <3>1, <3>2
  <2>2. /\ i' = i /\ o' = o /\ IsFiniteSet(Creates') /\ generation' = generation
        /\ Constructing' = Constructing
    BY <1>1, <1>4, <1>10, <1>11, <1>14 DEF waiting_command, trackerVars, Go, Threads
  <2> HIDE DEF i, o, m, p, w
  <2>3. generation' + Constructing' + i' + o' + m' + p' <= w'
    BY <1>3, <1>5, <1>6, <2>1, <2>2
  <2> QED
    BY <1>9, <2>3, <2>1, <2>2
<1>15. CASE execute_command
  <2>1. w' = w /\ p' = p /\ m' = 0
    BY <1>7, <1>15 DEF execute_command, clientVars
  <2>2. generation' = generation /\ Constructing' = Constructing
    BY <1>4, <1>10, <1>15 DEF execute_command, trackerVars, Go, Threads
  <2>3. CASE UNCHANGED busVars
    <3>1. i' = i /\ o' = o /\ IsFiniteSet(Creates')
      BY <1>1, <1>11, <2>3
    <3> HIDE DEF i, o, m, p, w
    <3>2. generation' + Constructing' + i' + o' + m' + p' <= w'
      BY <1>3, <1>5, <1>6, <2>1, <2>2, <3>1
    <3> QED
      BY <1>9, <3>2, <2>1, <2>2, <3>1
  <2>4. ASSUME NEW t \in CmdTopics, NEW d \in PayloadsOf(t), Len(message) = 1, Publish(t, d)
        PROVE GenerationsAsked'
    <3>1. m = 1 /\ i' = i
      BY <2>4 DEF Publish
    <3>2. IsFiniteSet(Creates') /\ (o' = o \/ o' = o + 1)
      BY <1>1, <1>2, <1>3, <2>4, PublishCounts
    <3> HIDE DEF i, o, m, p, w
    <3>3. generation' + Constructing' + i' + o' + m' + p' <= w'
      BY <1>3, <1>5, <1>6, <2>1, <2>2, <3>1, <3>2
    <3> QED
      BY <1>9, <3>3, <2>1, <2>2, <3>1, <3>2
  <2> QED
    BY <1>1, <1>15, <2>3, <2>4, ExecutePublishes
(* The bus and the tracker.                                                *)
<1>16. CASE TransmitStep
  <2>1. /\ w' = w /\ p' = p /\ m' = m /\ generation' = generation
        /\ Constructing' = Constructing
    BY <1>10, <1>11, <1>16 DEF TransmitStep, serverVars, clientVars, trackerVars
  <2>2. PICK x, y \in Nat : IsFiniteSet(Creates') /\ i' = x /\ o' = y /\ x + y <= i + o
    BY <1>1, <1>16, TransmitCounts DEF TransmitStep
  <2> HIDE DEF i, o, m, p, w
  <2>3. generation' + Constructing' + i' + o' + m' + p' <= w'
    BY <1>3, <1>5, <1>6, <2>1, <2>2
  <2> QED
    BY <1>9, <2>3, <2>1, <2>2
<1>17. CASE TrackerStep
  <2>1. /\ w' = w /\ p' = p /\ m' = m /\ generation' = generation
        /\ Constructing' = Constructing
    BY <1>10, <1>11, <1>17 DEF TrackerStep, TrackerNext, TestTracking, PublishPosition,
       PublishStatus, PublishStop, serverVars, clientVars
  <2>2. i' = i /\ o' = o /\ IsFiniteSet(Creates')
    <3>1. CASE UNCHANGED busVars
      BY <1>1, <1>11, <3>1
    <3>2. ASSUME NEW t \in {"ZED_Position", "ZED_Status"}, NEW d, Publish(t, d)
          PROVE  Creates' = Creates /\ i' = i
      <4>1. outbox \in Seq(Posted)
        BY <1>1, LenProperties DEF BusTypes
      <4>2. Creates' = Creates
        BY <3>2, <4>1 DEF Publish, Creates
      <4> QED
        BY <3>2, <4>2 DEF Publish
    <3> QED
      BY <1>1, <1>17, <3>1, <3>2 DEF TrackerStep, TrackerNext, TestTracking, PublishPosition,
         PublishStatus, PublishStop
  <2> HIDE DEF i, o, m, p, w
  <2>3. generation' + Constructing' + i' + o' + m' + p' <= w'
    BY <1>3, <1>5, <1>6, <2>1, <2>2
  <2> QED
    BY <1>9, <2>3, <2>1, <2>2
<1>18. CASE createFile_callback
  <2>1. w' = w /\ p' = p /\ m' = m /\ generation' = generation
    BY <1>11, <1>18 DEF createFile_callback, clientVars, trackerVars
  <2>2. Constructing = 0 /\ (Constructing' = 0 \/ Constructing' = 1)
    BY <1>18 DEF createFile_callback, Constructing
  <2>3. i # 0 /\ i' = i - 1 /\ o' = o /\ IsFiniteSet(Creates')
    <3>1. /\ inbox["CreateFile"] \in Seq(Payloads) /\ inbox["CreateFile"] # <<>>
          /\ inbox'["CreateFile"] = Tail(inbox["CreateFile"]) /\ outbox' = outbox
      BY <1>1, <1>2, <1>18 DEF createFile_callback, Take, BusTypes
    <3> QED
      BY <1>1, <1>8, <3>1, HeadTailProperties, EmptySeq
  <2> HIDE DEF i, o, m, p, w
  <2>4. generation' + Constructing' + i' + o' + m' + p' <= w'
    BY <1>3, <1>5, <1>6, <2>1, <2>2, <2>3
  <2> QED
    BY <1>9, <2>4, <2>1, <2>2, <2>3
<1>19. CASE ConstructTracker
  <2>1. w' = w /\ p' = p /\ m' = m /\ i' = i /\ o' = o /\ IsFiniteSet(Creates')
    BY <1>1, <1>11, <1>19 DEF ConstructTracker, clientVars
  <2>2. Constructing = 1
    BY <1>19 DEF ConstructTracker, Constructing
  <2>3. \/ generation' = generation + 1 /\ Constructing' = 0
        \/ generation' = generation /\ Constructing' = 1
    BY <1>4, <1>19 DEF ConstructTracker, StartTracker, Go, Constructing, Threads, trackerVars
  <2> HIDE DEF i, o, m, p, w
  <2>4. generation' + Constructing' + i' + o' + m' + p' <= w'
    BY <1>3, <1>5, <1>6, <2>1, <2>2, <2>3
  <2> QED
    BY <1>9, <2>4, <2>1, <2>2, <2>3
(* The rest leaves the commands and the CREATEs as they are.               *)
<1>20. ASSUME UNCHANGED <<message, pipe, wanted, generation, outbox>>,
              inbox'["CreateFile"] = inbox["CreateFile"],
              Constructing' = Constructing
       PROVE  GenerationsAsked'
  <2>1. w' = w /\ p' = p /\ m' = m /\ i' = i /\ o' = o /\ IsFiniteSet(Creates')
    BY <1>1, <1>8, <1>11, <1>20
  <2> HIDE DEF i, o, m, p, w
  <2>2. generation' + Constructing' + i' + o' + m' + p' <= w'
    BY <1>3, <1>5, <1>6, <1>20, <2>1
  <2> QED
    BY <1>9, <2>2, <1>20, <2>1
<1>21. CASE \/ stop_callback \/ probe_callback \/ getInfo_callback \/ zedStatus_callback
            \/ zedPosition_callback
  <2>1. /\ UNCHANGED <<message, pipe, wanted, generation>>
        /\ Constructing' = Constructing
        /\ \E t \in Topics : Take(t) /\ t # "CreateFile"
    BY <1>2, <1>4, <1>10, <1>21 DEF stop_callback, probe_callback, getInfo_callback,
       zedStatus_callback, zedPosition_callback, clientVars, trackerVars, Go, Threads,
       AllTopics, CmdTopics
  <2>2. UNCHANGED outbox /\ inbox'["CreateFile"] = inbox["CreateFile"]
    BY <1>1, <1>2, <2>1 DEF Take, BusTypes
  <2> QED
    BY <1>20, <2>1, <2>2
<1>22. ASSUME NEW th \in {"main", "CreateFile", "StopTest"}, Reset(th) PROVE GenerationsAsked'
  <2>1. UNCHANGED <<message, pipe, wanted, generation, outbox, inbox>>
    BY <1>22 DEF Reset, ResetLoad, ResetStore, DeleteTracker, StopTracking, JoinAndFree,
       JoinTracker, zed_setZeroStatus, zed_setZeroPosition, clientVars, trackerVars, busVars
  <2>2. Constructing' = Constructing
    <3>1. \/ pc["CreateFile"] # "construct" /\ pc'["CreateFile"] # "construct"
          \/ pc'["CreateFile"] = pc["CreateFile"]
      BY <1>4, <1>22 DEF Reset, ResetLoad, ResetStore, AfterReset, DeleteTracker, JoinAndFree,
         zed_setZeroStatus, zed_setZeroPosition, Go, Threads
    <3> QED
      BY <3>1 DEF Constructing
  <2> QED
    BY <1>20, <2>1, <2>2
<1>23. CASE \/ ProbePosition \/ Disconnect \/ UNCHANGED vars
            \/ waiting_connection_failed \/ waiting_connection_again \/ createFile_throws
  BY <1>4, <1>10, <1>20, <1>23 DEF ProbePosition, Disconnect, createFile_throws,
     waiting_connection_failed,
     waiting_connection_again, vars, clientVars, trackerVars, busVars, Go, Threads
<1> QED
  BY <1>12, <1>13, <1>14, <1>15, <1>16, <1>17, <1>18, <1>19, <1>21, <1>22, <1>23
     DEF Next, MainStep, MainWorks, AcceptStep, CreateStep, StopStep, ProbeStep

LEMMA DataInit == Init => DataInv
<1> SUFFICES ASSUME Init PROVE DataInv
  OBVIOUS
<1> USE DEF Init
<1>1. CommandTypes
  <2>1. /\ <<>> \in Seq(Asked) /\ Len(<<>>) = 0
        /\ <<>> \in Seq([by : 0..MaxClients, file : Files \cup {NoFile}])
    BY EmptySeq
  <2> QED
    BY <2>1, SocketServerAssumption DEF CommandTypes
<1>2. BusTypes
  BY EmptySeq DEF BusInit, BusTypes
<1>3. ActorTypes
  BY SocketServerAssumption DEF ActorTypes, TrackerInit, TrackerPcs, Positions, Statuses, Threads
<1>4. StateTypes
  BY EmptySeq DEF StateTypes, Statuses, Positions, Faults
<1>5. GenerationsAsked
  <2>1. Creates = {}
    BY DEF Creates, BusInit
  <2>2. /\ generation = 0 /\ Constructing = 0 /\ Len(inbox["CreateFile"]) = 0
        /\ Len(message) = 0 /\ Len(pipe) = 0 /\ Len(wanted) = 0
    BY SocketServerAssumption
       DEF TrackerInit, BusInit, Constructing, Threads, AllTopics, CmdTopics
  <2> QED
    BY <2>1, <2>2, FS_EmptySet DEF GenerationsAsked
<1> QED
  BY <1>1, <1>2, <1>3, <1>4, <1>5 DEF DataInv

LEMMA DataInvHolds == Spec => [](ResetTypes /\ MessageInv /\ DataInv)
<1>1. ResetInv => ResetTypes
  BY DEF ResetInv
<1>2. ResetTypes /\ MessageInv /\ DataInv /\ [Next]_vars => DataInv'
  BY CommandTypesStep, BusTypesStep, ActorTypesStep, StateTypesStep, GenerationsStep
     DEF DataInv
<1> QED
  BY <1>1, <1>2, DataInit, ResetInvHolds, MessageInvHolds, PTL DEF Spec

(* Every variable of the server stays in its type, in every run of every   *)
(* client: what arrives in a callback is what that callback can use, a     *)
(* tracker is constructed at most once for each command sent, and the file *)
(* and the position hold what some command or some tracker gave.           *)
THEOREM ServerTypes == Spec => []TypeOK
<1>1. ResetInv /\ DataInv => TypeOK
  <2> SUFFICES ASSUME ResetInv, DataInv PROVE TypeOK
    OBVIOUS
  <2>1. ResetTypes /\ CommandTypes /\ BusTypes /\ ActorTypes /\ StateTypes /\ PtIsLive
    BY DEF ResetInv, DataInv
  <2>2. generation \in 0..MaxCommands
    BY <2>1, GenerationBound DEF DataInv
  <2>3. \A i \in DOMAIN outbox : outbox[i].topic \in Topics /\ outbox[i].data \in Payloads
    <3>1. DOMAIN outbox = 1..Len(outbox) /\ outbox \in Seq(Posted)
      BY <2>1, LenProperties DEF BusTypes
    <3>2. \A i \in DOMAIN outbox : outbox[i] \in Posted
      BY <3>1, ElementOfSeq
    <3> QED
      BY <3>2 DEF Posted
  <2>4. \A t \in Topics : \A i \in DOMAIN inbox[t] : inbox[t][i] \in Payloads
    <3> SUFFICES ASSUME NEW t \in Topics, NEW i \in DOMAIN inbox[t]
                 PROVE  inbox[t][i] \in Payloads
      OBVIOUS
    <3>1. inbox[t] \in Seq(Payloads)
      BY <2>1 DEF BusTypes
    <3> QED
      BY <3>1, ElementOfSeq, LenProperties
  <2>5. \A q \in {pipe, message} : \A i \in DOMAIN q : q[i] \in Requests
    <3> SUFFICES ASSUME NEW q \in {pipe, message}, NEW i \in DOMAIN q
                 PROVE  q[i] \in Requests
      OBVIOUS
    <3>1. q \in Seq(Asked)
      BY <2>1 DEF CommandTypes
    <3>2. q[i] \in Asked
      BY <3>1, ElementOfSeq, LenProperties
    <3> QED
      BY <3>2 DEF Asked
  <2>6. old \in [Threads -> 0..generation] /\ pt \in 0..generation
    <3>1. \A th \in Threads : old[th] \in 0..generation
      BY <2>1 DEF ResetTypes
    <3> QED
      BY <2>1, <3>1 DEF ResetTypes, PtIsLive
  <2>7. \A f \in Files : \A i \in DOMAIN disk[f] : disk[f][i] \in Rows
    <3> SUFFICES ASSUME NEW f \in Files, NEW i \in DOMAIN disk[f]
                 PROVE  disk[f][i] \in Rows
      OBVIOUS
    <3>1. disk[f] \in Seq(Rows)
      BY <2>1 DEF StateTypes
    <3> QED
      BY <3>1, ElementOfSeq, LenProperties
  <2> QED
    BY <2>1, <2>2, <2>3, <2>4, <2>5, <2>6, <2>7 DEF TypeOK, ResetTypes, ActorTypes, StateTypes
<1> QED
  BY <1>1, ResetInvHolds, DataInvHolds, PTL

------------------------------------------------------------------------------
(* Rising serials                                                          *)

Serials(s, n) == DOMAIN s = 1..n /\ \A a \in 1..n : s[a] \in Nat

LEMMA RisingNone ==
  ASSUME NEW s, NEW lo, NEW hi, Serials(s, 0)
  PROVE  Rising(s, lo, hi)
BY DEF Serials, Rising

LEMMA RisingWider ==
  ASSUME NEW n \in Nat, NEW s, Serials(s, n), NEW lo \in Nat, NEW hi \in Nat, Rising(s, lo, hi),
         NEW lo1 \in Nat, NEW hi1 \in Nat, lo1 <= lo, hi <= hi1
  PROVE  Rising(s, lo1, hi1)
BY DEF Serials, Rising

(* One more at the end, greater than all the others, or none.              *)
LEMMA RisingAppend ==
  ASSUME NEW n \in Nat, NEW s, Serials(s, n), NEW lo \in Nat, NEW hi \in Nat, Rising(s, lo, hi),
         NEW s1, NEW x \in Nat, DOMAIN s1 = 1..(n + 1), \A a \in 1..n : s1[a] = s[a], s1[n + 1] = x,
         NEW hi1 \in Nat, lo <= hi, hi <= hi1, x # 0 => hi < x /\ x <= hi1
  PROVE  Rising(s1, lo, hi1)
<1> SUFFICES ASSUME NEW a \in 1..(n + 1), s1[a] # 0
             PROVE  /\ lo < s1[a] /\ s1[a] <= hi1
                    /\ \A b \in 1..(n + 1) : a < b /\ s1[b] # 0 => s1[a] < s1[b]
  BY DEF Serials, Rising
<1>1. CASE a = n + 1
  BY <1>1
<1>2. CASE a \in 1..n
  <2>1. s1[a] = s[a] /\ s[a] \in Nat /\ lo < s[a] /\ s[a] <= hi
    BY <1>2 DEF Serials, Rising
  <2>2. ASSUME NEW b \in 1..n, a < b, s1[b] # 0 PROVE s1[a] < s1[b]
    <3>1. s1[b] = s[b] /\ s[a] # 0 /\ s[b] # 0
      BY <2>1, <2>2
    <3> QED
      BY <1>2, <2>1, <2>2, <3>1 DEF Serials, Rising
  <2>3. ASSUME NEW b \in 1..(n + 1), b \notin 1..n, s1[b] # 0 PROVE s1[a] < s1[b]
    <3>1. b = n + 1
      BY <2>3
    <3> QED
      BY <2>1, <2>3, <3>1
  <2> QED
    BY <2>1, <2>2, <2>3
<1> QED
  BY <1>1, <1>2

(* The first k, all at most mid, and what follows them, greater than mid.  *)
LEMMA RisingTake ==
  ASSUME NEW n \in Nat, NEW s, Serials(s, n), NEW lo \in Nat, NEW hi \in Nat, Rising(s, lo, hi),
         NEW k \in 0..n, NEW mid \in Nat, \A a \in 1..k : s[a] <= mid,
         NEW s1, DOMAIN s1 = 1..k, \A a \in 1..k : s1[a] = s[a]
  PROVE  Rising(s1, lo, mid)
<1> SUFFICES ASSUME NEW a \in 1..k, s1[a] # 0
             PROVE  /\ lo < s1[a] /\ s1[a] <= mid
                    /\ \A b \in 1..k : a < b /\ s1[b] # 0 => s1[a] < s1[b]
  BY DEF Rising
<1>1. \A b \in 1..k : b \in 1..n /\ s1[b] = s[b]
  OBVIOUS
<1>2. a \in 1..n /\ s1[a] = s[a] /\ s[a] # 0 /\ a <= k
  BY <1>1
<1> QED
  BY <1>1, <1>2 DEF Serials, Rising

LEMMA RisingDrop ==
  ASSUME NEW n \in Nat, NEW s, Serials(s, n), NEW lo \in Nat, NEW hi \in Nat, Rising(s, lo, hi),
         NEW k \in 0..n, NEW mid \in Nat, \A a \in 1..n : k < a => mid < s[a],
         NEW s1, DOMAIN s1 = 1..(n - k), \A a \in 1..(n - k) : s1[a] = s[k + a]
  PROVE  Rising(s1, mid, hi)
<1>1. ASSUME NEW a \in 1..(n - k), s1[a] # 0
      PROVE  /\ mid < s1[a] /\ s1[a] <= hi
             /\ \A b \in 1..(n - k) : a < b /\ s1[b] # 0 => s1[a] < s1[b]
  <2>1. k + a \in 1..n /\ k < k + a /\ s1[a] = s[k + a] /\ s[k + a] # 0
    BY <1>1
  <2>2. mid < s1[a] /\ s1[a] <= hi
    BY <2>1 DEF Serials, Rising
  <2>3. ASSUME NEW b \in 1..(n - k), a < b, s1[b] # 0 PROVE s1[a] < s1[b]
    <3>1. k + b \in 1..n /\ k + a < k + b /\ s1[b] = s[k + b] /\ s[k + b] # 0
      BY <2>3
    <3> QED
      BY <2>1, <3>1 DEF Serials, Rising
  <2> QED
    BY <2>2, <2>3
<1> QED
  BY <1>1 DEF Rising

(* Without its head: what is left begins after the head, if it is one.     *)
LEMMA RisingTail ==
  ASSUME NEW n \in Nat \ {0}, NEW s, Serials(s, n), NEW lo \in Nat, NEW hi \in Nat, Rising(s, lo, hi),
         NEW s1, DOMAIN s1 = 1..(n - 1), \A a \in 1..(n - 1) : s1[a] = s[a + 1]
  PROVE  /\ s[1] # 0 => lo < s[1] /\ s[1] <= hi /\ Rising(s1, s[1], hi)
         /\ Rising(s1, lo, hi)
<1>1. s[1] \in Nat /\ 1 \in 1..n
  BY DEF Serials
<1>2. \A a \in 1..(n - 1) : a + 1 \in 1..n /\ s1[a] = s[a + 1]
  OBVIOUS
<1>3. Rising(s1, lo, hi)
  <2> SUFFICES ASSUME NEW a \in 1..(n - 1), s1[a] # 0
               PROVE  /\ lo < s1[a] /\ s1[a] <= hi
                      /\ \A b \in 1..(n - 1) : a < b /\ s1[b] # 0 => s1[a] < s1[b]
    BY DEF Rising
  <2>1. a + 1 \in 1..n /\ s1[a] = s[a + 1] /\ s[a + 1] # 0
    BY <1>2
  <2>2. ASSUME NEW b \in 1..(n - 1), a < b, s1[b] # 0 PROVE s1[a] < s1[b]
    <3>1. b + 1 \in 1..n /\ a + 1 < b + 1 /\ s1[b] = s[b + 1] /\ s[b + 1] # 0
      BY <1>2, <2>2
    <3> QED
      BY <2>1, <3>1 DEF Serials, Rising
  <2> QED
    BY <2>1, <2>2 DEF Serials, Rising
<1>4. ASSUME s[1] # 0 PROVE lo < s[1] /\ s[1] <= hi /\ Rising(s1, s[1], hi)
  <2>1. /\ lo < s[1] /\ s[1] <= hi
        /\ \A b \in 1..n : 1 < b /\ s[b] # 0 => s[1] < s[b]
    BY <1>1, <1>4 DEF Serials, Rising
  <2>2. ASSUME NEW a \in 1..(n - 1), s1[a] # 0 PROVE s[1] < s1[a]
    <3>1. a + 1 \in 1..n /\ 1 < a + 1 /\ s[a + 1] = s1[a]
      BY <1>2
    <3> QED
      BY <2>1, <2>2, <3>1
  <2> QED
    BY <1>3, <2>1, <2>2 DEF Rising
<1> QED
  BY <1>3, <1>4

(* The five sequences hold serials; those in the messages are not 0.       *)
LEMMA SerialTypes ==
  ASSUME CommandTypes, BusTypes, StateTypes
  PROVE  /\ Len(wanted) \in Nat
         /\ Serials(InPipe, Len(pipe)) /\ Len(pipe) \in Nat
         /\ \A a \in 1..Len(pipe) : InPipe[a] = pipe[a].n /\ InPipe[a] # 0
         /\ Serials(InMessage, Len(message)) /\ Len(message) \in Nat
         /\ \A a \in 1..Len(message) : InMessage[a] = message[a].n /\ InMessage[a] # 0
         /\ Serials(Published, Len(outbox)) /\ Len(outbox) \in Nat
         /\ \A a \in 1..Len(outbox) :
              Published[a] = IF outbox[a].topic = "Probe" THEN outbox[a].data.n ELSE 0
         /\ Serials(Delivered, Len(inbox["Probe"])) /\ Len(inbox["Probe"]) \in Nat
         /\ \A a \in 1..Len(inbox["Probe"]) :
              Delivered[a] = inbox["Probe"][a].n /\ Delivered[a] # 0
         /\ \A f \in Files :
              /\ Serials(Recorded(f), Len(disk[f])) /\ Len(disk[f]) \in Nat
              /\ \A a \in 1..Len(disk[f]) :
                   Recorded(f)[a] = IF disk[f][a].data = NoField THEN 0 ELSE disk[f][a].data
<1>1. /\ pipe \in Seq(Asked) /\ message \in Seq(Asked) /\ outbox \in Seq(Posted)
      /\ wanted \in Seq([by : 0..MaxClients, file : Files \cup {NoFile}])
      /\ \A f \in Files : disk[f] \in Seq(Rows)
  BY DEF CommandTypes, BusTypes, StateTypes
<1>2. inbox["Probe"] \in Seq(PayloadsOf("Probe"))
  BY SocketServerAssumption DEF BusTypes, AllTopics, CmdTopics
<1>3. /\ Len(pipe) \in Nat /\ Len(message) \in Nat /\ Len(outbox) \in Nat /\ Len(wanted) \in Nat
      /\ Len(inbox["Probe"]) \in Nat /\ \A f \in Files : Len(disk[f]) \in Nat
  BY <1>1, <1>2, LenProperties
<1>4. MaxCommands \in Nat
  BY SocketServerAssumption
<1>5. \A a \in 1..Len(pipe) : pipe[a].n \in 1..MaxCommands
  <2>1. \A a \in 1..Len(pipe) : pipe[a] \in Asked
    BY <1>1, ElementOfSeq
  <2> QED
    BY <2>1 DEF Asked, Requests
<1>6. \A a \in 1..Len(message) : message[a].n \in 1..MaxCommands
  <2>1. \A a \in 1..Len(message) : message[a] \in Asked
    BY <1>1, ElementOfSeq
  <2> QED
    BY <2>1 DEF Asked, Requests
<1>7. \A a \in 1..Len(outbox) : outbox[a].topic = "Probe" => outbox[a].data.n \in 1..MaxCommands
  <2>1. \A a \in 1..Len(outbox) : outbox[a] \in Posted
    BY <1>1, ElementOfSeq
  <2> QED
    BY <2>1 DEF Posted, PayloadsOf
<1>8. \A a \in 1..Len(inbox["Probe"]) : inbox["Probe"][a].n \in 1..MaxCommands
  <2>1. \A a \in 1..Len(inbox["Probe"]) : inbox["Probe"][a] \in PayloadsOf("Probe")
    BY <1>2, ElementOfSeq
  <2> QED
    BY <2>1 DEF PayloadsOf
<1>9. ASSUME NEW f \in Files
      PROVE  /\ Serials(Recorded(f), Len(disk[f]))
             /\ \A a \in 1..Len(disk[f]) :
                  Recorded(f)[a] = IF disk[f][a].data = NoField THEN 0 ELSE disk[f][a].data
  <2>1. \A a \in 1..Len(disk[f]) : disk[f][a] \in Rows
    BY <1>1, ElementOfSeq
  <2>2. \A a \in 1..Len(disk[f]) : disk[f][a].data # NoField => disk[f][a].data \in 1..MaxCommands
    BY <2>1 DEF Rows
  <2> QED
    BY <1>3, <1>4, <2>2 DEF Recorded, Serials
<1>10. Serials(InPipe, Len(pipe)) /\ \A a \in 1..Len(pipe) : InPipe[a] = pipe[a].n /\ InPipe[a] # 0
  BY <1>4, <1>5 DEF InPipe, Serials
<1>11. /\ Serials(InMessage, Len(message))
       /\ \A a \in 1..Len(message) : InMessage[a] = message[a].n /\ InMessage[a] # 0
  BY <1>4, <1>6 DEF InMessage, Serials
<1>12. /\ Serials(Published, Len(outbox))
       /\ \A a \in 1..Len(outbox) :
            Published[a] = IF outbox[a].topic = "Probe" THEN outbox[a].data.n ELSE 0
  BY <1>4, <1>7 DEF Published, Serials
<1>13. /\ Serials(Delivered, Len(inbox["Probe"]))
       /\ \A a \in 1..Len(inbox["Probe"]) :
            Delivered[a] = inbox["Probe"][a].n /\ Delivered[a] # 0
  BY <1>4, <1>8 DEF Delivered, Serials
<1> QED
  BY <1>3, <1>9, <1>10, <1>11, <1>12, <1>13

LEMMA PublishRises ==
  ASSUME CommandTypes, BusTypes, StateTypes,
         NEW t \in Topics, NEW p \in PayloadsOf(t), Publish(t, p),
         NEW lo \in Nat, NEW hi \in Nat, NEW hi1 \in Nat, lo <= hi, hi <= hi1,
         Rising(Published, lo, hi), t = "Probe" => hi < p.n /\ p.n <= hi1
  PROVE  Rising(Published', lo, hi1)
<1> DEFINE n == Len(outbox)
           e == [topic |-> t, data |-> p]
           x == IF t = "Probe" THEN p.n ELSE 0
<1>1. e \in Posted /\ e.topic = t /\ e.data = p
  BY DEF Posted, PayloadsOf
<1>2. /\ outbox \in Seq(Posted) /\ outbox' = Append(outbox, e) /\ n \in Nat
      /\ Serials(Published, n)
      /\ \A a \in 1..n :
           Published[a] = IF outbox[a].topic = "Probe" THEN outbox[a].data.n ELSE 0
  BY SerialTypes DEF BusTypes, Publish
<1>3. x \in Nat
  BY DEF PayloadsOf
<1> HIDE DEF e
<1>4. /\ Len(outbox') = n + 1 /\ \A a \in 1..n : outbox'[a] = outbox[a]
      /\ outbox'[n + 1] = e
  BY <1>1, <1>2, AppendProperties
<1>5. Published' = [a \in 1..Len(outbox') |->
                     IF outbox'[a].topic = "Probe" THEN outbox'[a].data.n ELSE 0]
  BY DEF Published
<1> HIDE DEF n
<1>6. /\ DOMAIN Published' = 1..(n + 1) /\ \A a \in 1..n : Published'[a] = Published[a]
      /\ Published'[n + 1] = x
  BY <1>1, <1>2, <1>4, <1>5
<1>7. x # 0 => hi < x /\ x <= hi1
  OBVIOUS
<1> HIDE DEF x
<1> QED
  BY <1>2, <1>3, <1>6, <1>7, RisingAppend

(* The head of the outbox is moved, or dropped; only a probe counts.       *)
LEMMA TransmitRises ==
  ASSUME CommandTypes, BusTypes, StateTypes, Transmit,
         NEW d \in Nat, NEW i \in Nat, NEW o \in Nat, d <= i, i <= o,
         Rising(Delivered, d, i), Rising(Published, i, o)
  PROVE  \E j \in Nat : /\ i <= j /\ j <= o
                        /\ Rising(Delivered', d, j) /\ Rising(Published', j, o)
<1> DEFINE n == Len(outbox)
           k == Len(inbox["Probe"])
           x == Published[1]
<1>1. /\ outbox \in Seq(Posted) /\ outbox # <<>> /\ outbox' = Tail(outbox)
      /\ n \in Nat \ {0} /\ Head(outbox) = outbox[1]
      /\ inbox["Probe"] \in Seq(Payloads) /\ inbox \in [Topics -> Seq(Payloads)]
  BY EmptySeq, SocketServerAssumption DEF BusTypes, Transmit, AllTopics, CmdTopics
<1>2. /\ outbox[1] \in Posted /\ Len(outbox') = n - 1
      /\ \A a \in 1..(n - 1) : outbox'[a] = outbox[a + 1]
  BY <1>1, HeadTailProperties
<1>3. /\ Serials(Published, n) /\ k \in Nat /\ Serials(Delivered, k) /\ x \in Nat
      /\ \A a \in 1..n :
           Published[a] = IF outbox[a].topic = "Probe" THEN outbox[a].data.n ELSE 0
      /\ \A a \in 1..k : Delivered[a] = inbox["Probe"][a].n
      /\ outbox[1].topic = "Probe" => x # 0
  <2>1. Serials(Published, n) => x \in Nat
    BY <1>1 DEF Serials
  <2>2. outbox[1].topic = "Probe" => outbox[1].data.n # 0
    BY <1>2, SocketServerAssumption DEF Posted, PayloadsOf
  <2> QED
    BY <1>1, <2>1, <2>2, SerialTypes
<1>4. /\ Published' = [a \in 1..Len(outbox') |->
                         IF outbox'[a].topic = "Probe" THEN outbox'[a].data.n ELSE 0]
      /\ Delivered' = [a \in 1..Len(inbox'["Probe"]) |-> inbox'["Probe"][a].n]
  BY DEF Published, Delivered
<1> HIDE DEF n
<1>5. DOMAIN Published' = 1..(n - 1) /\ \A a \in 1..(n - 1) : Published'[a] = Published[a + 1]
  <2>1. \A a \in 1..(n - 1) : a + 1 \in 1..n
    BY <1>1
  <2> QED
    BY <1>2, <1>3, <1>4, <2>1
<1>6. /\ x # 0 => i < x /\ x <= o /\ Rising(Published', x, o)
      /\ Rising(Published', i, o)
  BY <1>1, <1>3, <1>5, RisingTail
<1>7. CASE outbox[1].topic # "Probe"
  <2>1. inbox'["Probe"] = inbox["Probe"]
    BY <1>1, <1>2, <1>7 DEF Transmit, Posted
  <2>2. Delivered' = Delivered
    BY <2>1 DEF Delivered
  <2> QED
    BY <1>6, <2>2
<1>8. CASE outbox[1].topic = "Probe"
  <2>1. x # 0 /\ x = outbox[1].data.n /\ outbox[1].data \in Payloads
    <3>1. 1 \in 1..n
      BY <1>1
    <3> QED
      BY <1>2, <1>3, <1>8, <3>1 DEF Posted
  <2>2. \/ inbox'["Probe"] = inbox["Probe"]
        \/ inbox'["Probe"] = Append(inbox["Probe"], outbox[1].data)
    BY <1>1, <1>2, <1>8 DEF Transmit, Posted
  <2>3. Rising(Delivered', d, x)
    <3>1. CASE inbox'["Probe"] = inbox["Probe"]
      <4>1. Delivered' = Delivered
        BY <3>1 DEF Delivered
      <4> HIDE DEF x
      <4> QED
        BY <1>3, <1>6, <2>1, <4>1, RisingWider
    <3>2. CASE inbox'["Probe"] = Append(inbox["Probe"], outbox[1].data)
      <4>1. /\ Len(inbox'["Probe"]) = k + 1 /\ inbox'["Probe"][k + 1].n = x
            /\ \A a \in 1..k : inbox'["Probe"][a] = inbox["Probe"][a]
        BY <1>1, <2>1, <3>2, AppendProperties
      <4> HIDE DEF x, k
      <4>2. /\ DOMAIN Delivered' = 1..(k + 1) /\ Delivered'[k + 1] = x
            /\ \A a \in 1..k : Delivered'[a] = Delivered[a]
        <5>1. Delivered' = [a \in 1..(k + 1) |-> inbox'["Probe"][a].n]
          BY <1>4, <4>1
        <5>2. k + 1 \in 1..(k + 1) /\ \A a \in 1..k : a \in 1..(k + 1)
          BY <1>3
        <5> QED
          BY <1>3, <4>1, <5>1, <5>2
      <4>3. i <= x
        BY <1>3, <1>6, <2>1
      <4> QED
        BY <1>3, <1>6, <2>1, <4>2, <4>3, RisingAppend
    <3> QED
      BY <2>2, <3>1, <3>2
  <2> HIDE DEF x
  <2> QED
    BY <1>3, <1>6, <2>1, <2>3
<1> QED
  BY <1>7, <1>8

LEMMA RowsStep ==
  ASSUME ResetTypes, MessageInv, DataInv, RowsInv, [Next]_vars
  PROVE  RowsInv'
<1>1. CommandTypes /\ BusTypes /\ ActorTypes /\ StateTypes
  BY DEF DataInv
<1>2. PICK d, i, o, m \in 0..Len(wanted) : Separated(d, i, o, m)
  BY DEF RowsInv
<1> DEFINE w == Len(wanted)
<1>3. /\ d \in Nat /\ i \in Nat /\ o \in Nat /\ m \in Nat /\ w \in Nat
      /\ d <= i /\ i <= o /\ o <= m /\ m <= w
      /\ \A f \in Files : Rising(Recorded(f), 0, d)
      /\ Rising(Delivered, d, i) /\ Rising(Published, i, o)
      /\ Rising(InMessage, o, m) /\ Rising(InPipe, m, w)
  BY <1>1, <1>2, SerialTypes DEF Separated
<1>4. /\ wanted' = wanted => w' = w
      /\ pipe' = pipe => InPipe' = InPipe
      /\ message' = message => InMessage' = InMessage
      /\ outbox' = outbox => Published' = Published
      /\ inbox'["Probe"] = inbox["Probe"] => Delivered' = Delivered
      /\ disk' = disk => \A f \in Files : Recorded(f)' = Recorded(f)
  BY DEF InPipe, InMessage, Published, Delivered, Recorded
<1>5. ASSUME NEW d1 \in Nat, NEW i1 \in Nat, NEW o1 \in Nat, NEW m1 \in Nat, NEW w1 \in Nat,
             w' = w1, d1 <= i1, i1 <= o1, o1 <= m1, m1 <= w1,
             \A f \in Files : Rising(Recorded(f)', 0, d1),
             Rising(Delivered', d1, i1), Rising(Published', i1, o1),
             Rising(InMessage', o1, m1), Rising(InPipe', m1, w1)
      PROVE  RowsInv'
  <2>1. Separated(d1, i1, o1, m1)'
    BY <1>5 DEF Separated
  <2>2. d1 \in 0..w1 /\ i1 \in 0..w1 /\ o1 \in 0..w1 /\ m1 \in 0..w1
    BY <1>5
  <2> QED
    BY <1>5, <2>1, <2>2 DEF RowsInv
(* The client and the main thread.                                         *)
<1>6. ASSUME NEW c \in Commands, Send(c) PROVE RowsInv'
  <2> DEFINE n == Len(pipe)
  <2>1. /\ InPipe' = [a \in 1..Len(pipe') |-> pipe'[a].n]
        /\ Serials(InPipe, n) /\ n \in Nat /\ \A a \in 1..n : InPipe[a] = pipe[a].n
    BY <1>1, SerialTypes DEF InPipe
  <2>2. /\ Len(pipe') = n + 1 /\ \A a \in 1..n : pipe'[a] = pipe[a]
        /\ pipe'[n + 1].n = w' /\ w' = w + 1
    BY <1>1, <1>6 DEF Send, CommandTypes
  <2> DEFINE x == w + 1
  <2>3. /\ DOMAIN InPipe' = 1..(n + 1) /\ InPipe'[n + 1] = x
        /\ \A a \in 1..n : InPipe'[a] = InPipe[a]
    BY <2>1, <2>2
  <2> HIDE DEF n, w
  <2>4. x \in Nat /\ w < x /\ x <= x /\ w <= x /\ m <= x
    BY <1>3
  <2> HIDE DEF x
  <2>5. Rising(InPipe', m, x)
    <3>1. /\ n \in Nat /\ Serials(InPipe, n) /\ m \in Nat /\ w \in Nat /\ Rising(InPipe, m, w)
          /\ x \in Nat /\ m <= w /\ w <= x /\ (x # 0 => w < x /\ x <= x)
      BY <1>3, <2>1, <2>4
    <3> QED
      BY <2>3, <3>1, RisingAppend
  <2>6. UNCHANGED <<message, disk, outbox, inbox>>
    BY <1>6 DEF Send, fileVars, busVars
  <2>7. w' = x
    BY <2>2 DEF x
  <2> QED
    BY <1>3, <1>4, <1>5, <2>4, <2>5, <2>6, <2>7
<1>7. CASE waiting_connection \/ waiting_command_failed
  <2>1. UNCHANGED <<wanted, message, disk, outbox, inbox>> /\ pipe' = <<>>
    BY <1>7 DEF waiting_connection, waiting_command_failed, fileVars, busVars
  <2>2. Serials(InPipe', 0)
    BY <2>1 DEF InPipe, Serials
  <2> QED
    BY <1>3, <1>4, <1>5, <2>1, <2>2, RisingNone
<1>8. CASE waiting_command
  <2> DEFINE n == Len(pipe)
  <2>1. PICK k \in 1..n :
          /\ Len(message') = k /\ \A a \in 1..k : message'[a] = pipe[a]
          /\ Len(pipe') = n - k /\ \A a \in 1..(n - k) : pipe'[a] = pipe[k + a]
    BY <1>1, <1>8, ReceiveKeepsTypes
  <2>2. /\ Serials(InPipe, n) /\ n \in Nat /\ \A a \in 1..n : InPipe[a] = pipe[a].n /\ InPipe[a] # 0
        /\ InPipe' = [a \in 1..Len(pipe') |-> pipe'[a].n]
        /\ InMessage' = [a \in 1..Len(message') |-> message'[a].n]
    BY <1>1, SerialTypes DEF InPipe, InMessage
  <2>3. UNCHANGED <<wanted, disk, outbox, inbox>>
    BY <1>8 DEF waiting_command, fileVars, busVars
  <2> HIDE DEF n, w
  <2>4. \A a \in 1..k : a \in 1..n
    BY <2>2
  <2>5. \A a \in 1..(n - k) : k + a \in 1..n
    BY <2>2
  <2>6. DOMAIN InMessage' = 1..k /\ \A a \in 1..k : InMessage'[a] = InPipe[a]
    BY <2>1, <2>2, <2>4
  <2>7. DOMAIN InPipe' = 1..(n - k) /\ \A a \in 1..(n - k) : InPipe'[a] = InPipe[k + a]
    BY <2>1, <2>2, <2>5
  <2> DEFINE x == InPipe[k]
  <2>8. \A a \in 1..n : /\ InPipe[a] \in Nat /\ m < InPipe[a] /\ InPipe[a] <= w
                        /\ \A b \in 1..n : a < b => InPipe[a] < InPipe[b]
    BY <1>3, <2>2 DEF Serials, Rising
  <2>9. x \in Nat /\ m < x /\ x <= w
    BY <2>8
  <2>10. (\A a \in 1..k : InPipe[a] <= x) /\ \A a \in 1..n : k < a => x < InPipe[a]
    <3>1. \A a \in 1..k : a = k \/ a < k
      BY <2>2
    <3> QED
      BY <2>4, <2>8, <2>9, <3>1
  <2>11. k \in 0..n
    BY <2>2
  <2> HIDE DEF x
  <2>12. Rising(InMessage', m, x) /\ Rising(InPipe', x, w)
    <3>1. /\ n \in Nat /\ Serials(InPipe, n) /\ m \in Nat /\ w \in Nat /\ Rising(InPipe, m, w)
          /\ x \in Nat
      BY <1>3, <2>2, <2>9
    <3>2. Rising(InMessage', m, x)
      BY <2>6, <2>10, <2>11, <3>1, RisingTake
    <3>3. Rising(InPipe', x, w)
      BY <2>7, <2>10, <2>11, <3>1, RisingDrop
    <3> QED
      BY <3>2, <3>3
  <2>13. Rising(InMessage', o, x)
    <3>1. \A a \in 1..k : InMessage'[a] \in Nat
      BY <2>4, <2>6, <2>8
    <3>2. Serials(InMessage', k)
      BY <2>6, <3>1 DEF Serials
    <3>3. k \in Nat
      BY <2>2
    <3> QED
      BY <1>3, <2>9, <2>12, <3>2, <3>3, RisingWider
  <2> QED
    BY <1>3, <1>4, <1>5, <2>3, <2>9, <2>12, <2>13
<1>9. CASE execute_command
  <2>1. UNCHANGED <<wanted, pipe, disk>> /\ message' = <<>>
    BY <1>9 DEF execute_command, clientVars, fileVars
  <2>2. Rising(InMessage', m, m)
    <3>1. Serials(InMessage', 0)
      BY <2>1 DEF InMessage, Serials
    <3> QED
      BY <3>1, RisingNone
  <2>3. inbox' = inbox /\ Rising(Published', i, m)
    <3>1. CASE UNCHANGED busVars
      BY <1>1, <1>3, <1>4, <3>1, SerialTypes, RisingWider DEF busVars
    <3>2. ASSUME NEW t \in CmdTopics, NEW p \in PayloadsOf(t), Len(message) = 1, Publish(t, p),
                 t = "Probe" => p.n = message[1].n
          PROVE  inbox' = inbox /\ Rising(Published', i, m)
      <4>1. /\ InMessage[1] = message[1].n /\ InMessage[1] \in Nat
            /\ o < InMessage[1] /\ InMessage[1] <= m
        BY <1>1, <1>3, <3>2, SerialTypes DEF Serials, Rising
      <4> QED
        BY <1>1, <1>3, <3>2, <4>1, PublishRises, SocketServerAssumption DEF Publish, AllTopics
    <3> QED
      BY <1>1, <1>9, <3>1, <3>2, ExecutePublishes
  <2> QED
    BY <1>3, <1>4, <1>5, <2>1, <2>2, <2>3
(* The bus and the tracker.                                                *)
<1>10. CASE TransmitStep
  <2>1. PICK j \in Nat : /\ i <= j /\ j <= o
                         /\ Rising(Delivered', d, j) /\ Rising(Published', j, o)
    <3>1. Transmit
      BY <1>10 DEF TransmitStep
    <3> HIDE DEF w
    <3> QED
      BY <1>1, <1>3, <3>1, TransmitRises
  <2>2. UNCHANGED <<wanted, pipe, message, disk>>
    BY <1>10 DEF TransmitStep, serverVars, clientVars, fileVars
  <2>3. d <= j
    BY <1>3, <2>1
  <2> QED
    BY <1>3, <1>4, <1>5, <2>1, <2>2, <2>3
<1>11. CASE TrackerStep
  <2>1. UNCHANGED <<wanted, pipe, message, disk>>
    BY <1>11 DEF TrackerStep, serverVars, clientVars, fileVars
  <2>2. inbox' = inbox /\ Rising(Published', i, o)
    <3>1. CASE UNCHANGED busVars
      BY <1>3, <1>4, <3>1 DEF busVars
    <3>2. ASSUME NEW t \in {"ZED_Position", "ZED_Status"}, NEW p \in PayloadsOf(t), Publish(t, p)
          PROVE  inbox' = inbox /\ Rising(Published', i, o)
      <4>1. t \in Topics /\ t # "Probe" /\ o <= o
        BY <1>3, SocketServerAssumption DEF AllTopics
      <4>2. Rising(Published', i, o)
        BY <1>1, <1>3, <3>2, <4>1, PublishRises
      <4> QED
        BY <3>2, <4>2 DEF Publish
    <3> QED
      BY <1>11, <3>1, <3>2, TrackerPublishes
  <2> QED
    BY <1>3, <1>4, <1>5, <2>1, <2>2
(* The callbacks.                                                          *)
<1>12. CASE probe_callback
  <2> DEFINE k == Len(inbox["Probe"])
             x == Delivered[1]
  <2>1. UNCHANGED <<wanted, pipe, message, outbox>>
    BY <1>12 DEF probe_callback, clientVars, Take
  <2>2. /\ inbox["Probe"] \in Seq(Payloads) /\ inbox["Probe"] # <<>>
        /\ inbox'["Probe"] = Tail(inbox["Probe"])
        /\ disk' = IF file = NoFile THEN disk
                   ELSE [disk EXCEPT ![file] =
                          Append(@, [data |-> Head(inbox["Probe"]).n, pos |-> NoField])]
    BY <1>1, <1>12, SocketServerAssumption DEF probe_callback, Take, BusTypes, AllTopics,
       CmdTopics
  <2>3. /\ k \in Nat \ {0} /\ Head(inbox["Probe"]) = inbox["Probe"][1]
        /\ Len(inbox'["Probe"]) = k - 1
        /\ \A a \in 1..(k - 1) : inbox'["Probe"][a] = inbox["Probe"][a + 1]
    BY <2>2, HeadTailProperties, EmptySeq
  <2>4. /\ Serials(Delivered, k)
        /\ \A a \in 1..k : Delivered[a] = inbox["Probe"][a].n /\ Delivered[a] # 0
        /\ Delivered' = [a \in 1..Len(inbox'["Probe"]) |-> inbox'["Probe"][a].n]
    BY <1>1, SerialTypes DEF Delivered
  <2> HIDE DEF k
  <2>5. x = Head(inbox["Probe"]).n /\ x # 0 /\ x \in Nat
    <3>1. 1 \in 1..k
      BY <2>3
    <3> QED
      BY <2>3, <2>4, <3>1 DEF Serials
  <2>6. DOMAIN Delivered' = 1..(k - 1) /\ \A a \in 1..(k - 1) : Delivered'[a] = Delivered[a + 1]
    <3>1. \A a \in 1..(k - 1) : a + 1 \in 1..k
      BY <2>3
    <3> QED
      BY <2>3, <2>4, <3>1
  <2>7. d < x /\ x <= i /\ Rising(Delivered', x, i)
    <3>1. /\ k \in Nat \ {0} /\ Serials(Delivered, k) /\ d \in Nat /\ i \in Nat
          /\ Rising(Delivered, d, i)
      BY <1>3, <2>3, <2>4
    <3>2. x # 0 => d < x /\ x <= i /\ Rising(Delivered', x, i)
      BY <2>6, <3>1, RisingTail
    <3> QED
      BY <2>5, <3>2
  <2> HIDE DEF x
  <2>8. ASSUME NEW f \in Files PROVE Rising(Recorded(f)', 0, x)
    <3> DEFINE n == Len(disk[f])
    <3>1. /\ disk[f] \in Seq(Rows) /\ n \in Nat /\ disk \in [Files -> Seq(Rows)]
          /\ Serials(Recorded(f), n)
          /\ \A a \in 1..n : Recorded(f)[a] = IF disk[f][a].data = NoField THEN 0 ELSE disk[f][a].data
          /\ Recorded(f)' = [a \in 1..Len(disk'[f]) |->
                               IF disk'[f][a].data = NoField THEN 0 ELSE disk'[f][a].data]
      BY <1>1, SerialTypes DEF StateTypes, Recorded
    <3>2. CASE disk'[f] = disk[f]
      <4>1. Recorded(f)' = Recorded(f) /\ 0 \in Nat /\ 0 <= 0 /\ d <= x
        BY <1>3, <2>5, <2>7, <3>2 DEF Recorded
      <4> QED
        BY <1>3, <2>5, <3>1, <4>1, RisingWider
    <3>3. CASE disk'[f] # disk[f]
      <4> DEFINE row == [data |-> x, pos |-> NoField]
      <4>1. disk'[f] = Append(disk[f], row)
        BY <2>2, <2>5, <3>1, <3>3 DEF StateTypes
      <4>2. row.data = x /\ x # NoField
        BY <2>5 DEF NoField
      <4> HIDE DEF row
      <4>3. /\ Len(disk'[f]) = n + 1 /\ disk'[f][n + 1] = row
            /\ \A a \in 1..n : disk'[f][a] = disk[f][a]
        BY <3>1, <4>1, AppendProperties
      <4> HIDE DEF n
      <4>4. /\ DOMAIN Recorded(f)' = 1..(n + 1) /\ Recorded(f)'[n + 1] = x
            /\ \A a \in 1..n : Recorded(f)'[a] = Recorded(f)[a]
        <5>1. n + 1 \in 1..(n + 1) /\ \A a \in 1..n : a \in 1..(n + 1)
          BY <3>1
        <5> QED
          BY <3>1, <4>2, <4>3, <5>1
      <4>5. 0 \in Nat /\ 0 <= d /\ d <= x
        BY <1>3, <2>5, <2>7
      <4> QED
        <5>1. /\ n \in Nat /\ Serials(Recorded(f), n) /\ d \in Nat /\ x \in Nat
              /\ Rising(Recorded(f), 0, d) /\ (x # 0 => d < x /\ x <= x)
          BY <1>3, <2>5, <2>7, <3>1
        <5> QED
          BY <4>4, <4>5, <5>1, RisingAppend
    <3> QED
      BY <3>2, <3>3
  <2>9. x <= o /\ x <= m
    BY <1>3, <2>5, <2>7
  <2> QED
    BY <1>3, <1>4, <1>5, <2>1, <2>5, <2>7, <2>8, <2>9
<1>13. CASE ProbePosition
  <2>1. UNCHANGED <<wanted, pipe, message, outbox, inbox>>
    BY <1>13 DEF ProbePosition, clientVars, busVars
  <2>2. ASSUME NEW f \in Files PROVE Rising(Recorded(f)', 0, d)
    <3> DEFINE n == Len(disk[f])
    <3>1. /\ n \in Nat /\ Serials(Recorded(f), n)
          /\ Recorded(f) = [a \in 1..n |-> IF disk[f][a].data = NoField THEN 0 ELSE disk[f][a].data]
          /\ Recorded(f)' = [a \in 1..Len(disk'[f]) |->
                               IF disk'[f][a].data = NoField THEN 0 ELSE disk'[f][a].data]
      BY <1>1, SerialTypes DEF Recorded
    <3>2. /\ Len(disk'[f]) \in {n, n + 1}
          /\ \A a \in 1..n : disk'[f][a].data = disk[f][a].data
          /\ Len(disk'[f]) = n + 1 => disk'[f][n + 1].data = NoField
      BY <1>1, <1>13, PositionWrites
    <3> HIDE DEF n
    <3>3. CASE Len(disk'[f]) = n
      <4>1. Recorded(f)' = Recorded(f)
        BY <3>1, <3>2, <3>3
      <4> QED
        BY <1>3, <4>1
    <3>4. CASE Len(disk'[f]) = n + 1
      <4>1. /\ DOMAIN Recorded(f)' = 1..(n + 1) /\ Recorded(f)'[n + 1] = 0
            /\ \A a \in 1..n : Recorded(f)'[a] = Recorded(f)[a]
        <5>1. n + 1 \in 1..(n + 1) /\ \A a \in 1..n : a \in 1..(n + 1)
          BY <3>1
        <5> QED
          BY <3>1, <3>2, <3>4, <5>1
      <4>2. 0 \in Nat /\ 0 <= d /\ d <= d
        BY <1>3
      <4> QED
        <5>1. /\ n \in Nat /\ Serials(Recorded(f), n) /\ d \in Nat
              /\ Rising(Recorded(f), 0, d) /\ (0 # 0 => d < 0 /\ 0 <= d)
          BY <1>3, <3>1
        <5> QED
          BY <4>1, <4>2, <5>1, RisingAppend
    <3> QED
      BY <3>2, <3>3, <3>4
  <2> QED
    BY <1>3, <1>4, <1>5, <2>1, <2>2
(* The rest moves no probe and writes no row.                              *)
<1>14. ASSUME UNCHANGED <<wanted, pipe, message, outbox, disk>>, inbox'["Probe"] = inbox["Probe"]
       PROVE  RowsInv'
  BY <1>3, <1>4, <1>5, <1>14
<1>15. CASE \/ createFile_callback \/ stop_callback \/ getInfo_callback \/ zedStatus_callback
            \/ zedPosition_callback
  <2>1. /\ UNCHANGED <<wanted, pipe, message, disk>>
        /\ \E t \in Topics : Take(t) /\ t # "Probe"
    BY <1>15, SocketServerAssumption DEF createFile_callback, stop_callback, getInfo_callback,
       zedStatus_callback, zedPosition_callback, clientVars, fileVars, AllTopics, CmdTopics
  <2>2. UNCHANGED outbox /\ inbox'["Probe"] = inbox["Probe"]
    BY <1>1, <2>1, SocketServerAssumption DEF Take, BusTypes, AllTopics, CmdTopics
  <2> QED
    BY <1>14, <2>1, <2>2
<1>16. ASSUME NEW th \in {"main", "CreateFile", "StopTest"}, Reset(th) PROVE RowsInv'
  BY <1>14, <1>16 DEF Reset, ResetLoad, ResetStore, DeleteTracker, JoinAndFree,
     zed_setZeroStatus, zed_setZeroPosition, clientVars, fileVars, busVars
<1>17. CASE \/ ConstructTracker \/ Disconnect \/ UNCHANGED vars
            \/ waiting_connection_failed \/ waiting_connection_again \/ createFile_throws
  BY <1>14, <1>17 DEF ConstructTracker, createFile_throws, Disconnect, waiting_connection_failed,
     waiting_connection_again, vars, clientVars, fileVars, busVars
<1> QED
  BY <1>6, <1>7, <1>8, <1>9, <1>10, <1>11, <1>12, <1>13, <1>15, <1>16, <1>17
     DEF Next, MainStep, MainWorks, AcceptStep, CreateStep, StopStep, ProbeStep

(* Probes are published, sent, delivered and written one after the other:  *)
(* whatever sessions they belong to and whoever opens and closes the file  *)
(* meanwhile, the rows of a file are in the order the probes were sent.    *)
THEOREM RowsStayInOrder == Spec => []RowsInOrder
<1>1. Init => RowsInv
  <2> SUFFICES ASSUME Init PROVE Separated(0, 0, 0, 0) /\ Len(wanted) = 0
    BY DEF RowsInv
  <2>1. /\ Serials(InPipe, 0) /\ Serials(InMessage, 0) /\ Serials(Published, 0)
        /\ Serials(Delivered, 0) /\ \A f \in Files : Serials(Recorded(f), 0)
        /\ Len(wanted) = 0
    BY SocketServerAssumption DEF Init, BusInit, InPipe, InMessage, Published, Delivered,
       Recorded, Serials, AllTopics, CmdTopics
  <2> QED
    BY <2>1, RisingNone DEF Separated
<1>2. DataInv /\ RowsInv => RowsInOrder
  <2> SUFFICES ASSUME DataInv, RowsInv, NEW f \in Files, NEW i \in DOMAIN disk[f],
                      NEW j \in DOMAIN disk[f], i < j, disk[f][i].data # NoField,
                      disk[f][j].data # NoField
               PROVE  disk[f][i].data < disk[f][j].data
    BY DEF RowsInOrder
  <2>1. PICK hi \in 0..Len(wanted) : Rising(Recorded(f), 0, hi)
    BY DEF RowsInv, Separated
  <2>2. i \in 1..Len(disk[f]) /\ j \in 1..Len(disk[f])
    BY LenProperties DEF DataInv, StateTypes
  <2>3. \A a \in 1..Len(disk[f]) : disk[f][a].data # NoField => disk[f][a].data # 0
    <3>1. \A a \in 1..Len(disk[f]) : disk[f][a] \in Rows
      BY ElementOfSeq DEF DataInv, StateTypes
    <3> QED
      BY <3>1, SocketServerAssumption DEF Rows, NoField
  <2>4. /\ DOMAIN Recorded(f) = 1..Len(disk[f])
        /\ Recorded(f)[i] = disk[f][i].data /\ Recorded(f)[j] = disk[f][j].data
    BY <2>2 DEF Recorded
  <2> QED
    BY <2>1, <2>2, <2>3, <2>4 DEF Rising
<1> QED
  BY <1>1, <1>2, RowsStep, DataInvHolds, PTL DEF Spec

------------------------------------------------------------------------------
(* The last status                                                         *)

LEMMA StatusPublished ==
  ASSUME BusTypes, NEW t \in Topics, NEW p \in PayloadsOf(t), Publish(t, p)
  PROVE  /\ t = "ZED_Status" /\ p.arg = "Stop" => LastPublished'
         /\ t = "ZED_Status" => ~NoStatusIn(outbox')
         /\ t # "ZED_Status" =>
              /\ LastPublished => LastPublished'
              /\ NoStatusIn(outbox') => NoStatusIn(outbox)
<1> DEFINE n == Len(outbox)
           e == [topic |-> t, data |-> p]
<1>1. e \in Posted /\ e.topic = t /\ e.data = p
  BY DEF Posted, PayloadsOf
<1>2. outbox \in Seq(Posted) /\ outbox' = Append(outbox, e) /\ n \in Nat
  BY LenProperties DEF BusTypes, Publish
<1> HIDE DEF e
<1>3. /\ Len(outbox') = n + 1 /\ \A a \in 1..n : outbox'[a] = outbox[a]
      /\ outbox'[n + 1] = e
  BY <1>1, <1>2, AppendProperties
<1>4. LastPublished' <=>
        \A a \in 1..Len(outbox') :
          /\ outbox'[a].topic = "ZED_Status"
          /\ \A b \in 1..Len(outbox') : a < b => outbox'[b].topic # "ZED_Status"
          => outbox'[a].data.arg = "Stop"
  BY DEF LastPublished
<1>5. n + 1 \in 1..(n + 1) /\ \A a \in 1..n : a \in 1..(n + 1) /\ a < n + 1
  BY <1>2
<1>6. \A a \in 1..(n + 1) : a \in 1..n \/ a = n + 1
  BY <1>2
<1>7. NoStatusIn(outbox') => NoStatusIn(outbox) /\ t # "ZED_Status"
  BY <1>1, <1>2, <1>3, <1>5 DEF NoStatusIn
<1>8. ASSUME t = "ZED_Status", p.arg = "Stop" PROVE LastPublished'
  <2> HIDE DEF n
  <2>1. ASSUME NEW a \in 1..(n + 1),
               \A b \in 1..(n + 1) : a < b => outbox'[b].topic # "ZED_Status"
        PROVE  outbox'[a].data.arg = "Stop"
    <3>1. a = n + 1
      BY <1>1, <1>3, <1>5, <1>6, <1>8, <2>1
    <3> QED
      BY <1>1, <1>3, <1>8, <3>1
  <2> QED
    BY <1>3, <1>4, <2>1
<1>9. ASSUME t # "ZED_Status", LastPublished PROVE LastPublished'
  <2>1. \A a \in 1..n :
          /\ outbox[a].topic = "ZED_Status"
          /\ \A b \in 1..n : a < b => outbox[b].topic # "ZED_Status"
          => outbox[a].data.arg = "Stop"
    BY <1>9 DEF LastPublished
  <2> HIDE DEF n
  <2>2. ASSUME NEW a \in 1..(n + 1), outbox'[a].topic = "ZED_Status",
               \A b \in 1..(n + 1) : a < b => outbox'[b].topic # "ZED_Status"
        PROVE  outbox'[a].data.arg = "Stop"
    <3>1. a \in 1..n
      BY <1>1, <1>3, <1>6, <1>9, <2>2
    <3>2. \A b \in 1..n : a < b => outbox[b].topic # "ZED_Status"
      BY <1>3, <1>5, <2>2
    <3> QED
      BY <1>3, <2>1, <2>2, <3>1, <3>2
  <2> QED
    BY <1>3, <1>4, <2>2
<1> QED
  BY <1>7, <1>8, <1>9

LEMMA StatusTransmitted ==
  ASSUME BusTypes, StatusHasRoom, Transmit, LastPublished, LastDelivered, LastShown,
         zed_status' = zed_status
  PROVE  (LastPublished /\ LastDelivered /\ LastShown)'
<1> DEFINE n == Len(outbox)
           q == inbox["ZED_Status"]
<1>1. /\ outbox \in Seq(Posted) /\ outbox # <<>> /\ outbox' = Tail(outbox)
      /\ n \in Nat \ {0} /\ Head(outbox) = outbox[1] /\ "ZED_Status" \in Topics
      /\ q \in Seq(Payloads) /\ Len(q) \in Nat /\ inbox \in [Topics -> Seq(Payloads)]
  BY EmptySeq, LenProperties, SocketServerAssumption DEF BusTypes, Transmit, AllTopics
<1>2. /\ outbox[1] \in Posted /\ Len(outbox') = n - 1
      /\ \A a \in 1..(n - 1) : outbox'[a] = outbox[a + 1]
  BY <1>1, HeadTailProperties
<1>3. /\ \A a \in 1..n : a = 1 \/ (a - 1 \in 1..(n - 1) /\ (a - 1) + 1 = a)
      /\ \A a \in 1..(n - 1) : a + 1 \in 1..n /\ 1 < a + 1
      /\ 1 \in 1..n
  BY <1>1
<1>4. LastPublished'
  <2>1. ASSUME NEW a \in 1..(n - 1), outbox'[a].topic = "ZED_Status",
               \A b \in 1..(n - 1) : a < b => outbox'[b].topic # "ZED_Status"
        PROVE  outbox'[a].data.arg = "Stop"
    <3>1. a + 1 \in 1..n /\ outbox[a + 1] = outbox'[a]
      BY <1>2, <1>3
    <3>2. ASSUME NEW b \in 1..n, a + 1 < b PROVE outbox[b].topic # "ZED_Status"
      <4>1. b - 1 \in 1..(n - 1) /\ a < b - 1 /\ (b - 1) + 1 = b
        BY <1>1, <3>2
      <4>2. outbox'[b - 1] = outbox[b]
        BY <1>2, <4>1
      <4> QED
        BY <2>1, <4>1, <4>2
    <3> QED
      BY <2>1, <3>1, <3>2 DEF LastPublished
  <2> HIDE DEF n
  <2> QED
    BY <1>2, <2>1 DEF LastPublished
<1>5. ASSUME NoStatusIn(outbox') PROVE \A a \in 1..n : 1 < a => outbox[a].topic # "ZED_Status"
  <2> SUFFICES ASSUME NEW a \in 1..n, 1 < a PROVE outbox[a].topic # "ZED_Status"
    OBVIOUS
  <2>1. a - 1 \in 1..(n - 1) /\ (a - 1) + 1 = a
    BY <1>1
  <2>2. outbox'[a - 1] = outbox[a]
    BY <1>2, <2>1
  <2> HIDE DEF n
  <2> QED
    BY <1>2, <1>5, <2>1, <2>2 DEF NoStatusIn
<1>6. CASE outbox[1].topic # "ZED_Status"
  <2>1. inbox'["ZED_Status"] = q
    BY <1>1, <1>2, <1>6 DEF Transmit, Posted
  <2>2. NoStatusIn(outbox') => NoStatusIn(outbox)
    BY <1>3, <1>5, <1>6 DEF NoStatusIn
  <2> QED
    BY <1>4, <2>1, <2>2 DEF LastDelivered, LastShown
<1>7. CASE outbox[1].topic = "ZED_Status"
  <2> DEFINE e == outbox[1].data
  <2>1. inbox'["ZED_Status"] = Append(q, e) /\ e \in Payloads
    BY <1>1, <1>2, <1>7 DEF Transmit, Posted, StatusHasRoom
  <2>2. NoStatusIn(outbox') => e.arg = "Stop"
    BY <1>3, <1>5, <1>7 DEF LastPublished
  <2> HIDE DEF e, q
  <2>3. /\ Append(q, e) # <<>> /\ Len(Append(q, e)) = Len(q) + 1
        /\ Append(q, e)[Len(q) + 1] = e
    BY <1>1, <2>1, AppendProperties
  <2> QED
    BY <1>4, <2>1, <2>2, <2>3 DEF LastDelivered, LastShown
<1> QED
  BY <1>6, <1>7

LEMMA StatusShown ==
  ASSUME BusTypes, zedStatus_callback, LastPublished, LastDelivered, LastShown
  PROVE  (LastPublished /\ LastDelivered /\ LastShown)'
<1> DEFINE q == inbox["ZED_Status"]
           n == Len(q)
<1>1. /\ q \in Seq(Payloads) /\ q # <<>> /\ inbox'["ZED_Status"] = Tail(q)
      /\ outbox' = outbox /\ zed_status' = Head(q).arg
  BY SocketServerAssumption DEF BusTypes, zedStatus_callback, Take, AllTopics
<1>2. n \in Nat \ {0} /\ Head(q) = q[1]
  BY <1>1, EmptySeq
<1>3. /\ Tail(q) \in Seq(Payloads) /\ Len(Tail(q)) = n - 1
      /\ \A a \in 1..(n - 1) : Tail(q)[a] = q[a + 1]
  BY <1>1, HeadTailProperties
<1>4. NoStatusIn(outbox) => q[n].arg = "Stop"
  BY <1>1 DEF LastDelivered
<1>5. LastPublished' /\ (NoStatusIn(outbox') <=> NoStatusIn(outbox))
  BY <1>1 DEF LastPublished, NoStatusIn
<1> HIDE DEF q, n
<1>6. CASE Tail(q) = <<>>
  <2> DEFINE r == Tail(q)
  <2>1. Len(r) = n - 1 /\ r = <<>>
    BY <1>3, <1>6
  <2> HIDE DEF r
  <2>2. n = 1
    BY <1>2, <2>1
  <2> QED
    BY <1>1, <1>2, <1>4, <1>5, <1>6, <2>2 DEF LastDelivered, LastShown
<1>7. CASE Tail(q) # <<>>
  <2>1. Len(Tail(q)) \in Nat \ {0}
    BY <1>3, <1>7, EmptySeq
  <2>2. n - 1 \in 1..(n - 1) /\ (n - 1) + 1 = n
    BY <1>2, <1>3, <2>1
  <2>3. Tail(q)[Len(Tail(q))] = q[n]
    BY <1>3, <2>2
  <2> QED
    BY <1>1, <1>4, <1>5, <1>7, <2>3 DEF LastDelivered, LastShown
<1> QED
  BY <1>6, <1>7

LEMMA StatusStep ==
  ASSUME ResetTypes, DataInv, StatusHasRoom, StatusInv, [Next]_vars
  PROVE  StatusInv'
<1>1. BusTypes /\ CommandTypes /\ ActorTypes /\ "ZED_Status" \in Topics
  BY SocketServerAssumption DEF DataInv, AllTopics
<1>2. ASSUME trackerPc' \in {"none", "exited"} => trackerPc \in {"none", "exited"},
             UNCHANGED outbox, inbox'["ZED_Status"] = inbox["ZED_Status"],
             zed_status' \in {zed_status, "Stop"}
      PROVE  StatusInv'
  <2>1. /\ LastPublished' <=> LastPublished
        /\ NoStatusIn(outbox') <=> NoStatusIn(outbox)
    BY <1>2 DEF LastPublished, NoStatusIn
  <2> QED
    BY <1>2, <2>1 DEF StatusInv, LastDelivered, LastShown
<1>3. CASE execute_command
  <2>1. UNCHANGED <<trackerPc, zed_status>>
    BY <1>3 DEF execute_command, trackerVars, zedVars
  <2>2. CASE UNCHANGED busVars
    BY <1>2, <2>1, <2>2 DEF busVars
  <2>3. ASSUME NEW t \in CmdTopics, NEW p \in PayloadsOf(t), Publish(t, p)
        PROVE  StatusInv'
    <3>1. t \in Topics /\ t # "ZED_Status"
      BY SocketServerAssumption DEF AllTopics, CmdTopics
    <3>2. (LastPublished => LastPublished') /\ (NoStatusIn(outbox') => NoStatusIn(outbox))
      BY <1>1, <2>3, <3>1, StatusPublished
    <3>3. inbox' = inbox
      BY <2>3 DEF Publish
    <3> QED
      BY <2>1, <3>2, <3>3 DEF StatusInv, LastDelivered, LastShown
  <2> QED
    BY <1>1, <1>3, <2>2, <2>3, ExecutePublishes
<1>4. CASE TransmitStep
  <2>1. Transmit /\ UNCHANGED <<trackerPc, zed_status>>
    BY <1>4 DEF TransmitStep, trackerVars, serverVars, zedVars
  <2> QED
    BY <1>1, <2>1, StatusTransmitted DEF StatusInv
<1>5. CASE zedStatus_callback
  <2>1. UNCHANGED trackerPc
    BY <1>5 DEF zedStatus_callback, trackerVars
  <2> QED
    BY <1>1, <1>5, <2>1, StatusShown DEF StatusInv
<1>6. CASE TrackerStep
  <2>1. CASE PublishStop
    <3> DEFINE p == Payload(generation, 0, "Stop")
    <3>1. inbox' = inbox /\ trackerPc = "final"
      BY <2>1 DEF PublishStop, Publish
    <3>2. p \in PayloadsOf("ZED_Status") /\ p.arg = "Stop" /\ Publish("ZED_Status", p)
      <4>1. generation \in 0..MaxCommands /\ generation >= 1
        BY <3>1, GenerationBound DEF DataInv, ActorTypes
      <4>2. generation \in 1..(MaxClients + MaxCommands)
        BY <4>1, SocketServerAssumption
      <4> QED
        BY <2>1, <4>2
           DEF PublishStop, PayloadsOf, Payloads, Payload, Positions, Zero, Statuses
    <3> HIDE DEF p
    <3>3. LastPublished' /\ ~NoStatusIn(outbox')
      BY <1>1, <3>2, StatusPublished
    <3> QED
      BY <3>3 DEF StatusInv, LastDelivered, LastShown
  <2>2. CASE TestTracking \/ PublishPosition \/ PublishStatus
    <3>1. trackerPc' \notin {"none", "exited"}
      BY <2>2 DEF TestTracking, PublishPosition, PublishStatus
    <3> QED
      BY <3>1 DEF StatusInv
  <2> QED
    BY <1>6, <2>1, <2>2 DEF TrackerStep, TrackerNext
<1>7. CASE ConstructTracker
  <2>1. CASE trackerPc' = "loop"
    BY <2>1 DEF StatusInv
  <2>2. CASE trackerPc' # "loop"
    BY <1>2, <1>7, <2>2 DEF ConstructTracker, StartTracker, trackerVars, zedVars, busVars
  <2> QED
    BY <2>1, <2>2
<1>8. CASE \/ createFile_callback \/ stop_callback \/ probe_callback \/ getInfo_callback
           \/ zedPosition_callback
  <2>1. /\ UNCHANGED <<trackerPc, zed_status>>
        /\ \E t \in Topics : Take(t) /\ t # "ZED_Status"
    BY <1>8, SocketServerAssumption DEF createFile_callback, stop_callback, probe_callback,
       getInfo_callback, zedPosition_callback, trackerVars, zedVars, AllTopics, CmdTopics
  <2>2. UNCHANGED outbox /\ inbox'["ZED_Status"] = inbox["ZED_Status"]
    BY <1>1, <2>1 DEF Take, BusTypes
  <2> QED
    BY <1>2, <2>1, <2>2
<1>9. ASSUME NEW th \in {"main", "CreateFile", "StopTest"}, Reset(th) PROVE StatusInv'
  <2>1. UNCHANGED <<outbox, inbox>> /\ zed_status' \in {zed_status, "Stop"}
    BY <1>9 DEF Reset, ResetLoad, ResetStore, DeleteTracker, JoinAndFree, zed_setZeroStatus,
       zed_setZeroPosition, zedVars, busVars
  <2>2. trackerPc' = trackerPc \/ trackerPc = "exited"
    BY <1>9 DEF Reset, ResetLoad, ResetStore, DeleteTracker, StopTracking, JoinAndFree,
       JoinTracker, zed_setZeroStatus, zed_setZeroPosition, trackerVars
  <2> QED
    BY <1>2, <2>1, <2>2
<1>10. CASE \/ \E c \in Commands : Send(c)
            \/ Disconnect \/ AcceptStep \/ waiting_command \/ waiting_command_failed
            \/ createFile_throws \/ ProbePosition \/ UNCHANGED vars
  BY <1>2, <1>10 DEF Send, Disconnect, createFile_throws, AcceptStep, waiting_connection,
     waiting_connection_failed, waiting_connection_again, waiting_command,
     waiting_command_failed, ProbePosition, vars, trackerVars, zedVars, busVars
<1> QED
  BY <1>3, <1>4, <1>5, <1>6, <1>7, <1>8, <1>9, <1>10
     DEF Next, MainStep, MainWorks, AcceptStep, CreateStep, StopStep, ProbeStep

(* A tracker's last word is Stop and nothing older is shown after it, as   *)
(* long as the pipe of ZED_Status is never full: of a full pipe the last   *)
(* word itself may be lost.                                                *)
THEOREM LastWordIsStop == Spec /\ []StatusHasRoom => []QuiescentStatus
<1>1. Init => StatusInv
  <2> SUFFICES ASSUME Init PROVE StatusInv
    OBVIOUS
  <2>1. outbox = <<>> /\ inbox["ZED_Status"] = <<>> /\ zed_status = "Stop"
    BY SocketServerAssumption DEF Init, BusInit, AllTopics
  <2> QED
    BY <2>1 DEF StatusInv, LastPublished, LastDelivered, LastShown, NoStatusIn
<1>2. DataInv /\ StatusInv => QuiescentStatus
  <2> SUFFICES ASSUME DataInv, StatusInv, trackerPc \in {"none", "exited"}, ~StatusPending
               PROVE  zed_status = "Stop"
    BY DEF QuiescentStatus
  <2>1. DOMAIN outbox = 1..Len(outbox)
    BY LenProperties DEF DataInv, BusTypes
  <2>2. inbox["ZED_Status"] = <<>> /\ NoStatusIn(outbox)
    BY <2>1 DEF StatusPending, NoStatusIn
  <2> QED
    BY <2>2 DEF StatusInv, LastShown
<1> QED
  BY <1>1, <1>2, StatusStep, DataInvHolds, PTL DEF Spec

==============================================================================
