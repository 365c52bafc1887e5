------------------------------ MODULE SocketServer ------------------------------
(***************************************************************************)
(* mysocketserver::SocketServer as main() runs it. The main thread accepts *)
(* a client, receives and executes its commands, and when the client is    *)
(* gone cleans up and accepts the next. A command is executed by           *)
(* publishing it; the callback of each topic runs on a thread of its own   *)
(* (one Subscriber per topic), and the position tracker publishes from     *)
(* another, so the file, the tracker and the ZED state have several        *)
(* writers. Bus.tla is what carries the messages.                          *)
(*                                                                         *)
(* main's cleanup and the StopTest callback are the same three calls:      *)
(* result_file.close(); pt.reset(); zed_setZero(). pt.reset() and the      *)
(* assignment pt = make_unique(...) read the old pointer, store the new    *)
(* one and delete what they read: three steps.                             *)
(***************************************************************************)
EXTENDS PositionTracker, CommandSolver, FiniteSets

CONSTANTS
  Files, Unopenable, \* file names; those whose open() fails
  NoFile,            \* result_file is not open
  Deployment,        \* built with USE_DEPLOYMENT_ENV
  Commands,          \* what a client can send
  ClientKind,        \* "orderly", "hasty" or "free": see MaySend
  SocketMayFail,     \* bind(), listen() or accept() may fail for the network's reasons
  SpareFds,          \* descriptors left for connections and the result file
  MaxCommands, MaxClients \* bounds: commands sent, clients connected

CmdTopics == {"CreateFile", "Probe", "StopTest", "GetInfo"}
AllTopics == CmdTopics \cup {"ZED_Status", "ZED_Position"}

(* The threads that have more than one step: main and three callbacks.     *)
Threads == {"main", "CreateFile", "Probe", "StopTest"}

VARIABLES
  pipe,       \* commands in the client's connection, not yet received
  connected,  \* the client of the current connection has not closed it
  client,     \* clients accepted so far; _client_fd is the latest one's
  listening,  \* the server's socket accepts; when it is closed, _client_fd is -1
  wanted,     \* history: the commands sent, with the file the client then wants open
  message,    \* the commands in SocketServer::message
  pc,         \* where each thread is
  old,        \* the pointer each thread has read from pt
  file,       \* the open file of result_file, or NoFile
  disk,       \* rows written to each file
  pt,         \* the tracker that pt points to; 0 is null
  zed_status, \* std::atomic<int>
  zed_pos,    \* zed_x, zed_y, zed_z
  replies,    \* replies sent: the connection used, who had asked, the content
  fault       \* what ended the process, or "none"

clientVars == <<pipe, connected, client, listening, wanted>>
fileVars == <<file, disk>>
zedVars == <<zed_status, zed_pos>>
ptVars == <<pt, old>>
vars == <<clientVars, message, pc, fileVars, ptVars, zedVars, replies, fault,
          trackerVars, busVars>>

NoField == -2   \* a row whose position has not been written, or whose data is lost

Positions == {Zero, Unmeasured} \cup 1..MaxCommands
Rows == [data : {NoField} \cup 1..MaxCommands, pos : {NoField} \cup Positions]
Payloads == [by : 1..(MaxClients + MaxCommands), n : Positions,
             arg : {"-"} \cup Files \cup Statuses]
Requests == [command : Int, args : ArgsKinds, arg : {"-"} \cup Files, n : 1..MaxCommands]

ASSUME SocketServerAssumption ==
  /\ Topics = AllTopics
  /\ Unopenable \subseteq Files /\ NoFile \notin Files
  /\ Deployment \in BOOLEAN /\ CameraMayFail \in BOOLEAN
  /\ SocketMayFail \in BOOLEAN /\ SpareFds \in Nat
  /\ Tracking \subseteq {"OK", "Searching", "Other"} /\ Tracking # {}
  /\ ClientKind \in {"orderly", "hasty", "free"}
  /\ MaxCommands \in Nat /\ MaxClients \in Nat /\ MaxSamples \in Nat
  /\ HighWater \in Nat \ {0}

(* The text of a command, up to what createCommand distinguishes; Args     *)
(* that decode for CREATE name a file.                                     *)
ASSUME CommandsAssumption ==
  /\ Commands \subseteq [command : Int, args : ArgsKinds, arg : {"-"} \cup Files]
  /\ \A c \in Commands : c.command = CREATE /\ c.args = "valid" => c.arg \in Files

Init ==
  /\ BusInit /\ TrackerInit
  /\ pipe = <<>> /\ connected = FALSE /\ client = 0 /\ wanted = <<>>
  /\ listening \in BOOLEAN /\ (~listening => SocketMayFail)   \* init() goes on either way
  /\ message = <<>>
  /\ pc = [th \in Threads |-> IF th = "main" THEN "accept" ELSE "idle"]
  /\ old = [th \in Threads |-> 0]
  /\ file = NoFile /\ disk = [f \in Files |-> <<>>]
  /\ pt = 0
  /\ zed_status = "Stop" /\ zed_pos = Zero
  /\ replies = <<>>
  /\ fault = "none"

Go(th, step) == pc' = [pc EXCEPT ![th] = step]
Terminate(why) == fault' = why

(* A connection is never closed, so each costs a descriptor for good; the  *)
(* result file costs one while it is open.                                 *)
FdsUsed == client + IF file = NoFile THEN 0 ELSE 1
FdLeft == FdsUsed < SpareFds

------------------------------------------------------------------------------
(* The client: code outside src/source, as testClient.py shows it.         *)

(* Nothing a client asked for is still on its way or being executed.       *)
Quiet ==
  /\ pipe = <<>> /\ message = <<>>
  /\ pc["main"] \in {"accept", "recv"}
  /\ \A th \in Threads \ {"main"} : pc[th] = "idle"
  /\ \A i \in DOMAIN outbox : outbox[i].topic \notin CmdTopics
  /\ \A t \in CmdTopics : inbox[t] = <<>>

(* The file the client has asked for with CREATE and not yet with STOP.    *)
Wants ==
  IF wanted # <<>> /\ wanted[Len(wanted)].by = client
  THEN wanted[Len(wanted)].file ELSE NoFile

WantsAfter(c) ==
  CASE createCommand(c) = {"CreateFile"} -> c.arg
    [] createCommand(c) = {"StopTest"}   -> NoFile
    [] OTHER                             -> Wants

(* An orderly client waits until a command has taken effect before it      *)
(* sends the next one or leaves (testClient.py sleeps and polls GETINFO).  *)
(* A hasty one does not wait before it leaves, as testClient.py does not   *)
(* after its STOP. Both stop a file before they create another; a free one *)
(* does anything.                                                          *)
MaySend(c) ==
  /\ ClientKind \in {"orderly", "hasty"} => Quiet
  /\ ClientKind # "free" /\ c.command = CREATE => Wants = NoFile

Send(c) ==
  /\ connected /\ Len(wanted) < MaxCommands
  /\ MaySend(c)
  /\ wanted' = Append(wanted, [by |-> client, file |-> WantsAfter(c)])
  /\ pipe' = Append(pipe, [command |-> c.command, args |-> c.args, arg |-> c.arg,
                           n |-> Len(wanted')])
  /\ UNCHANGED <<connected, client, listening, message, pc, fileVars, ptVars, zedVars, replies,
                 fault, trackerVars, busVars>>

Disconnect ==
  /\ connected
  /\ ClientKind = "orderly" => Quiet
  /\ connected' = FALSE
  /\ UNCHANGED <<pipe, client, listening, wanted, message, pc, fileVars, ptVars, zedVars, replies,
                 fault, trackerVars, busVars>>

------------------------------------------------------------------------------
(* The main thread                                                         *)

(* waiting_connection(): m_accept returns with the next client.            *)
waiting_connection ==
  /\ pc["main"] = "accept" /\ client < MaxClients
  /\ listening /\ FdLeft
  /\ client' = client + 1
  /\ connected' = TRUE /\ pipe' = <<>>
  /\ Go("main", "recv")
  /\ UNCHANGED <<listening, wanted, message, fileVars, ptVars, zedVars, replies, fault,
                 trackerVars, busVars>>

(* ... or throws: the connection was aborted, or no descriptor is left.    *)
(* The handler closes the server's socket, and main goes on to receive     *)
(* from -1.                                                                *)
waiting_connection_failed ==
  /\ pc["main"] = "accept" /\ listening
  /\ SocketMayFail \/ ~FdLeft
  /\ listening' = FALSE
  /\ Go("main", "recv")
  /\ UNCHANGED <<pipe, connected, client, wanted, message, fileVars, ptVars, zedVars,
                 replies, fault, trackerVars, busVars>>

(* On the closed socket it throws at once, and so does the handler, which  *)
(* closes it again; nothing catches that. (What follows when the number is *)
(* the result file's by then is in Connection.tla.)                        *)
waiting_connection_again ==
  /\ pc["main"] = "accept" /\ ~listening
  /\ Terminate("accept_failed")
  /\ UNCHANGED <<clientVars, message, pc, fileVars, ptVars, zedVars, replies,
                 trackerVars, busVars>>

(* waiting_command(): m_recvfrom appends what has arrived, which may be    *)
(* several commands at once.                                               *)
waiting_command ==
  /\ pc["main"] = "recv"
  /\ \E k \in 1..Len(pipe) :
       /\ message' = message \o SubSeq(pipe, 1, k)
       /\ pipe' = SubSeq(pipe, k + 1, Len(pipe))
  /\ Go("main", "execute")
  /\ UNCHANGED <<connected, client, listening, wanted, fileVars, ptVars, zedVars, replies, fault,
                 trackerVars, busVars>>

(* Bug: the catch block forgets pt.reset().                                *)
waiting_command_keeps ==
  /\ pc["main"] = "recv" /\ ~connected
  /\ pipe' = <<>>
  /\ file' = NoFile
  /\ Go("main", "zeroStatus")
  /\ UNCHANGED <<connected, client, listening, wanted, message, disk, ptVars, zedVars,
                 replies, fault, trackerVars, busVars>>

(* m_recvfrom throws when the client is gone. A reset loses what it had    *)
(* sent. The catch block begins with result_file.close().                  *)
waiting_command_failed ==
  /\ pc["main"] = "recv" /\ ~connected
  /\ pipe' = <<>>
  /\ file' = NoFile
  /\ Go("main", "load")
  /\ UNCHANGED <<connected, client, listening, wanted, message, disk, ptVars, zedVars,
                 replies, fault, trackerVars, busVars>>

(* Bug: message is not cleared when the command is rejected.               *)
execute_command_unclear ==
  /\ pc["main"] = "execute"
  /\ \E o \in executeCommand(message) :
       \/ /\ o \in CmdTopics
          /\ LET c == message[1]
             IN Publish(o, Payload(client, IF o = "Probe" THEN c.n ELSE 0, c.arg))
          /\ message' = <<>>
          /\ UNCHANGED fault
       \/ o = "throw" /\ UNCHANGED <<fault, message, busVars>>
       \/ o = "crash" /\ Terminate("bad_command") /\ UNCHANGED <<message, busVars>>
  /\ Go("main", "recv")
  /\ UNCHANGED <<clientVars, fileVars, ptVars, zedVars, replies, trackerVars>>

(* execute_command(): publish, or an exception that main() catches; the    *)
(* message is cleared either way.                                          *)
execute_command ==
  /\ pc["main"] = "execute"
  /\ \E o \in executeCommand(message) :
       \/ /\ o \in CmdTopics
          /\ LET c == message[1]
             IN Publish(o, Payload(client, IF o = "Probe" THEN c.n ELSE 0, c.arg))
          /\ UNCHANGED fault
       \/ o = "throw" /\ UNCHANGED <<fault, busVars>>
       \/ o = "crash" /\ Terminate("bad_command") /\ UNCHANGED busVars
  /\ message' = <<>>
  /\ Go("main", "recv")
  /\ UNCHANGED <<clientVars, fileVars, ptVars, zedVars, replies, trackerVars>>

------------------------------------------------------------------------------
(* pt.reset() and pt = make_unique(...), then zed_setZero(); th is the     *)
(* thread that is in them.                                                 *)

(* Bug: the tracker is deleted before pt is cleared.                       *)
DeleteFirst(th) ==
  /\ pc[th] = "load"
  /\ old' = [old EXCEPT ![th] = pt]
  /\ Go(th, IF pt = 0 THEN "store" ELSE "delete")
  /\ UNCHANGED <<clientVars, message, fileVars, pt, zedVars, replies, fault,
                 trackerVars, busVars>>

ResetLoad(th) ==
  /\ pc[th] = "load"
  /\ old' = [old EXCEPT ![th] = pt]
  /\ Go(th, "store")
  /\ UNCHANGED <<clientVars, message, fileVars, pt, zedVars, replies, fault,
                 trackerVars, busVars>>

AfterReset(th) == IF th = "CreateFile" THEN "idle" ELSE "zeroStatus"

ResetStore(th) ==
  /\ pc[th] = "store"
  /\ pt' = IF th = "CreateFile" THEN generation ELSE 0
  /\ Go(th, IF old[th] = 0 THEN AfterReset(th) ELSE "delete")
  /\ UNCHANGED <<clientVars, message, fileVars, old, zedVars, replies, fault,
                 trackerVars, busVars>>

(* The destructor begins; on a tracker that another thread is deleting or  *)
(* has deleted, anything can follow.                                       *)
DeleteTracker(th) ==
  /\ pc[th] = "delete"
  /\ IF old[th] = generation /\ trackerPc # "none" /\ keepRunning
     THEN StopTracking /\ UNCHANGED fault
     ELSE Terminate("double_delete") /\ UNCHANGED trackerVars
  /\ Go(th, "join")
  /\ UNCHANGED <<clientVars, message, fileVars, ptVars, zedVars, replies, busVars>>

JoinAndFree(th) ==
  /\ pc[th] = "join"
  /\ JoinTracker
  /\ old' = [old EXCEPT ![th] = 0]
  /\ Go(th, AfterReset(th))
  /\ UNCHANGED <<clientVars, message, fileVars, pt, zedVars, replies, fault, busVars>>

(* Bug: a status that status_list has no name for.                         *)
ZeroUnnamed(th) ==
  /\ pc[th] = "zeroStatus"
  /\ zed_status' = "Closed"
  /\ Go(th, "zeroPosition")
  /\ UNCHANGED <<clientVars, message, fileVars, ptVars, zed_pos, replies, fault,
                 trackerVars, busVars>>

zed_setZeroStatus(th) ==
  /\ pc[th] = "zeroStatus"
  /\ zed_status' = "Stop"
  /\ Go(th, "zeroPosition")
  /\ UNCHANGED <<clientVars, message, fileVars, ptVars, zed_pos, replies, fault,
                 trackerVars, busVars>>

(* The three stores of the position; then main throws its runtime_error    *)
(* and goes back to WAIT, and the StopTest callback returns.               *)
zed_setZeroPosition(th) ==
  /\ pc[th] = "zeroPosition"
  /\ zed_pos' = Zero
  /\ Go(th, IF th = "main" THEN "accept" ELSE "idle")
  /\ UNCHANGED <<clientVars, message, fileVars, ptVars, zed_status, replies, fault,
                 trackerVars, busVars>>

------------------------------------------------------------------------------
(* The callbacks, each on the thread of its topic                          *)

(* Bug: the file is opened with trunc in place of app.                     *)
createFile_truncating ==
  /\ pc["CreateFile"] = "idle" /\ Take("CreateFile")
  /\ LET f == Head(inbox["CreateFile"]).arg
     IN /\ file = NoFile /\ f \notin Unopenable /\ FdLeft
        /\ file' = f
        /\ disk' = [disk EXCEPT ![f] = <<>>]
        /\ Go("CreateFile", IF Deployment THEN "construct" ELSE "idle")
  /\ UNCHANGED <<clientVars, message, ptVars, zedVars, replies, fault, trackerVars>>

createFile_callback ==
  /\ pc["CreateFile"] = "idle" /\ Take("CreateFile")
  /\ LET f == Head(inbox["CreateFile"]).arg
     IN /\ file = NoFile /\ f \notin Unopenable /\ FdLeft
        /\ file' = f
        /\ Go("CreateFile", IF Deployment THEN "construct" ELSE "idle")
  /\ UNCHANGED <<clientVars, message, disk, ptVars, zedVars, replies, fault, trackerVars>>

(* result_file.open() fails on a stream that is already open, or when no   *)
(* descriptor is left. The exception leaves the thread's function, which   *)
(* ends the process; the command goes down with it, unperformed.           *)
createFile_throws ==
  /\ pc["CreateFile"] = "idle" /\ inbox["CreateFile"] # <<>>
  /\ LET f == Head(inbox["CreateFile"]).arg
     IN file # NoFile \/ f \in Unopenable \/ ~FdLeft
  /\ Terminate("create_failed")
  /\ UNCHANGED <<clientVars, message, pc, fileVars, ptVars, zedVars, replies, trackerVars,
                 busVars>>

(* make_unique<PositionTracker>(...): opening the camera throws while      *)
(* another tracker has it, or when the camera fails.                       *)
ConstructTracker ==
  /\ pc["CreateFile"] = "construct"
  /\ \/ /\ StartTracker
        /\ Go("CreateFile", "load")
        /\ UNCHANGED fault
     \/ /\ trackerPc # "none" \/ CameraMayFail
        /\ Terminate("camera_busy")
        /\ UNCHANGED <<pc, trackerVars>>
  /\ UNCHANGED <<clientVars, message, fileVars, ptVars, zedVars, replies, busVars>>

(* Bug: STOP leaves the file open.                                         *)
stop_unclosed ==
  /\ pc["StopTest"] = "idle" /\ Take("StopTest")
  /\ Go("StopTest", "load")
  /\ UNCHANGED <<clientVars, message, fileVars, ptVars, zedVars, replies, fault, trackerVars>>

stop_callback ==
  /\ pc["StopTest"] = "idle" /\ Take("StopTest")
  /\ file' = NoFile
  /\ Go("StopTest", "load")
  /\ UNCHANGED <<clientVars, message, disk, ptVars, zedVars, replies, fault, trackerVars>>

(* result_file << data: a stream that is not open drops it.                *)
probe_callback ==
  /\ pc["Probe"] = "idle" /\ Take("Probe")
  /\ disk' = IF file = NoFile THEN disk
             ELSE [disk EXCEPT ![file] =
                     Append(@, [data |-> Head(inbox["Probe"]).n, pos |-> NoField])]
  /\ Go("Probe", "position")
  /\ UNCHANGED <<clientVars, message, file, ptVars, zedVars, replies, fault, trackerVars>>

(* The position fields and the end of the line.                            *)
EndsOpen(rows) == rows # <<>> /\ rows[Len(rows)].pos = NoField

(* Bug: the row ends after the data.                                       *)
ProbeNoPosition ==
  /\ pc["Probe"] = "position"
  /\ Go("Probe", "idle")
  /\ UNCHANGED <<clientVars, message, fileVars, ptVars, zedVars, replies, fault,
                 trackerVars, busVars>>

ProbePosition ==
  /\ pc["Probe"] = "position"
  /\ disk' = IF file = NoFile THEN disk
             ELSE [disk EXCEPT ![file] =
                     IF EndsOpen(@) THEN [@ EXCEPT ![Len(@)].pos = zed_pos]
                     ELSE Append(@, [data |-> NoField, pos |-> zed_pos])]
  /\ Go("Probe", "idle")
  /\ UNCHANGED <<clientVars, message, file, ptVars, zedVars, replies, fault,
                 trackerVars, busVars>>

(* Bug: the reply goes to the connection accepted first.                   *)
getInfo_first ==
  /\ Take("GetInfo")
  /\ replies' = Append(replies, [to |-> 1, asked |-> Head(inbox["GetInfo"]).by,
                                 status |-> zed_status, pos |-> zed_pos])
  /\ UNCHANGED <<clientVars, message, pc, fileVars, ptVars, zedVars, fault, trackerVars>>

(* pack_infoData(), then m_sendto on whatever connection is the latest. A  *)
(* client that is gone: the reply is lost, or the write raises SIGPIPE. On *)
(* -1 it is an error, which is caught.                                     *)
getInfo_callback ==
  /\ Take("GetInfo")
  /\ LET reply == [to |-> client, asked |-> Head(inbox["GetInfo"]).by,
                   status |-> zed_status, pos |-> zed_pos]
     IN replies' = IF connected THEN Append(replies, reply) ELSE replies
  /\ \/ UNCHANGED fault
     \/ ~connected /\ listening /\ Terminate("sigpipe")
  /\ UNCHANGED <<clientVars, message, pc, fileVars, ptVars, zedVars, trackerVars>>

zedStatus_callback ==
  /\ Take("ZED_Status")
  /\ zed_status' = Head(inbox["ZED_Status"]).arg
  /\ UNCHANGED <<clientVars, message, pc, fileVars, ptVars, zed_pos, replies, fault,
                 trackerVars>>

zedPosition_callback ==
  /\ Take("ZED_Position")
  /\ zed_pos' = Head(inbox["ZED_Position"]).n
  /\ UNCHANGED <<clientVars, message, pc, fileVars, ptVars, zed_status, replies, fault,
                 trackerVars>>

------------------------------------------------------------------------------

serverVars == <<clientVars, message, pc, fileVars, ptVars, zedVars, replies, fault>>

TrackerStep == TrackerNext /\ UNCHANGED serverVars
TransmitStep == Transmit /\ UNCHANGED <<serverVars, trackerVars>>

Reset(th) ==
  \/ ResetLoad(th) \/ ResetStore(th) \/ DeleteTracker(th) \/ JoinAndFree(th)
  \/ zed_setZeroStatus(th) \/ zed_setZeroPosition(th)

MainWorks ==
  waiting_connection_again \/ waiting_command \/ waiting_command_failed
  \/ execute_command \/ Reset("main")
MainStep == waiting_connection \/ waiting_connection_failed \/ MainWorks

CreateStep ==
  createFile_callback \/ createFile_throws \/ ConstructTracker \/ Reset("CreateFile")
StopStep == stop_callback \/ Reset("StopTest")
ProbeStep == probe_callback \/ ProbePosition

Next ==
  /\ fault = "none"
  /\ \/ \E c \in Commands : Send(c)
     \/ Disconnect
     \/ MainStep \/ CreateStep \/ StopStep \/ ProbeStep
     \/ getInfo_callback \/ zedStatus_callback \/ zedPosition_callback
     \/ TrackerStep \/ TransmitStep

Spec == Init /\ [][Next]_vars

(* Every thread of the program keeps running; sends, disconnections and    *)
(* what accept() returns on a healthy socket are the environment's. The    *)
(* sender and the callbacks run on threads of their own.                   *)
FairSpec ==
  /\ Spec
  /\ WF_vars(fault = "none" /\ MainWorks)
  /\ WF_vars(fault = "none" /\ CreateStep)
  /\ WF_vars(fault = "none" /\ StopStep)
  /\ WF_vars(fault = "none" /\ ProbeStep)
  /\ WF_vars(fault = "none" /\ getInfo_callback)
  /\ WF_vars(fault = "none" /\ zedStatus_callback)
  /\ WF_vars(fault = "none" /\ zedPosition_callback)
  /\ WF_vars(fault = "none" /\ TrackerStep)
  /\ WF_vars(fault = "none" /\ TransmitStep)

------------------------------------------------------------------------------
(* Properties                                                              *)

Steps == {"idle", "accept", "recv", "execute", "load", "store", "delete", "join",
          "zeroStatus", "zeroPosition", "construct", "position"}
Faults == {"none", "bad_command", "create_failed", "camera_busy", "double_delete", "sigpipe",
           "accept_failed"}

(* Every variable stays in the range its C++ type and its uses give it.    *)
TypeOK ==
  /\ \A i \in DOMAIN outbox : outbox[i].topic \in Topics /\ outbox[i].data \in Payloads
  /\ \A t \in Topics : \A i \in DOMAIN inbox[t] : inbox[t][i] \in Payloads
  /\ generation \in 0..MaxCommands /\ trackerPc \in TrackerPcs
  /\ position \in Positions /\ cameraStatus \in Statuses
  /\ \A q \in {pipe, message} : \A i \in DOMAIN q : q[i] \in Requests
  /\ pc \in [Threads -> Steps]
  /\ old \in [Threads -> 0..generation] /\ pt \in 0..generation
  /\ file \in Files \cup {NoFile}
  /\ \A f \in Files : \A i \in DOMAIN disk[f] : disk[f][i] \in Rows
  /\ zed_status \in Statuses /\ zed_pos \in Positions
  /\ fault \in Faults

(* A command is parsed on its own: nothing of an earlier one, executed,    *)
(* rejected or cut off by a disconnection, is left in message when         *)
(* m_recvfrom appends to it.                                               *)
CommandStandsAlone == pc["main"] \in {"accept", "recv"} => message = <<>>

(* The rows of a file are in the order the probes were sent, across any    *)
(* number of sessions, although the file is opened and closed by others.   *)
RowsInOrder ==
  \A f \in Files : \A i, j \in DOMAIN disk[f] :
    i < j /\ disk[f][i].data # NoField /\ disk[f][j].data # NoField
      => disk[f][i].data < disk[f][j].data

(* pt never points to a tracker that is being destroyed or is gone, even   *)
(* when main's cleanup, STOP and CREATE reset it at the same time.         *)
PtIsLive == pt # 0 => pt = generation /\ trackerPc # "none" /\ keepRunning

(* When no tracker runs and no status is on its way, the status shown is   *)
(* Stop: the last word of a tracker is never overtaken by an older one.    *)
StatusPending ==
  \/ inbox["ZED_Status"] # <<>>
  \/ \E i \in DOMAIN outbox : outbox[i].topic = "ZED_Status"
QuiescentStatus ==
  trackerPc \in {"none", "exited"} /\ ~StatusPending => zed_status = "Stop"

(* While files, camera and network do not fail, what ends the process of   *)
(* an orderly client is a command that does so whoever sends it, or the    *)
(* lack of a descriptor once every one has gone to a connection that was   *)
(* not closed. Until then it may leave at any time and come back.          *)
Survives == fault \notin {"none", "bad_command"} => client = SpareFds

(* Between two commands of an orderly client the file, pt and the tracker  *)
(* agree: a tracker runs exactly while a file is open (deployment build),  *)
(* and neither outlives the client.                                        *)
SessionAgrees ==
  Quiet =>
    /\ (pt # 0) <=> (Deployment /\ file # NoFile)
    /\ (trackerPc = "none") <=> (pt = 0)
    /\ pc["main"] = "accept" => file = NoFile

(* ... and every row written so far has its data and its position.         *)
RowsComplete ==
  Quiet => \A f \in Files : \A i \in DOMAIN disk[f] :
             disk[f][i].data # NoField /\ disk[f][i].pos # NoField

(* A reply goes to the client that asked.                                  *)
ReplyToAsker == \A i \in DOMAIN replies : replies[i].to = replies[i].asked

(* The server seen by an orderly client performs its commands one by one.  *)
(* A command takes effect when its file is opened or closed, or its row    *)
(* begun; GETINFO and what is rejected change nothing.                     *)
OpOf(topic) == IF topic \in {"CreateFile", "Probe", "StopTest"} THEN topic ELSE "none"
AsOp(topic, arg, n) == [op |-> OpOf(topic), arg |-> IF OpOf(topic) = "CreateFile" THEN arg ELSE "-",
                        n |-> IF topic = "Probe" THEN n ELSE 0]
InText(q) ==
  [i \in DOMAIN q |->
     IF createCommand(q[i]) \subseteq CmdTopics
     THEN AsOp(CHOOSE t \in createCommand(q[i]) : TRUE, q[i].arg, q[i].n)
     ELSE AsOp("none", "-", 0)]
InOutbox ==
  LET cmds == {i \in DOMAIN outbox : outbox[i].topic \in CmdTopics}
      Nth(k) == CHOOSE i \in cmds : Cardinality({j \in cmds : j <= i}) = k
  IN [k \in 1..Cardinality(cmds) |->
        AsOp(outbox[Nth(k)].topic, outbox[Nth(k)].data.arg, outbox[Nth(k)].data.n)]
InInbox(t) ==
  [i \in DOMAIN inbox[t] |-> AsOp(t, inbox[t][i].arg, inbox[t][i].n)]

AsSession == INSTANCE Session WITH
  Serials <- 0..MaxCommands,
  session <- file,
  pending <- InText(pipe) \o InText(message) \o InOutbox \o InInbox("CreateFile")
               \o InInbox("Probe") \o InInbox("StopTest") \o InInbox("GetInfo"),
  rows <- [f \in Files |-> [i \in DOMAIN disk[f] |-> disk[f][i].data]]

ImplementsSession == AsSession!SessionSpec

(* Whatever a client sends and whenever it leaves, every command takes     *)
(* effect or is rejected, every cleanup ends, and the server is ready for  *)
(* the next command or client, unless a fault ends it.                     *)
CommandsComplete == (~Quiet) ~> (Quiet \/ fault # "none")

------------------------------------------------------------------------------
(* What the program's comments and tests say and a client can refute       *)

(* A CREATE that fails is an error of that command, not of the process.    *)
CreateFailureIsContained == fault # "create_failed"

(* STOP and a disconnection reset the tracker once.                        *)
ResetOnce == fault # "double_delete"

(* When nothing tracks and no message is on its way, the position is zero. *)
PositionIsZero ==
  Quiet /\ trackerPc = "none" /\ outbox = <<>> /\ inbox["ZED_Position"] = <<>>
    => zed_pos = Zero

==============================================================================
