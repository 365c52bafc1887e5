------------------------------- MODULE Connection -------------------------------
(***************************************************************************)
(* The descriptors of the running server: SocketServer::init,              *)
(* waiting_connection and waiting_command as main() calls them, and the    *)
(* callbacks that use descriptors: CREATE and STOP open and close the      *)
(* result file, GETINFO sends on _client_fd. SocketServer.tla has what     *)
(* else these functions do; here a command is only counted while it is on  *)
(* its way to its callback.                                                *)
(***************************************************************************)
EXTENDS WebSocket

CONSTANTS MaxClients, MaxCommands   \* bounds: connections, commands

ASSUME ConnectionAssumption == MaxClients \in Nat /\ MaxCommands \in Nat

VARIABLES
  pc,        \* where main() is
  file_fd,   \* the number result_file was opened with, or Failed
  pending,   \* commands published and not yet executed, per topic
  accepted,  \* connections accepted so far
  received   \* commands received so far

connectionVars == <<socketVars, pc, file_fd, pending, accepted, received>>

Topics == {"CreateFile", "StopTest", "GetInfo"}
Pcs == {"init", "accept", "recv", "cleanup", "terminated"}

ConnectionInit ==
  /\ SocketInit
  /\ pc = "init"
  /\ file_fd = Failed
  /\ pending = [t \in Topics |-> 0]
  /\ accepted = 0 /\ received = 0

Goes(from, to) == pc = from /\ pc' = to

------------------------------------------------------------------------------
(* main()                                                                  *)

(* init(): when bind() or listen() fails the server's socket is closed and *)
(* main() goes on. If there was none, closing fails too, and nothing       *)
(* catches that.                                                           *)
init ==
  /\ \/ m_init /\ Goes("init", "accept")
     \/ m_closeServer /\ UNCHANGED client_fd /\ Goes("init", "accept")
     \/ m_closeServer_throws /\ UNCHANGED client_fd /\ Goes("init", "terminated")
  /\ UNCHANGED <<file_fd, pending, accepted, received>>

waiting_connection ==
  /\ Goes("accept", "recv")
  /\ accepted < MaxClients
  /\ m_accept
  /\ accepted' = accepted + 1
  /\ UNCHANGED <<file_fd, pending, received>>

(* Bug: an error of close() is swallowed, as is that of accept().          *)
waiting_connection_swallowed ==
  /\ client_fd' = Failed
  /\ \/ m_closeServer \/ m_closeServer_throws
  /\ Goes("accept", "recv")
  /\ UNCHANGED <<file_fd, pending, accepted, received>>

(* m_accept throws with _client_fd = -1, and the handler closes the        *)
(* server; when that throws too, nothing catches it.                       *)
waiting_connection_failed ==
  /\ client_fd' = Failed
  /\ \/ m_closeServer /\ Goes("accept", "recv")
     \/ m_closeServer_throws /\ Goes("accept", "terminated")
  /\ UNCHANGED <<file_fd, pending, accepted, received>>

(* On a healthy socket accept() can fail too: the connection is aborted,   *)
(* or there is no descriptor left. Otherwise it fails at once.             *)
AcceptAborted == Listening /\ waiting_connection_failed
AcceptRefused == ~Listening /\ waiting_connection_failed

(* A command is received and published; what a client sent before it left  *)
(* can still be read.                                                      *)
waiting_command ==
  /\ pc = "recv" /\ IsOpen(client_fd)
  /\ received < MaxCommands
  /\ \E t \in Topics : pending' = [pending EXCEPT ![t] = @ + 1]
  /\ received' = received + 1
  /\ UNCHANGED <<socketVars, pc, file_fd, accepted>>

waiting_command_failed ==
  /\ Goes("recv", "cleanup")
  /\ ~Reachable
  /\ UNCHANGED <<socketVars, file_fd, pending, accepted, received>>

(* Bug: the lost connection is closed, and _client_fd keeps its number.    *)
cleanup_closing ==
  /\ Goes("cleanup", "accept")
  /\ fds' = [d \in Descriptors |-> IF d \in {file_fd, client_fd} THEN "free" ELSE fds[d]]
  /\ file_fd' = Failed
  /\ UNCHANGED <<listening, server_fd, client_fd, peer, pending, accepted, received>>

(* The catch block of waiting_command: of the descriptors, result_file's.  *)
cleanup ==
  /\ Goes("cleanup", "accept")
  /\ fds' = Closed(file_fd)
  /\ file_fd' = Failed
  /\ UNCHANGED <<listening, server_fd, client_fd, peer, pending, accepted, received>>

------------------------------------------------------------------------------
(* The callbacks, and the client                                           *)

(* Bug: a callback runs without a message.                                 *)
ExecutesUnasked(t) ==
  /\ pc # "terminated"
  /\ pending' = [pending EXCEPT ![t] = @ - 1]
  /\ UNCHANGED <<accepted, received>>

Executes(t) ==
  /\ pc # "terminated"
  /\ pending[t] > 0
  /\ pending' = [pending EXCEPT ![t] = @ - 1]
  /\ UNCHANGED <<accepted, received>>

createFile_callback ==
  /\ Executes("CreateFile")
  /\ \/ /\ file_fd = Failed
        /\ OpenAs("file") /\ file_fd' = LowestFree
        /\ UNCHANGED pc
     \/ /\ file_fd # Failed \/ FreeFds = {}
        /\ pc' = "terminated"
        /\ UNCHANGED <<fds, file_fd>>
  /\ UNCHANGED <<listening, server_fd, client_fd, peer>>

stop_callback ==
  /\ Executes("StopTest")
  /\ fds' = Closed(file_fd)
  /\ file_fd' = Failed
  /\ UNCHANGED <<listening, server_fd, client_fd, peer, pc>>

(* m_sendto: an error is caught; on a connection whose client has gone the *)
(* write may raise SIGPIPE.                                                *)
getInfo_callback ==
  /\ Executes("GetInfo")
  /\ \/ UNCHANGED pc
     \/ IsOpen(client_fd) /\ peer = "gone" /\ pc' = "terminated"
  /\ UNCHANGED <<socketVars, file_fd>>

ClientCloses ==
  /\ pc # "terminated" /\ peer = "open"
  /\ peer' = "gone"
  /\ UNCHANGED <<fds, listening, server_fd, client_fd, pc, file_fd, pending, accepted,
                 received>>

------------------------------------------------------------------------------

ConnectionNext ==
  \/ init \/ waiting_connection \/ AcceptAborted \/ AcceptRefused
  \/ waiting_command \/ waiting_command_failed \/ cleanup
  \/ createFile_callback \/ stop_callback \/ getInfo_callback
  \/ ClientCloses

ConnectionSpec == ConnectionInit /\ [][ConnectionNext]_connectionVars

(* main() and the callbacks' threads keep running; that a client connects, *)
(* sends, leaves or is aborted is up to it.                                *)
ConnectionFairSpec ==
  /\ ConnectionSpec
  /\ WF_connectionVars(init)
  /\ WF_connectionVars(AcceptRefused)
  /\ WF_connectionVars(waiting_command_failed)
  /\ WF_connectionVars(cleanup)
  /\ WF_connectionVars(createFile_callback)
  /\ WF_connectionVars(stop_callback)
  /\ WF_connectionVars(getInfo_callback)

------------------------------------------------------------------------------
(* Properties                                                              *)

ConnectionTypeOK ==
  /\ fds \in [Descriptors -> Kinds] /\ listening \in BOOLEAN
  /\ server_fd \in Descriptors \cup {Failed}
  /\ client_fd \in Descriptors \cup {Failed, Unset}
  /\ peer \in {"none", "open", "gone"}
  /\ pc \in Pcs
  /\ file_fd \in Descriptors \cup {Failed}
  /\ pending \in [Topics -> 0..MaxCommands]
  /\ accepted \in 0..MaxClients /\ received \in 0..MaxCommands

(* Whenever main() receives, or a GETINFO is on its way to m_sendto,       *)
(* _client_fd has been assigned and is -1 or names a connection: never the *)
(* uninitialised number, and never a file that got the number of a         *)
(* connection that was closed.                                             *)
ClientFdIsAConnection ==
  pc = "recv" \/ pending["GetInfo"] > 0 =>
    client_fd = Failed \/ (client_fd \in Descriptors /\ fds[client_fd] = "client")

(* A server that has lost its listening socket, from init() or from a      *)
(* failed accept(), never lives on deaf: the process ends, even if the     *)
(* number of the socket meanwhile belongs to the result file.              *)
DeafServerEnds == (pc # "init" /\ ~Listening) ~> (pc = "terminated")

==============================================================================
