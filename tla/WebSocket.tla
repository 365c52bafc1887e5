------------------------------- MODULE WebSocket -------------------------------
(***************************************************************************)
(* myWebSocket::WebSocket and its SystemSocket: the calls, by what they do *)
(* to the process's descriptors. A call names a descriptor by its number;  *)
(* open() and accept() return the lowest number that is free, so a number  *)
(* that was closed comes back as something else. What a call returns is    *)
(* the kernel's choice among what the state allows.                        *)
(***************************************************************************)
EXTENDS Integers

CONSTANT MaxFd   \* bound: descriptors the process can have open (RLIMIT_NOFILE)

ASSUME WebSocketAssumption == MaxFd \in Nat \ {0}

VARIABLES
  fds,        \* what each descriptor is
  listening,  \* the server's socket is bound and listens
  server_fd,  \* _server_fd
  client_fd,  \* _client_fd
  peer        \* the other end of the latest connection: "none", "open" or "gone"

socketVars == <<fds, listening, server_fd, client_fd, peer>>

Descriptors == 0..(MaxFd - 1)
Kinds == {"free", "server", "client", "file"}
Failed == -1
Unset == -2    \* _client_fd before the first accept: never initialised

FreeFds == {d \in Descriptors : fds[d] = "free"}
LowestFree == CHOOSE d \in FreeFds : \A e \in FreeFds : d <= e
OpenAs(kind) == FreeFds # {} /\ fds' = [fds EXCEPT ![LowestFree] = kind]

(* close(d): whatever d is now; closing what is closed is an error.        *)
IsOpen(d) == d \in Descriptors /\ fds[d] # "free"
Closed(d) == IF IsOpen(d) THEN [fds EXCEPT ![d] = "free"] ELSE fds

Listening == listening /\ IsOpen(server_fd) /\ fds[server_fd] = "server"

(* The constructor: socket(), whose failure it does not look at.           *)
SocketInit ==
  /\ server_fd \in {0, Failed}
  /\ fds = [d \in Descriptors |-> IF d = server_fd THEN "server" ELSE "free"]
  /\ listening = FALSE
  /\ client_fd = Unset
  /\ peer = "none"

(* m_init(): bind() and listen().                                          *)
m_init ==
  /\ IsOpen(server_fd)
  /\ listening' = TRUE
  /\ UNCHANGED <<fds, server_fd, client_fd, peer>>

(* m_accept() that returns: a client has connected.                        *)
m_accept ==
  /\ Listening
  /\ OpenAs("client")
  /\ client_fd' = LowestFree
  /\ peer' = "open"
  /\ UNCHANGED <<listening, server_fd>>

(* m_recvfrom() and m_sendto() use the number _client_fd; it is an error   *)
(* when it names nothing open.                                             *)
Reachable == IsOpen(client_fd) /\ peer = "open"

(* Both close...() throw when close() fails.                               *)
m_closeServer ==
  /\ IsOpen(server_fd)
  /\ fds' = Closed(server_fd)
  /\ UNCHANGED <<listening, server_fd, peer>>
m_closeServer_throws == ~IsOpen(server_fd) /\ UNCHANGED <<fds, listening, server_fd, peer>>

==============================================================================
