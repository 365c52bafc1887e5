---------------------------- MODULE ConnectionProofs ----------------------------
(***************************************************************************)
(* For every number of descriptors, connections and commands: _client_fd   *)
(* never names anything but a connection when it is used, although the     *)
(* numbers of closed descriptors come back.                                *)
(***************************************************************************)
EXTENDS Connection, TLAPS, WellFoundedInduction

(* What each stored number names. A connection is never closed. The number *)
(* of result_file is closed behind its back only if it is the server's old *)
(* one, and accept() then cannot get it: it fails.                         *)
WhatFdsName ==
  /\ server_fd \in {0, Failed} /\ fds[0] # "client"
  /\ client_fd \in Descriptors => fds[client_fd] = "client"
  /\ file_fd # Failed =>
       \/ fds[file_fd] = "file"
       \/ file_fd = 0 /\ fds[file_fd] = "free"

(* The process ends in init() if it has no socket.                         *)
NoSocketEnds == server_fd = Failed => pc \in {"init", "terminated"}

(* Nothing is received, hence nothing executed, before the first accept(). *)
NothingBeforeAccept ==
  /\ client_fd = Unset => received = 0 /\ pc \in {"init", "accept", "terminated"}
  /\ \A t \in Topics : pending[t] <= received

ConnectionInv == ConnectionTypeOK /\ WhatFdsName /\ NoSocketEnds /\ NothingBeforeAccept

------------------------------------------------------------------------------

(* open() and accept() have a number to return when one is free.           *)
LEMMA LowestFreeIsFree == FreeFds # {} => LowestFree \in FreeFds
<1> SUFFICES ASSUME FreeFds # {} PROVE LowestFree \in FreeFds
  OBVIOUS
<1>1. FreeFds \subseteq Nat
  BY WebSocketAssumption DEF FreeFds, Descriptors
<1>2. PICK d \in FreeFds : \A e \in FreeFds : <<e, d>> \notin OpToRel(<, Nat)
  BY <1>1, NatLessThanWellFounded, WFMin, Zenon
<1>3. ASSUME NEW e \in FreeFds PROVE d <= e
  <2>1. e \in Nat /\ d \in Nat
    BY <1>1, <1>2
  <2>2. ~ (e < d)
    BY <1>2, <2>1 DEF OpToRel
  <2> QED
    BY <2>1, <2>2
<1>4. \E x : x \in FreeFds /\ \A e \in FreeFds : x <= e
  BY <1>2, <1>3, Zenon
<1>5. LowestFree = CHOOSE x : x \in FreeFds /\ \A e \in FreeFds : x <= e
  BY Zenon DEF LowestFree
<1> QED
  BY <1>4, <1>5, Zenon

LEMMA ConnectionInvInit == ConnectionInit => ConnectionInv
<1> SUFFICES ASSUME ConnectionInit PROVE ConnectionInv
  OBVIOUS
<1>1. 0 \in Descriptors /\ Failed \notin Descriptors /\ Unset \notin Descriptors
  BY WebSocketAssumption DEF Descriptors, Failed, Unset
<1>2. ConnectionTypeOK
  <2>1. fds \in [Descriptors -> Kinds] /\ server_fd \in Descriptors \cup {Failed}
    BY <1>1 DEF ConnectionInit, SocketInit, Kinds
  <2>2. pending \in [Topics -> 0..MaxCommands]
    BY ConnectionAssumption DEF ConnectionInit
  <2>3. accepted \in 0..MaxClients /\ received \in 0..MaxCommands
    BY ConnectionAssumption DEF ConnectionInit
  <2> QED
    BY <2>1, <2>2, <2>3 DEF ConnectionInit, SocketInit, ConnectionTypeOK, Pcs
<1>3. WhatFdsName
  BY <1>1 DEF ConnectionInit, SocketInit, WhatFdsName
<1>4. NoSocketEnds /\ NothingBeforeAccept
  BY DEF ConnectionInit, NoSocketEnds, NothingBeforeAccept
<1> QED
  BY <1>2, <1>3, <1>4 DEF ConnectionInv

LEMMA ConnectionInvStep == ConnectionInv /\ [ConnectionNext]_connectionVars => ConnectionInv'
<1> SUFFICES ASSUME ConnectionInv, [ConnectionNext]_connectionVars PROVE ConnectionInv'
  OBVIOUS
<1> USE WebSocketAssumption, ConnectionAssumption
    DEF ConnectionInv, ConnectionTypeOK, WhatFdsName, NoSocketEnds, NothingBeforeAccept, Goes
<1>1. CASE init
  <2>1. 0 \in Descriptors /\ Failed \notin Descriptors
    BY DEF Descriptors, Failed
  <2>2. UNCHANGED <<server_fd, client_fd, peer, file_fd, pending, accepted, received>>
    BY <1>1 DEF init, m_init, m_closeServer, m_closeServer_throws
  <2>3. CASE m_init /\ Goes("init", "accept")
    BY <1>1, <2>1, <2>2, <2>3 DEF m_init, IsOpen, Pcs
  <2>4. CASE m_closeServer /\ Goes("init", "accept")
    BY <1>1, <2>1, <2>2, <2>4 DEF m_closeServer, IsOpen, Closed, Kinds, Pcs
  <2>5. CASE m_closeServer_throws /\ Goes("init", "terminated")
    BY <1>1, <2>1, <2>2, <2>5 DEF m_closeServer_throws, Pcs
  <2> QED
    BY <1>1, <2>3, <2>4, <2>5 DEF init
<1>2. CASE waiting_connection
  <2>1. LowestFree \in Descriptors /\ fds[LowestFree] = "free"
    BY <1>2, LowestFreeIsFree DEF waiting_connection, m_accept, OpenAs, FreeFds
  <2> QED
    BY <1>2, <2>1 DEF waiting_connection, m_accept, OpenAs, Listening, IsOpen, Kinds, Pcs, Failed,
       Unset, Descriptors
<1>3. CASE AcceptAborted \/ AcceptRefused
  BY <1>3 DEF AcceptAborted, AcceptRefused, waiting_connection_failed, m_closeServer,
     m_closeServer_throws, IsOpen, Closed, Kinds, Pcs, Failed, Unset, Descriptors
<1>4. CASE waiting_command
  <2>1. PICK t \in Topics : pending' = [pending EXCEPT ![t] = @ + 1]
    BY <1>4 DEF waiting_command
  <2>2. client_fd # Unset /\ received' = received + 1 /\ received' \in 0..MaxCommands
    BY <1>4 DEF waiting_command, IsOpen, Descriptors, Unset
  <2>3. ASSUME NEW u \in Topics PROVE pending'[u] \in Nat /\ pending'[u] <= received'
    BY <2>1, <2>2
  <2>4. pending' \in [Topics -> 0..MaxCommands]
    <3>1. ASSUME NEW u \in Topics PROVE pending'[u] \in 0..MaxCommands
      BY <2>2, <2>3
    <3> QED
      BY <2>1, <3>1
  <2> QED
    BY <1>4, <2>2, <2>3, <2>4 DEF waiting_command, socketVars
<1>5. CASE waiting_command_failed
  BY <1>5 DEF waiting_command_failed, socketVars, Pcs
<1>6. CASE cleanup
  BY <1>6 DEF cleanup, IsOpen, Closed, Kinds, Pcs, Failed, Unset, Descriptors
<1>7. CASE createFile_callback
  <2>1. FreeFds # {} => LowestFree \in Descriptors /\ fds[LowestFree] = "free"
    BY LowestFreeIsFree DEF FreeFds
  <2>2. /\ pending' \in [Topics -> 0..MaxCommands]
        /\ \A t \in Topics : pending'[t] <= received'
        /\ UNCHANGED <<accepted, received>>
    BY <1>7 DEF createFile_callback, Executes, Topics
  <2>3. UNCHANGED <<listening, server_fd, client_fd, peer>>
    BY <1>7 DEF createFile_callback
  <2>4. CASE OpenAs("file") /\ file_fd' = LowestFree /\ UNCHANGED pc
    BY <2>1, <2>2, <2>3, <2>4 DEF OpenAs, Kinds, Failed, Descriptors
  <2>5. CASE pc' = "terminated" /\ UNCHANGED <<fds, file_fd>>
    BY <2>2, <2>3, <2>5 DEF Pcs
  <2> QED
    BY <1>7, <2>4, <2>5, Zenon DEF createFile_callback
<1>8. CASE stop_callback
  BY <1>8 DEF stop_callback, Executes, IsOpen, Closed, Topics, Kinds, Failed, Descriptors
<1>9. CASE getInfo_callback
  BY <1>9 DEF getInfo_callback, Executes, socketVars, Topics, Pcs
<1>10. CASE ClientCloses \/ UNCHANGED connectionVars
  BY <1>10 DEF ClientCloses, connectionVars, socketVars
<1> QED
  BY <1>1, <1>2, <1>3, <1>4, <1>5, <1>6, <1>7, <1>8, <1>9, <1>10 DEF ConnectionNext

(* The descriptors and the program's numbers for them stay within their    *)
(* types, whatever fails.                                                  *)
THEOREM ConnectionTypes == ConnectionSpec => []ConnectionTypeOK
<1>1. ConnectionInv => ConnectionTypeOK
  BY DEF ConnectionInv
<1> QED
  BY <1>1, ConnectionInvInit, ConnectionInvStep, PTL DEF ConnectionSpec

(* m_recvfrom and m_sendto never use the uninitialised _client_fd, nor one *)
(* whose number has become a file's.                                       *)
THEOREM ClientFdNamesAConnection == ConnectionSpec => []ClientFdIsAConnection
<1>1. ConnectionInv => ClientFdIsAConnection
  BY DEF ConnectionInv, ConnectionTypeOK, WhatFdsName, NothingBeforeAccept,
         ClientFdIsAConnection, Topics
<1> QED
  BY <1>1, ConnectionInvInit, ConnectionInvStep, PTL DEF ConnectionSpec

==============================================================================
