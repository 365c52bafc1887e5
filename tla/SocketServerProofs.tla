-------------------------- MODULE SocketServerProofs --------------------------
(***************************************************************************)
(* pt and message, for every set of commands, every kind of client and any *)
(* number of commands, clients and samples.                                *)
(*                                                                         *)
(* PtIsLive is about three threads that load, store and delete what pt     *)
(* points to. It is inductive together with the steps they can be in at    *)
(* the same time: a thread about to delete the latest tracker has cleared  *)
(* pt (Deleting); one that joins it is alone, and the tracker is stopping  *)
(* (Joining); CREATE, between constructing a tracker and storing it, has   *)
(* the only one alive, which no other thread has seen (Creating).          *)
(***************************************************************************)
EXTENDS SocketServer, TLAPS

Resetters == {"main", "StopTest"}

ResetSteps == {"load", "store", "delete", "join", "zeroStatus", "zeroPosition"}

ResetTypes ==
  /\ pc \in [Threads -> Steps]
  /\ pc["CreateFile"] \in {"idle", "construct", "load", "store"}
  /\ pc["Probe"] \in {"idle", "position"}
  /\ old \in [Threads -> Nat]
  /\ \A th \in Threads : old[th] <= generation
  /\ generation \in Nat /\ pt \in Nat
  /\ keepRunning \in BOOLEAN

Deleting ==
  \A th \in Resetters :
    pc[th] = "delete" /\ old[th] = generation =>
      pt = 0 /\ pc["CreateFile"] \notin {"load", "store"}

Joining ==
  \A th \in Resetters :
    pc[th] = "join" =>
      /\ ~keepRunning /\ trackerPc # "none"
      /\ \A other \in Resetters : pc[other] = "join" => other = th

Creating ==
  pc["CreateFile"] \in {"load", "store"} =>
    /\ pt = 0 /\ generation > 0
    /\ trackerPc # "none" /\ keepRunning
    /\ \A th \in Resetters : old[th] # generation

Running == old["CreateFile"] = 0 /\ Deleting /\ Joining /\ Creating

(* After a fault the process is gone: no thread takes another step.        *)
ResetInv == ResetTypes /\ PtIsLive /\ (fault = "none" => Running)

------------------------------------------------------------------------------

LEMMA ResetInit == Init => ResetInv
<1> SUFFICES ASSUME Init PROVE ResetInv
  OBVIOUS
<1>1. ResetTypes
  <2>1. pc \in [Threads -> Steps] /\ pc["CreateFile"] = "idle" /\ pc["Probe"] = "idle"
    BY DEF Init, Threads, Steps
  <2>2. old \in [Threads -> Nat] /\ \A th \in Threads : old[th] = 0
    BY DEF Init
  <2>3. keepRunning \in BOOLEAN /\ generation = 0 /\ pt = 0
    BY DEF Init, TrackerInit
  <2> QED
    BY <2>1, <2>2, <2>3 DEF ResetTypes
<1>2. PtIsLive
  BY DEF Init, PtIsLive
<1>3. Running
  BY DEF Init, TrackerInit, Running, Deleting, Joining, Creating, Resetters, Threads
<1> QED
  BY <1>1, <1>2, <1>3 DEF ResetInv

(* A step that moves no thread into or out of a reset, and neither starts, *)
(* stops nor frees the tracker.                                            *)
LEMMA ElsewhereStep ==
  ASSUME ResetInv, fault = "none",
         UNCHANGED <<old, pt, generation, keepRunning>>,
         (trackerPc' = "none") <=> (trackerPc = "none"),
         pc' \in [Threads -> Steps],
         pc'["CreateFile"] \in {"idle", "construct"} \/ pc'["CreateFile"] = pc["CreateFile"],
         pc'["Probe"] \in {"idle", "position"},
         \A th \in Resetters : pc'[th] \notin {"delete", "join"} \/ pc'[th] = pc[th]
  PROVE  ResetInv'
<1>1. ResetTypes'
  BY DEF ResetInv, ResetTypes
<1>2. PtIsLive'
  BY DEF ResetInv, PtIsLive
<1>3. Running'
  BY DEF ResetInv, Running, Deleting, Joining, Creating
<1> QED
  BY <1>1, <1>2, <1>3 DEF ResetInv

(* What waiting_connection() can do.                                       *)
AcceptStep == waiting_connection \/ waiting_connection_failed \/ waiting_connection_again

LEMMA MainElsewhere ==
  ASSUME ResetInv, fault = "none",
         AcceptStep \/ waiting_command \/ waiting_command_failed \/ execute_command
  PROVE  ResetInv'
<1> USE DEF Go, ResetInv, ResetTypes, Threads, Steps, Resetters, ptVars, trackerVars
<1>1. CASE AcceptStep
  BY <1>1, ElsewhereStep DEF AcceptStep, waiting_connection, waiting_connection_failed,
     waiting_connection_again
<1>2. CASE waiting_command
  BY <1>2, ElsewhereStep DEF waiting_command
<1>3. CASE waiting_command_failed
  BY <1>3, ElsewhereStep DEF waiting_command_failed
<1>4. CASE execute_command
  BY <1>4, ElsewhereStep DEF execute_command
<1> QED
  BY <1>1, <1>2, <1>3, <1>4

LEMMA CallbackElsewhere ==
  ASSUME ResetInv, fault = "none",
         createFile_callback \/ createFile_throws \/ stop_callback \/ ProbeStep
           \/ getInfo_callback \/ zedStatus_callback \/ zedPosition_callback
  PROVE  ResetInv'
<1> USE DEF Go, ResetInv, ResetTypes, Threads, Steps, Resetters, ptVars, trackerVars
<1>1. CASE createFile_callback \/ createFile_throws
  BY <1>1, ElsewhereStep DEF createFile_callback, createFile_throws, busVars
<1>2. CASE stop_callback
  BY <1>2, ElsewhereStep DEF stop_callback
<1>3. CASE ProbeStep
  BY <1>3, ElsewhereStep DEF ProbeStep, probe_callback, ProbePosition
<1>4. CASE getInfo_callback \/ zedStatus_callback \/ zedPosition_callback
  BY <1>4, ElsewhereStep DEF getInfo_callback, zedStatus_callback, zedPosition_callback
<1> QED
  BY <1>1, <1>2, <1>3, <1>4

LEMMA OthersElsewhere ==
  ASSUME ResetInv, fault = "none",
         \/ \E c \in Commands : Send(c)
         \/ Disconnect \/ TrackerStep \/ TransmitStep
  PROVE  ResetInv'
<1> USE DEF ResetInv, ResetTypes, ptVars, trackerVars
<1>1. CASE \E c \in Commands : Send(c)
  BY <1>1, ElsewhereStep DEF Send
<1>2. CASE Disconnect
  BY <1>2, ElsewhereStep DEF Disconnect
<1>3. CASE TrackerStep
  BY <1>3, ElsewhereStep DEF TrackerStep, serverVars, TrackerNext, TestTracking,
       PublishPosition, PublishStatus, PublishStop
<1>4. CASE TransmitStep
  BY <1>4, ElsewhereStep DEF TransmitStep, serverVars
<1> QED
  BY <1>1, <1>2, <1>3, <1>4

(* CREATE constructs: no tracker is alive, so pt is null and nobody joins. *)
LEMMA ConstructStep ==
  ASSUME ResetInv, fault = "none", ConstructTracker
  PROVE  ResetInv'
<1> USE DEF ConstructTracker, StartTracker, Go, Steps, ptVars, trackerVars
<1>1. CASE StartTracker /\ Go("CreateFile", "load") /\ UNCHANGED fault
  <2>1. pt = 0 /\ pt' = 0 /\ old' = old
    BY <1>1 DEF ResetInv, PtIsLive
  <2>2. ResetTypes'
    BY <1>1, <2>1 DEF ResetInv, ResetTypes, Threads
  <2>3. PtIsLive'
    BY <2>1 DEF PtIsLive
  <2>4. \A th \in Resetters : pc'[th] = pc[th] /\ old[th] # generation'
    BY <1>1 DEF ResetInv, ResetTypes, Threads, Resetters
  <2>5. Running'
    <3>1. old'["CreateFile"] = 0
      BY <2>1 DEF ResetInv, Running
    <3>2. Deleting'
      BY <2>1, <2>4 DEF Deleting
    <3>3. Joining'
      BY <1>1, <2>4 DEF ResetInv, Running, Joining
    <3>4. Creating'
      BY <1>1, <2>1, <2>4 DEF ResetInv, ResetTypes, Creating
    <3> QED
      BY <3>1, <3>2, <3>3, <3>4 DEF Running
  <2> QED
    BY <2>2, <2>3, <2>5 DEF ResetInv
<1>2. CASE Terminate("camera_busy") /\ UNCHANGED <<pc, trackerVars>>
  BY <1>2 DEF Terminate, ResetInv, ResetTypes, PtIsLive
<1> QED
  BY <1>1, <1>2

(* CREATE's own reset: pt is null, so what it loads is null and what it    *)
(* stores is the tracker it constructed.                                   *)
LEMMA CreateReset ==
  ASSUME ResetInv, fault = "none", Reset("CreateFile")
  PROVE  ResetInv'
<1> USE DEF Go, Steps, trackerVars
<1>1. CASE ResetLoad("CreateFile")
  <2>1. pt = 0 /\ old'["CreateFile"] = 0
    BY <1>1 DEF ResetLoad, ResetInv, Running, Creating, ResetTypes, Threads
  <2>2. \A th \in Resetters : pc'[th] = pc[th] /\ old'[th] = old[th]
    BY <1>1 DEF ResetLoad, ResetInv, ResetTypes, Threads, Resetters
  <2>3. ResetTypes'
    <3>1. /\ pc' = [pc EXCEPT !["CreateFile"] = "store"]
          /\ old' = [old EXCEPT !["CreateFile"] = pt]
          /\ UNCHANGED <<pt, generation, keepRunning>>
      BY <1>1 DEF ResetLoad
    <3>2. pc' \in [Threads -> Steps] /\ pc'["CreateFile"] = "store" /\ pc'["Probe"] = pc["Probe"]
      BY <3>1 DEF ResetInv, ResetTypes, Threads
    <3>3. old' \in [Threads -> Nat] /\ \A th \in Threads : old'[th] <= generation
      <4>1. /\ old \in [Threads -> Nat] /\ generation \in Nat
            /\ \A th \in Threads : old[th] <= generation
        BY DEF ResetInv, ResetTypes
      <4>2. old' = [old EXCEPT !["CreateFile"] = 0]
        BY <2>1, <3>1
      <4>3. old' \in [Threads -> Nat]
        BY <4>1, <4>2
      <4>4. ASSUME NEW th \in Threads PROVE old'[th] <= generation
        <5>1. old'[th] = IF th = "CreateFile" THEN 0 ELSE old[th]
          BY <4>1, <4>2
        <5> QED
          BY <4>1, <5>1
      <4> QED
        BY <4>3, <4>4
    <3> QED
      BY <3>1, <3>2, <3>3 DEF ResetInv, ResetTypes
  <2>4. PtIsLive'
    BY <1>1 DEF ResetLoad, ResetInv, PtIsLive
  <2>5. Running'
    BY <1>1, <2>1, <2>2 DEF ResetLoad, ResetInv, Running, Deleting, Joining, Creating
  <2> QED
    BY <2>3, <2>4, <2>5 DEF ResetInv
<1>2. CASE ResetStore("CreateFile")
  <2>1. /\ pt' = generation /\ generation > 0 /\ trackerPc # "none" /\ keepRunning
        /\ pc'["CreateFile"] = "idle"
        /\ UNCHANGED <<old, generation, trackerPc, keepRunning, fault>>
    BY <1>2 DEF ResetStore, AfterReset, ResetInv, Running, Creating, ResetTypes, Threads
  <2>2. \A th \in Resetters : pc'[th] = pc[th] /\ old[th] # generation
    BY <1>2 DEF ResetStore, ResetInv, Running, Creating, ResetTypes, Threads, Resetters
  <2>3. ResetTypes'
    BY <1>2, <2>1 DEF ResetStore, AfterReset, ResetInv, ResetTypes, Running, Threads
  <2>4. PtIsLive'
    BY <2>1 DEF PtIsLive
  <2>5. Running'
    BY <2>1, <2>2 DEF ResetInv, Running, Deleting, Joining, Creating
  <2> QED
    BY <2>3, <2>4, <2>5 DEF ResetInv
<1>3. CASE \/ DeleteTracker("CreateFile") \/ JoinAndFree("CreateFile")
           \/ zed_setZeroStatus("CreateFile") \/ zed_setZeroPosition("CreateFile")
  BY <1>3 DEF DeleteTracker, JoinAndFree, zed_setZeroStatus, zed_setZeroPosition,
              ResetInv, ResetTypes
<1> QED
  BY <1>1, <1>2, <1>3 DEF Reset

(* main's cleanup and STOP.                                                *)
LEMMA ResetStep ==
  ASSUME ResetInv, fault = "none", NEW th \in Resetters, Reset(th)
  PROVE  ResetInv'
<1> USE DEF Go, Steps, trackerVars
<1>1. th \in Threads /\ th # "CreateFile" /\ th # "Probe"
  BY DEF Resetters, Threads
<1>2. pc \in [Threads -> Steps] /\ old \in [Threads -> Nat]
  BY DEF ResetInv, ResetTypes
<1>3. Resetters \subseteq Threads /\ "CreateFile" \in Threads /\ "Probe" \in Threads
  BY DEF Resetters, Threads
<1>4. CASE ResetLoad(th)
  <2>1. ResetTypes'
    BY <1>1, <1>2, <1>3, <1>4 DEF ResetLoad, ResetInv, ResetTypes, Running, PtIsLive
  <2>2. PtIsLive'
    BY <1>4 DEF ResetLoad, ResetInv, PtIsLive
  <2>3. Running'
    BY <1>1, <1>2, <1>3, <1>4
       DEF ResetLoad, ResetInv, ResetTypes, Running, Deleting, Joining, Creating
  <2> QED
    BY <2>1, <2>2, <2>3 DEF ResetInv
<1>5. CASE ResetStore(th)
  <2>1. /\ pt' = 0 /\ pc'[th] \in {"delete", "zeroStatus"}
        /\ \A other \in Threads : other # th => pc'[other] = pc[other]
        /\ UNCHANGED <<old, generation, trackerPc, keepRunning, fault>>
    BY <1>1, <1>2, <1>5 DEF ResetStore, AfterReset
  <2>2. ResetTypes'
    BY <1>1, <1>2, <1>3, <1>5, <2>1 DEF ResetStore, AfterReset, ResetInv, ResetTypes
  <2>3. PtIsLive'
    BY <2>1 DEF PtIsLive
  <2>4. Running'
    BY <1>1, <1>3, <2>1 DEF ResetInv, Running, Deleting, Joining, Creating
  <2> QED
    BY <2>2, <2>3, <2>4 DEF ResetInv
<1>6. CASE DeleteTracker(th)
  <2>1. /\ pc' = [pc EXCEPT ![th] = "join"]
        /\ UNCHANGED <<old, pt, generation, trackerPc>>
    BY <1>6 DEF DeleteTracker, StopTracking, ptVars
  <2>2. ResetTypes'
    BY <1>1, <1>2, <1>3, <1>6, <2>1
       DEF DeleteTracker, StopTracking, ResetInv, ResetTypes
  <2>3. CASE old[th] = generation /\ trackerPc # "none" /\ keepRunning
    <3>1. pt = 0 /\ pc["CreateFile"] \notin {"load", "store"}
      BY <1>6, <2>3 DEF DeleteTracker, ResetInv, Running, Deleting
    <3>2. ~keepRunning' /\ fault' = fault
      BY <1>6, <2>3 DEF DeleteTracker, StopTracking
    <3>3. \A other \in Resetters : other # th => pc'[other] = pc[other] /\ pc[other] # "join"
      BY <1>1, <1>2, <1>3, <2>1, <2>3 DEF ResetInv, Running, Joining
    <3>4. pc'["CreateFile"] = pc["CreateFile"]
      BY <1>1, <1>2, <1>3, <2>1
    <3>5. pc'[th] = "join"
      BY <1>1, <1>2, <2>1
    <3>6. PtIsLive'
      BY <2>1, <3>1 DEF PtIsLive
    <3>7. Running'
      <4>1. Deleting'
        BY <2>1, <3>1, <3>3, <3>4, <3>5 DEF Deleting
      <4>2. Joining'
        BY <2>1, <2>3, <3>2, <3>3, <3>5 DEF Joining
      <4>3. Creating'
        BY <3>1, <3>4 DEF Creating
      <4> QED
        BY <2>1, <4>1, <4>2, <4>3 DEF ResetInv, Running
    <3> QED
      BY <2>2, <3>6, <3>7 DEF ResetInv
  <2>4. CASE ~(old[th] = generation /\ trackerPc # "none" /\ keepRunning)
    BY <1>6, <2>1, <2>2, <2>4 DEF DeleteTracker, Terminate, ResetInv, PtIsLive
  <2> QED
    BY <2>3, <2>4
<1>7. CASE JoinAndFree(th)
  <2>1. ~keepRunning /\ pt = 0 /\ pc["CreateFile"] \notin {"load", "store"}
        /\ \A other \in Resetters : pc[other] = "join" => other = th
    BY <1>7 DEF JoinAndFree, ResetInv, PtIsLive, Running, Joining, Creating
  <2>2. /\ pc' = [pc EXCEPT ![th] = "zeroStatus"]
        /\ old' = [old EXCEPT ![th] = 0]
        /\ UNCHANGED <<pt, generation, keepRunning, fault>>
    BY <1>1, <1>7 DEF JoinAndFree, JoinTracker, AfterReset
  <2>3. ResetTypes'
    BY <1>1, <1>2, <1>3, <2>2 DEF ResetInv, ResetTypes
  <2>4. PtIsLive'
    BY <2>1, <2>2 DEF PtIsLive
  <2>5. Running'
    BY <1>1, <1>2, <1>3, <2>1, <2>2 DEF ResetInv, Running, Deleting, Joining, Creating
  <2> QED
    BY <2>3, <2>4, <2>5 DEF ResetInv
<1>8. CASE zed_setZeroStatus(th) \/ zed_setZeroPosition(th)
  BY <1>1, <1>2, <1>3, <1>8, ElsewhereStep
     DEF zed_setZeroStatus, zed_setZeroPosition, ptVars, ResetInv, ResetTypes
<1> QED
  BY <1>4, <1>5, <1>6, <1>7, <1>8 DEF Reset

------------------------------------------------------------------------------

LEMMA ResetInvHolds == Spec => []ResetInv
<1>1. ResetInv /\ [Next]_vars => ResetInv'
  <2> SUFFICES ASSUME ResetInv, [Next]_vars PROVE ResetInv'
    OBVIOUS
  <2>1. CASE Next
    BY <2>1, MainElsewhere, CallbackElsewhere, OthersElsewhere, ConstructStep, CreateReset,
       ResetStep
       DEF Next, MainStep, MainWorks, AcceptStep, CreateStep, StopStep, Resetters
  <2>2. CASE UNCHANGED vars
    BY <2>2 DEF vars, ptVars, trackerVars, ResetInv, ResetTypes, PtIsLive, Running,
                Deleting, Joining, Creating
  <2> QED
    BY <2>1, <2>2
<1> QED
  BY <1>1, ResetInit, PTL DEF Spec

(* pt.reset() by main's cleanup, pt.reset() by STOP and pt = make_unique() *)
(* by CREATE may interleave in any way: pt never points to a tracker that  *)
(* is being destroyed or is gone.                                          *)
THEOREM PtStaysLive == Spec => []PtIsLive
<1>1. ResetInv => PtIsLive
  BY DEF ResetInv
<1> QED
  BY <1>1, ResetInvHolds, PTL

------------------------------------------------------------------------------

MessageInv == pc["main"] # "execute" => message = <<>>

LEMMA MessageInvHolds == Spec => []MessageInv
<1>1. Init => MessageInv
  BY DEF Init, MessageInv
<1>2. ResetTypes /\ MessageInv /\ [Next]_vars => MessageInv'
  <2> SUFFICES ASSUME ResetTypes, MessageInv, [Next]_vars PROVE MessageInv'
    OBVIOUS
  <2> USE DEF Go, Threads, Steps, ResetTypes, MessageInv
  <2>1. CASE AcceptStep \/ waiting_command \/ waiting_command_failed \/ execute_command
    BY <2>1 DEF AcceptStep, waiting_connection, waiting_connection_failed,
       waiting_connection_again, waiting_command, waiting_command_failed, execute_command
  <2>2. ASSUME NEW th \in {"main", "CreateFile", "StopTest"}, Reset(th) PROVE MessageInv'
    BY <2>2 DEF Reset, ResetLoad, ResetStore, AfterReset, DeleteTracker, JoinAndFree,
                zed_setZeroStatus, zed_setZeroPosition
  <2>3. CASE \/ createFile_callback \/ createFile_throws \/ ConstructTracker
             \/ stop_callback \/ ProbeStep
    BY <2>3 DEF createFile_callback, createFile_throws, ConstructTracker, stop_callback,
                ProbeStep, probe_callback, ProbePosition
  <2>4. CASE getInfo_callback \/ zedStatus_callback \/ zedPosition_callback
    BY <2>4 DEF getInfo_callback, zedStatus_callback, zedPosition_callback
  <2>5. CASE (\E c \in Commands : Send(c)) \/ Disconnect \/ TrackerStep \/ TransmitStep
    BY <2>5 DEF Send, Disconnect, TrackerStep, TransmitStep, serverVars
  <2>6. CASE UNCHANGED vars
    BY <2>6 DEF vars
  <2> QED
    BY <2>1, <2>2, <2>3, <2>4, <2>5, <2>6 DEF Next, MainStep, MainWorks, AcceptStep,
       CreateStep, StopStep
<1>3. ResetInv => ResetTypes
  BY DEF ResetInv
<1> QED
  BY <1>1, <1>2, <1>3, ResetInvHolds, PTL DEF Spec

(* A message is cleared whether its command was executed or rejected, so   *)
(* what m_recvfrom appends to is always empty.                             *)
THEOREM CommandsStandAlone == Spec => []CommandStandsAlone
<1>1. MessageInv => CommandStandsAlone
  BY DEF MessageInv, CommandStandsAlone
<1> QED
  BY <1>1, MessageInvHolds, PTL

==============================================================================
