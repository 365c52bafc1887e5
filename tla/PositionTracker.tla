---------------------------- MODULE PositionTracker ----------------------------
(***************************************************************************)
(* positiontracker::PositionTracker over zedpositioner::ZedPositioner: a   *)
(* thread that measures and publishes until the destructor clears          *)
(* keepRunning and joins it. The camera can be opened once, so at most one *)
(* tracker exists; generation counts them. A position is abstracted to the *)
(* tracker that measured it.                                               *)
(***************************************************************************)
EXTENDS Bus, Integers

CONSTANTS
  Tracking,      \* POSITIONAL_TRACKING_STATE after a grab: OK, Searching, Other
  CameraMayFail, \* whether zed.open() and zed.grab() can fail
  MaxSamples     \* bound: turns of one tracker's loop

VARIABLES
  generation,    \* trackers constructed so far; the latest one's number
  trackerPc,     \* where its thread is; "none" when there is no tracker
  keepRunning,   \* std::atomic<bool>
  position,      \* the tracker's position member
  cameraStatus,  \* ZedPositioner::status
  samples        \* turns of the loop so far

trackerVars == <<generation, trackerPc, keepRunning, position, cameraStatus, samples>>

Zero == 0           \* zed_x = zed_y = zed_z = 0
Unmeasured == -1    \* the member before the first successful grab: never initialised

TrackerPcs == {"none", "loop", "grab", "status", "final", "exited"}
Statuses == {"OK", "Searching", "Save", "Stop"}

Payload(by, n, arg) == [by |-> by, n |-> n, arg |-> arg]

TrackerInit ==
  /\ generation = 0
  /\ trackerPc = "none"
  /\ keepRunning = FALSE
  /\ position = Unmeasured
  /\ cameraStatus = "Stop"
  /\ samples = 0

(* ZedPositioner() opened the camera, PositionTracker() starts the thread. *)
StartTracker ==
  /\ trackerPc = "none"
  /\ generation' = generation + 1
  /\ trackerPc' = "loop"
  /\ keepRunning' = TRUE
  /\ position' = Unmeasured
  /\ cameraStatus' = "Stop"
  /\ samples' = 0

(* Bug: the loop does not look at keepRunning.                             *)
TestForever ==
  /\ trackerPc = "loop"
  /\ samples < MaxSamples
  /\ trackerPc' = "grab"
  /\ UNCHANGED <<generation, keepRunning, position, cameraStatus, samples, busVars>>

(* getData(): while (keepRunning)                                          *)
TestTracking ==
  /\ trackerPc = "loop"
  /\ keepRunning => samples < MaxSamples
  /\ trackerPc' = IF keepRunning THEN "grab" ELSE "final"
  /\ UNCHANGED <<generation, keepRunning, position, cameraStatus, samples, busVars>>

(* getPosition(), then publish("ZED_Position"): also when grab() failed. A *)
(* tracking state other than the two leaves the status as it was.          *)
PublishPosition ==
  /\ trackerPc = "grab"
  /\ \/ /\ position' = generation
        /\ \E s \in Tracking : cameraStatus' = IF s = "Other" THEN cameraStatus ELSE s
     \/ CameraMayFail /\ UNCHANGED <<position, cameraStatus>>
  /\ Publish("ZED_Position", Payload(generation, position', "-"))
  /\ trackerPc' = "status"
  /\ samples' = samples + 1
  /\ UNCHANGED <<generation, keepRunning>>

(* getStatus(), then publish("ZED_Status")                                 *)
PublishStatus ==
  /\ trackerPc = "status"
  /\ Publish("ZED_Status", Payload(generation, 0, cameraStatus))
  /\ trackerPc' = "loop"
  /\ UNCHANGED <<generation, keepRunning, position, cameraStatus, samples>>

(* Bug: the thread ends without a word.                                    *)
LeaveSilently ==
  /\ trackerPc = "final"
  /\ trackerPc' = "exited"
  /\ UNCHANGED <<generation, keepRunning, position, cameraStatus, samples, busVars>>

(* After the loop: status = Stop, published.                               *)
PublishStop ==
  /\ trackerPc = "final"
  /\ Publish("ZED_Status", Payload(generation, 0, "Stop"))
  /\ trackerPc' = "exited"
  /\ UNCHANGED <<generation, keepRunning, position, cameraStatus, samples>>

TrackerNext == TestTracking \/ PublishPosition \/ PublishStatus \/ PublishStop

(* ~PositionTracker(): keepRunning = false ...                             *)
StopTracking ==
  /\ keepRunning' = FALSE
  /\ UNCHANGED <<generation, trackerPc, position, cameraStatus, samples>>

(* ... then join(); the members go, and with them the camera.              *)
JoinTracker ==
  /\ trackerPc = "exited"
  /\ trackerPc' = "none"
  /\ UNCHANGED <<generation, keepRunning, position, cameraStatus, samples>>

==============================================================================
