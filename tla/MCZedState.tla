------------------------------ MODULE MCZedState ------------------------------
(* The atomics with a tracker that measures a few times.                   *)
EXTENDS ZedState

PositionTopic == {"ZED_Position"}
Measurements == 1..MaxMeasured

==============================================================================
