-------------------------------- MODULE ZedState --------------------------------
(***************************************************************************)
(* zed_x, zed_y and zed_z of SocketServer: three atomics, stored and       *)
(* loaded one by one. The ZED_Position callback stores a measurement's     *)
(* three coordinates; zed_setZero(), called by the StopTest callback and   *)
(* by main's cleanup, possibly at once, stores three zeros; the Probe and  *)
(* GetInfo callbacks load the three. SocketServer.tla treats the position  *)
(* as one value; this module is about what that leaves out. A measurement  *)
(* is its number; Bus.tla carries them.                                    *)
(***************************************************************************)
EXTENDS Bus, Integers

CONSTANT MaxMeasured   \* bound: measurements published

ASSUME ZedStateAssumption ==
  /\ MaxMeasured \in Nat /\ Data = 1..MaxMeasured
  /\ Topics = {"ZED_Position"}

Coordinates == 1..3    \* X, Y, Z, in the order in which each function goes through them
Resetters == {"main", "StopTest"}
Readers == {"Probe", "GetInfo"}

VARIABLES
  measured,   \* measurements published so far
  zed,        \* the three atomics: the number of the measurement stored, or 0
  stored,     \* coordinates that each writer has stored of its current three
  held,       \* the measurement that the ZED_Position callback is storing
  loaded      \* what each reader has loaded of its current row or reply

zedStateVars == <<busVars, measured, zed, stored, held, loaded>>

Writers == Resetters \cup {"ZED_Position"}

ZedStateInit ==
  /\ BusInit
  /\ measured = 0
  /\ zed = [c \in Coordinates |-> 0]
  /\ stored = [w \in Writers |-> 0]
  /\ held = 0
  /\ loaded = [r \in Readers |-> <<>>]

(* The tracker publishes its next measurement.                             *)
Measure ==
  /\ measured < MaxMeasured
  /\ measured' = measured + 1
  /\ Publish("ZED_Position", measured')
  /\ UNCHANGED <<zed, stored, held, loaded>>

TransmitPosition == Transmit /\ UNCHANGED <<measured, zed, stored, held, loaded>>

(* Bug: a fourth coordinate.                                               *)
StoreOnePast(w, value) ==
  /\ zed' = [zed EXCEPT ![stored[w] + 1] = value]
  /\ stored' = [stored EXCEPT ![w] = (@ + 1) % 4]

(* The next of the three stores of w.                                      *)
Store(w, value) ==
  /\ zed' = [zed EXCEPT ![stored[w] + 1] = value]
  /\ stored' = [stored EXCEPT ![w] = (@ + 1) % 3]

(* The ZED_Position callback begins: it takes a message and stores X ...   *)
zedPosition_callback ==
  /\ stored["ZED_Position"] = 0
  /\ Take("ZED_Position")
  /\ held' = Head(inbox["ZED_Position"])
  /\ Store("ZED_Position", held')
  /\ UNCHANGED <<measured, loaded>>

(* ... then Y and Z.                                                       *)
zedPosition_continues ==
  /\ stored["ZED_Position"] # 0
  /\ Store("ZED_Position", held)
  /\ UNCHANGED <<busVars, measured, held, loaded>>

zed_setZero(w) ==
  /\ Store(w, 0)
  /\ UNCHANGED <<busVars, measured, held, loaded>>

(* Bug: the coordinates are loaded in the opposite order.                  *)
LoadBackwards(r) ==
  /\ loaded' = [loaded EXCEPT ![r] = IF Len(@) = 3 THEN <<zed[3]>>
                                     ELSE <<zed[3 - Len(@)]>> \o @]
  /\ UNCHANGED <<busVars, measured, zed, stored, held>>

(* The next load of a reader; after Z comes the X of its next message.     *)
Load(r) ==
  /\ loaded' = [loaded EXCEPT ![r] = IF Len(@) = 3 THEN <<zed[1]>>
                                     ELSE Append(@, zed[Len(@) + 1])]
  /\ UNCHANGED <<busVars, measured, zed, stored, held>>

ZedStateNext ==
  \/ Measure \/ TransmitPosition
  \/ zedPosition_callback \/ zedPosition_continues
  \/ \E w \in Resetters : zed_setZero(w)
  \/ \E r \in Readers : Load(r)

ZedStateSpec == ZedStateInit /\ [][ZedStateNext]_zedStateVars

------------------------------------------------------------------------------
(* Properties                                                              *)

(* Each coordinate is zero or a measurement that has been published.       *)
ZedTypeOK ==
  /\ measured \in 0..MaxMeasured /\ held \in 0..measured
  /\ zed \in [Coordinates -> 0..measured]
  /\ stored \in [Writers -> 0..2]
  /\ \A r \in Readers : Len(loaded[r]) \in 0..3

(* A row or reply mixes measurements in one direction only. Of two of its  *)
(* coordinates that are not zero, the one loaded first is at most one      *)
(* measurement newer than the other; the other can be newer by any number. *)
RowSkew ==
  \A r \in Readers : Len(loaded[r]) = 3 =>
    \A i, j \in Coordinates :
      i < j /\ loaded[r][i] # 0 /\ loaded[r][j] # 0 => loaded[r][i] <= loaded[r][j] + 1

(* At rest, each coordinate is zero or of the latest measurement: resets   *)
(* that race with the callback never bring an older coordinate back.       *)
LastOrZero ==
  outbox = <<>> /\ inbox["ZED_Position"] = <<>> /\ (\A w \in Writers : stored[w] = 0)
    => \A c \in Coordinates : zed[c] \in {0, measured}

==============================================================================
