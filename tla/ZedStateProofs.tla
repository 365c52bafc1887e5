----------------------------- MODULE ZedStateProofs -----------------------------
(***************************************************************************)
(* The three atomics, for every number of measurements. What a row can mix *)
(* rests on the order of the stores, of the loads and of the messages: the *)
(* measurements on their way are, one after the other, those that follow   *)
(* the one being stored (InSequence), so a coordinate that is not zero     *)
(* belongs to the latest measurement taken or, if the callback has not     *)
(* reached it yet, to the one before (Current).                            *)
(*                                                                         *)
(* A PUB socket that drops a measurement breaks the sequence. The types    *)
(* hold anyway; RowSkew and LastOrZero under the hypothesis that the pipe  *)
(* of ZED_Position is never full.                                          *)
(***************************************************************************)
EXTENDS ZedState, SequenceTheorems, TLAPS

NeverFull == Len(inbox["ZED_Position"]) < HighWater

(* Nothing comes out of the bus that was not measured.                     *)
ZedTypes ==
  /\ BusTypeOK /\ ZedTypeOK
  /\ loaded \in [Readers -> Seq(Nat)]
  /\ \A i \in 1..Len(outbox) : outbox[i].data <= measured
  /\ \A i \in 1..Len(inbox["ZED_Position"]) : inbox["ZED_Position"][i] <= measured

InSequence ==
  LET n == Len(inbox["ZED_Position"]) IN
    /\ \A i \in 1..n : inbox["ZED_Position"][i] = held + i
    /\ \A i \in 1..Len(outbox) : outbox[i].data = held + n + i
    /\ measured = held + n + Len(outbox)

(* The measurement whose coordinate c the callback stored last.            *)
Latest(c) ==
  IF stored["ZED_Position"] = 0 \/ c <= stored["ZED_Position"] THEN held ELSE held - 1

Current == \A c \in Coordinates : zed[c] \in {0, Latest(c)}

(* What a reader has loaded so far can be followed by any coordinate that  *)
(* is Current.                                                             *)
Skewed ==
  \A r \in Readers : \A i \in 1..Len(loaded[r]) :
    /\ loaded[r][i] <= held
    /\ \A j \in 1..Len(loaded[r]) :
         i < j /\ loaded[r][i] # 0 /\ loaded[r][j] # 0 => loaded[r][i] <= loaded[r][j] + 1

ZedInv == ZedTypes /\ InSequence /\ Current /\ Skewed

------------------------------------------------------------------------------
(* Init and the bus                                                        *)

LEMMA ZedInvInit == ZedStateInit => ZedInv
<1> SUFFICES ASSUME ZedStateInit PROVE ZedInv
  OBVIOUS
<1>1. /\ outbox = <<>> /\ inbox = [t \in Topics |-> <<>>] /\ measured = 0 /\ held = 0
      /\ zed = [c \in Coordinates |-> 0] /\ stored = [w \in Writers |-> 0]
      /\ loaded = [r \in Readers |-> <<>>]
  BY DEF ZedStateInit, BusInit
<1>2. inbox["ZED_Position"] = <<>>
  BY <1>1, ZedStateAssumption
<1>3. ZedTypes
  BY <1>1, <1>2, ZedStateAssumption DEF ZedTypes, BusTypeOK, ZedTypeOK
<1>4. InSequence
  BY <1>1, <1>2 DEF InSequence
<1>5. Current /\ Skewed
  BY <1>1 DEF Current, Skewed, Latest
<1> QED
  BY <1>3, <1>4, <1>5 DEF ZedInv

(* publish() puts the next measurement at the end of the outbox.           *)
LEMMA MeasureKeeps ==
  ASSUME ZedTypes, Measure
  PROVE  ZedTypes' /\ (InSequence => InSequence')
<1> DEFINE m == [topic |-> "ZED_Position", data |-> measured + 1]
<1>1. /\ measured \in Nat /\ measured < MaxMeasured /\ measured' = measured + 1
      /\ outbox' = Append(outbox, m)
      /\ UNCHANGED <<inbox, zed, stored, held, loaded>>
  BY ZedStateAssumption DEF Measure, Publish, ZedTypes, ZedTypeOK
<1>2. m \in Message /\ outbox \in Seq(Message)
  BY <1>1, ZedStateAssumption DEF Message, ZedTypes, BusTypeOK
<1>3. m.data = measured + 1
  OBVIOUS
<1> HIDE DEF m
<1>4. /\ outbox' \in Seq(Message)
      /\ Len(outbox') = Len(outbox) + 1 /\ Len(outbox) \in Nat
      /\ \A i \in 1..Len(outbox) : outbox'[i] = outbox[i]
      /\ outbox'[Len(outbox) + 1] = m
  BY <1>1, <1>2, AppendProperties, LenProperties
<1>5. \A i \in 1..Len(outbox') :
        outbox'[i].data = IF i <= Len(outbox) THEN outbox[i].data ELSE measured + 1
  BY <1>3, <1>4
<1>6. ZedTypes'
  <2>1. ASSUME NEW i \in 1..Len(outbox') PROVE outbox'[i].data <= measured'
    <3>1. CASE i <= Len(outbox)
      <4>1. i \in 1..Len(outbox)
        BY <1>4, <3>1
      <4>2. outbox[i] \in Message
        BY <1>2, <4>1, ElementOfSeq
      <4>3. outbox[i].data <= measured /\ outbox[i].data \in Nat
        BY <4>1, <4>2, ZedStateAssumption DEF ZedTypes, Message
      <4> QED
        BY <1>1, <1>4, <4>1, <4>3
    <3> QED
      BY <1>1, <1>5, <3>1
  <2>2. ASSUME NEW i \in 1..Len(inbox'["ZED_Position"])
        PROVE  inbox'["ZED_Position"][i] <= measured'
    <3>1. /\ inbox["ZED_Position"] \in Seq(Data)
          /\ i \in 1..Len(inbox["ZED_Position"])
      BY <1>1, ZedStateAssumption DEF ZedTypes, BusTypeOK
    <3>2. inbox["ZED_Position"][i] \in Nat /\ inbox["ZED_Position"][i] <= measured
      BY <3>1, ElementOfSeq, ZedStateAssumption DEF ZedTypes
    <3> QED
      BY <1>1, <3>2
  <2>3. ZedTypeOK' /\ loaded' \in [Readers -> Seq(Nat)]
    BY <1>1, ZedStateAssumption DEF ZedTypes, ZedTypeOK
  <2>4. BusTypeOK'
    BY <1>1, <1>4 DEF ZedTypes, BusTypeOK, Message
  <2> QED
    BY <2>1, <2>2, <2>3, <2>4 DEF ZedTypes
<1>7. ASSUME InSequence PROVE InSequence'
  <2> DEFINE n == Len(inbox["ZED_Position"])
  <2>1. n \in Nat /\ held \in Nat
    BY ZedStateAssumption, LenProperties DEF ZedTypes, BusTypeOK, ZedTypeOK
  <2>2. /\ \A i \in 1..n : inbox["ZED_Position"][i] = held + i
        /\ \A i \in 1..Len(outbox) : outbox[i].data = held + n + i
        /\ measured = held + n + Len(outbox)
    BY <1>7 DEF InSequence
  <2>3. n' = n
    BY <1>1
  <2> HIDE DEF n
  <2>4. ASSUME NEW i \in 1..Len(outbox') PROVE outbox'[i].data = held + n + i
    <3>1. CASE i <= Len(outbox)
      BY <1>4, <1>5, <2>2, <3>1
    <3>2. CASE ~(i <= Len(outbox))
      <4>1. i = Len(outbox) + 1
        BY <1>4, <3>2
      <4> QED
        BY <1>4, <1>5, <2>1, <2>2, <3>2, <4>1
    <3> QED
      BY <3>1, <3>2
  <2>5. measured' = held + n + Len(outbox')
    BY <1>1, <1>4, <2>1, <2>2
  <2> QED
    BY <1>1, <2>2, <2>4, <2>5 DEF InSequence, n
<1> QED
  BY <1>6, <1>7

(* The sender moves the oldest measurement to the pipe, or drops it.       *)
LEMMA TransmitKeeps ==
  ASSUME ZedTypes, TransmitPosition
  PROVE  ZedTypes' /\ (NeverFull /\ InSequence => InSequence')
<1> DEFINE q == inbox["ZED_Position"]
           m == Head(outbox)
           n == Len(q)
<1>1. /\ outbox # <<>> /\ outbox' = Tail(outbox)
      /\ inbox' = [inbox EXCEPT ![m.topic] = IF Len(@) < HighWater THEN Append(@, m.data) ELSE @]
      /\ UNCHANGED <<measured, zed, stored, held, loaded>>
  BY DEF TransmitPosition, Transmit
<1>2. /\ outbox \in Seq(Message) /\ inbox \in [Topics -> Seq(Data)] /\ q \in Seq(Data)
      /\ "ZED_Position" \in Topics /\ n \in Nat /\ measured \in Nat /\ held \in Nat
  BY ZedStateAssumption, LenProperties DEF ZedTypes, BusTypeOK, ZedTypeOK
<1>3. /\ m \in Message /\ outbox' \in Seq(Message)
      /\ Len(outbox) \in Nat \ {0} /\ Len(outbox') = Len(outbox) - 1
      /\ \A i \in 1..Len(outbox') : outbox'[i] = outbox[i + 1]
  BY <1>1, <1>2, HeadTailProperties, EmptySeq
<1>4. /\ m.topic = "ZED_Position" /\ m.data \in Data /\ m.data \in Nat
      /\ m.data = outbox[1].data /\ m.data <= measured
  <2>1. m = outbox[1] /\ 1 \in 1..Len(outbox)
    BY <1>1, <1>2, <1>3
  <2> QED
    BY <1>3, <2>1, ZedStateAssumption DEF Message, ZedTypes
<1> HIDE DEF m
<1>5. q' = IF n < HighWater THEN Append(q, m.data) ELSE q
  BY <1>1, <1>2, <1>4
<1>6. inbox' \in [Topics -> Seq(Data)]
  <2>1. Append(q, m.data) \in Seq(Data)
    BY <1>2, <1>4, AppendProperties
  <2> QED
    BY <1>1, <1>2, <1>4, <2>1
<1>7. /\ Len(Append(q, m.data)) = n + 1
      /\ \A i \in 1..n : Append(q, m.data)[i] = q[i]
      /\ Append(q, m.data)[n + 1] = m.data
  BY <1>2, <1>4, AppendProperties
<1>8. ZedTypes'
  <2>1. ASSUME NEW i \in 1..Len(outbox') PROVE outbox'[i].data <= measured'
    <3>1. i + 1 \in 1..Len(outbox) /\ outbox'[i] = outbox[i + 1]
      BY <1>3
    <3> QED
      BY <1>1, <3>1 DEF ZedTypes
  <2>2. ASSUME NEW i \in 1..Len(q') PROVE q'[i] <= measured'
    <3>1. \A k \in 1..n : q[k] <= measured
      BY DEF ZedTypes
    <3>2. CASE q' = q
      BY <1>1, <3>1, <3>2
    <3>3. CASE q' = Append(q, m.data)
      <4> HIDE DEF q, n
      <4>1. i \in 1..(n + 1)
        BY <1>7, <3>3
      <4>2. CASE i = n + 1
        BY <1>1, <1>4, <1>7, <3>3, <4>2
      <4>3. CASE i # n + 1
        <5>1. i \in 1..n
          BY <1>2, <4>1, <4>3
        <5> QED
          BY <1>1, <1>7, <3>1, <3>3, <5>1
      <4> QED
        BY <4>2, <4>3
    <3> QED
      BY <1>5, <3>2, <3>3
  <2>3. ZedTypeOK' /\ loaded' \in [Readers -> Seq(Nat)]
    BY <1>1 DEF ZedTypes, ZedTypeOK
  <2>4. BusTypeOK'
    BY <1>3, <1>6 DEF BusTypeOK, Message
  <2> QED
    BY <2>1, <2>2, <2>3, <2>4 DEF ZedTypes
<1>9. ASSUME NeverFull, InSequence PROVE InSequence'
  <2>1. /\ \A i \in 1..n : q[i] = held + i
        /\ \A i \in 1..Len(outbox) : outbox[i].data = held + n + i
        /\ measured = held + n + Len(outbox)
    BY <1>9 DEF InSequence
  <2>2. q' = Append(q, m.data)
    BY <1>5, <1>9 DEF NeverFull
  <2>3. n' = n + 1
    BY <1>7, <2>2
  <2> HIDE DEF q, n
  <2>4. m.data = held + n + 1
    BY <1>2, <1>3, <1>4, <2>1
  <2>5. ASSUME NEW i \in 1..n' PROVE q'[i] = held + i
    <3>1. CASE i = n + 1
      BY <1>2, <1>7, <2>2, <2>4, <3>1
    <3>2. CASE i # n + 1
      <4>1. i \in 1..n
        BY <1>2, <2>3, <3>2
      <4> QED
        BY <1>7, <2>1, <2>2, <4>1
    <3> QED
      BY <3>1, <3>2
  <2>6. ASSUME NEW i \in 1..Len(outbox') PROVE outbox'[i].data = held + n' + i
    <3>1. i + 1 \in 1..Len(outbox) /\ outbox'[i] = outbox[i + 1]
      BY <1>3
    <3> QED
      BY <1>2, <2>1, <2>3, <3>1
  <2>7. measured' = held + n' + Len(outbox')
    BY <1>1, <1>2, <1>3, <2>1, <2>3
  <2> QED
    BY <1>1, <2>5, <2>6, <2>7 DEF InSequence, q, n
<1> QED
  BY <1>8, <1>9

(* The callback takes the next measurement and stores its X.               *)
LEMMA CallbackKeeps ==
  ASSUME ZedTypes, zedPosition_callback
  PROVE  /\ ZedTypes'
         /\ InSequence => InSequence' /\ held' = held + 1
<1> DEFINE q == inbox["ZED_Position"]
           n == Len(q)
<1>1. /\ q # <<>> /\ inbox' = [inbox EXCEPT !["ZED_Position"] = Tail(@)]
      /\ held' = Head(q) /\ stored["ZED_Position"] = 0
      /\ zed' = [zed EXCEPT ![stored["ZED_Position"] + 1] = held']
      /\ stored' = [stored EXCEPT !["ZED_Position"] = (@ + 1) % 3]
      /\ UNCHANGED <<outbox, measured, loaded>>
  BY DEF zedPosition_callback, Take, Store
<1>2. /\ outbox \in Seq(Message) /\ inbox \in [Topics -> Seq(Data)] /\ q \in Seq(Data)
      /\ "ZED_Position" \in Topics /\ measured \in Nat /\ held \in Nat
  BY ZedStateAssumption DEF ZedTypes, BusTypeOK, ZedTypeOK
<1>3. /\ q' = Tail(q) /\ q' \in Seq(Data) /\ Head(q) \in Data /\ Head(q) = q[1]
      /\ n \in Nat \ {0} /\ n' = n - 1
      /\ \A i \in 1..n' : q'[i] = q[i + 1]
  BY <1>1, <1>2, HeadTailProperties, EmptySeq
<1>4. held' \in 1..measured
  BY <1>1, <1>2, <1>3, ZedStateAssumption DEF ZedTypes
<1>5. ZedTypes'
  <2>1. ASSUME NEW i \in 1..Len(q') PROVE q'[i] <= measured'
    <3>1. i + 1 \in 1..n /\ q'[i] = q[i + 1]
      BY <1>3
    <3> QED
      BY <1>1, <3>1 DEF ZedTypes
  <2>2. zed' \in [Coordinates -> 0..measured'] /\ stored' \in [Writers -> 0..2]
    BY <1>1, <1>2, <1>4 DEF ZedTypes, ZedTypeOK, Coordinates, Writers
  <2>3. ZedTypeOK' /\ loaded' \in [Readers -> Seq(Nat)]
    BY <1>1, <1>2, <1>4, <2>2 DEF ZedTypes, ZedTypeOK
  <2>4. BusTypeOK'
    BY <1>1, <1>2, <1>3 DEF BusTypeOK, Message
  <2>5. \A i \in 1..Len(outbox') : outbox'[i].data <= measured'
    BY <1>1 DEF ZedTypes
  <2> QED
    BY <2>1, <2>3, <2>4, <2>5 DEF ZedTypes
<1>6. ASSUME InSequence PROVE InSequence' /\ held' = held + 1
  <2>1. /\ \A i \in 1..n : q[i] = held + i
        /\ \A i \in 1..Len(outbox) : outbox[i].data = held + n + i
        /\ measured = held + n + Len(outbox)
    BY <1>6 DEF InSequence
  <2>2. Len(outbox) \in Nat
    BY <1>2, LenProperties
  <2>3. \A i \in 1..n' : i + 1 \in 1..n /\ q'[i] = q[i + 1] /\ i \in Nat
    BY <1>3
  <2> HIDE DEF q, n
  <2>4. held' = held + 1
    BY <1>1, <1>2, <1>3, <2>1
  <2>5. ASSUME NEW i \in 1..n' PROVE q'[i] = held' + i
    <3>1. i + 1 \in 1..n /\ q'[i] = q[i + 1] /\ i \in Nat
      BY <2>3
    <3>2. q[i + 1] = held + (i + 1)
      BY <2>1, <3>1
    <3> QED
      BY <1>2, <2>4, <3>1, <3>2
  <2>6. /\ \A i \in 1..Len(outbox) : outbox[i].data = held' + n' + i
        /\ measured = held' + n' + Len(outbox)
    BY <1>2, <1>3, <2>1, <2>2, <2>4
  <2> QED
    BY <1>1, <2>4, <2>5, <2>6 DEF InSequence, q, n
<1> QED
  BY <1>5, <1>6

(* The steps that move no message.                                         *)
LEMMA StoreKeepsTypes ==
  ASSUME ZedTypes, NEW w \in Writers, NEW value \in 0..measured, Store(w, value),
         UNCHANGED <<busVars, measured, held, loaded>>
  PROVE  ZedTypes'
<1>1. stored[w] \in 0..2 /\ stored[w] + 1 \in Coordinates /\ (stored[w] + 1) % 3 \in 0..2
  BY DEF ZedTypes, ZedTypeOK, Coordinates
<1>2. zed' \in [Coordinates -> 0..measured] /\ stored' \in [Writers -> 0..2]
  BY <1>1 DEF Store, ZedTypes, ZedTypeOK
<1> QED
  BY <1>2 DEF ZedTypes, ZedTypeOK, BusTypeOK, Message, busVars

(* A reader has loaded nothing but coordinates as they were.               *)
LEMMA LoadAppends ==
  ASSUME ZedTypes, NEW r \in Readers, Load(r)
  PROVE  LET k == IF Len(loaded[r]) = 3 THEN 0 ELSE Len(loaded[r]) IN
           /\ k \in 0..2 /\ loaded' \in [Readers -> Seq(Nat)]
           /\ Len(loaded'[r]) = k + 1 /\ loaded'[r][k + 1] = zed[k + 1]
           /\ \A i \in 1..k : loaded'[r][i] = loaded[r][i]
           /\ \A s \in Readers : s # r => loaded'[s] = loaded[s]
<1> DEFINE k == IF Len(loaded[r]) = 3 THEN 0 ELSE Len(loaded[r])
<1>1. /\ loaded[r] \in Seq(Nat) /\ Len(loaded[r]) \in 0..3
      /\ loaded \in [Readers -> Seq(Nat)]
      /\ zed \in [Coordinates -> Nat]
  BY ZedStateAssumption DEF ZedTypes, ZedTypeOK
<1>2. loaded' = [loaded EXCEPT ![r] = IF Len(@) = 3 THEN <<zed[1]>>
                                      ELSE Append(@, zed[Len(@) + 1])]
  BY DEF Load
<1>3. CASE Len(loaded[r]) = 3
  <2>1. zed[1] \in Nat
    BY <1>1 DEF Coordinates
  <2> QED
    BY <1>1, <1>2, <1>3, <2>1
<1>4. CASE Len(loaded[r]) # 3
  <2>1. k \in 0..2 /\ k = Len(loaded[r]) /\ zed[k + 1] \in Nat
    BY <1>1, <1>4 DEF Coordinates
  <2>2. loaded'[r] = Append(loaded[r], zed[k + 1])
    BY <1>1, <1>2, <1>4
  <2>3. /\ loaded'[r] \in Seq(Nat) /\ Len(loaded'[r]) = k + 1
        /\ loaded'[r][k + 1] = zed[k + 1]
        /\ \A i \in 1..k : loaded'[r][i] = loaded[r][i]
    BY <1>1, <2>1, <2>2, AppendProperties
  <2>4. /\ loaded' \in [Readers -> Seq(Nat)]
        /\ \A s \in Readers : s # r => loaded'[s] = loaded[s]
    BY <1>1, <1>2, <1>4, <2>2, <2>3
  <2> QED
    BY <2>1, <2>3, <2>4
<1> QED
  BY <1>3, <1>4

LEMMA LoadKeepsTypes ==
  ASSUME ZedTypes, NEW r \in Readers, Load(r)
  PROVE  ZedTypes'
<1>1. /\ loaded' \in [Readers -> Seq(Nat)]
      /\ \A s \in Readers : Len(loaded'[s]) \in 0..3
  <2> DEFINE k == IF Len(loaded[r]) = 3 THEN 0 ELSE Len(loaded[r])
  <2>1. /\ k \in 0..2 /\ loaded' \in [Readers -> Seq(Nat)] /\ Len(loaded'[r]) = k + 1
        /\ \A s \in Readers : s # r => loaded'[s] = loaded[s]
    BY LoadAppends
  <2> HIDE DEF k
  <2>2. \A s \in Readers : Len(loaded[s]) \in 0..3
    BY DEF ZedTypes, ZedTypeOK
  <2>3. Len(loaded'[r]) \in 0..3
    BY <2>1
  <2>4. ASSUME NEW s \in Readers PROVE Len(loaded'[s]) \in 0..3
    BY <2>1, <2>2, <2>3, Zenon
  <2> QED
    BY <2>1, <2>4
<1>2. UNCHANGED <<outbox, inbox, measured, zed, stored, held>>
  BY DEF Load, busVars
<1>3. ZedTypeOK'
  BY <1>1, <1>2 DEF ZedTypes, ZedTypeOK
<1> QED
  BY <1>1, <1>2, <1>3 DEF ZedTypes, BusTypeOK, Message

LEMMA ZedTypesStep == ZedTypes /\ [ZedStateNext]_zedStateVars => ZedTypes'
<1> SUFFICES ASSUME ZedTypes, [ZedStateNext]_zedStateVars PROVE ZedTypes'
  OBVIOUS
<1>1. CASE Measure \/ TransmitPosition \/ zedPosition_callback
  BY <1>1, MeasureKeeps, TransmitKeeps, CallbackKeeps
<1>2. CASE zedPosition_continues
  BY <1>2, StoreKeepsTypes DEF zedPosition_continues, Writers, ZedTypes, ZedTypeOK
<1>3. ASSUME NEW w \in Resetters, zed_setZero(w) PROVE ZedTypes'
  BY <1>3, StoreKeepsTypes DEF zed_setZero, Writers, ZedTypes, ZedTypeOK
<1>4. ASSUME NEW r \in Readers, Load(r) PROVE ZedTypes'
  BY <1>4, LoadKeepsTypes
<1>5. CASE UNCHANGED zedStateVars
  BY <1>5 DEF zedStateVars, busVars, ZedTypes, ZedTypeOK, BusTypeOK, Message
<1> QED
  BY <1>1, <1>2, <1>3, <1>4, <1>5 DEF ZedStateNext

------------------------------------------------------------------------------
(* Coordinates and rows                                                    *)

LEMMA InSequenceStep ==
  ZedTypes /\ NeverFull /\ InSequence /\ [ZedStateNext]_zedStateVars => InSequence'
<1> SUFFICES ASSUME ZedTypes, NeverFull, InSequence, [ZedStateNext]_zedStateVars
             PROVE  InSequence'
  OBVIOUS
<1>1. CASE Measure \/ TransmitPosition \/ zedPosition_callback
  BY <1>1, MeasureKeeps, TransmitKeeps, CallbackKeeps
<1>2. CASE ~(Measure \/ TransmitPosition \/ zedPosition_callback)
  BY <1>2 DEF ZedStateNext, zedPosition_continues, zed_setZero, Load, zedStateVars, busVars,
     InSequence
<1> QED
  BY <1>1, <1>2

LEMMA CurrentStep ==
  ZedTypes /\ InSequence /\ Current /\ [ZedStateNext]_zedStateVars => Current'
<1> SUFFICES ASSUME ZedTypes, InSequence, Current, [ZedStateNext]_zedStateVars
             PROVE  Current'
  OBVIOUS
<1>1. /\ held \in Nat /\ zed \in [Coordinates -> 0..measured]
      /\ stored \in [Writers -> 0..2] /\ "ZED_Position" \in Writers
  BY ZedStateAssumption DEF ZedTypes, ZedTypeOK, Writers
<1>2. CASE zedPosition_callback
  <2>1. /\ held' = held + 1 /\ stored["ZED_Position"] = 0
        /\ zed' = [zed EXCEPT ![1] = held'] /\ stored'["ZED_Position"] = 1
    BY <1>1, <1>2, CallbackKeeps DEF zedPosition_callback, Store
  <2> QED
    BY <1>1, <2>1 DEF Current, Latest, Coordinates
<1>3. CASE zedPosition_continues
  BY <1>1, <1>3 DEF zedPosition_continues, Store, Current, Latest, Coordinates
<1>4. ASSUME NEW w \in Resetters, zed_setZero(w) PROVE Current'
  <2>1. w \in Writers /\ w # "ZED_Position"
    BY DEF Writers, Resetters
  <2>2. /\ stored'["ZED_Position"] = stored["ZED_Position"] /\ held' = held
        /\ zed' = [zed EXCEPT ![stored[w] + 1] = 0]
    BY <1>1, <1>4, <2>1 DEF zed_setZero, Store
  <2> QED
    BY <1>1, <2>2 DEF Current, Latest
<1>5. CASE UNCHANGED <<zed, stored, held>>
  BY <1>5 DEF Current, Latest
<1> QED
  BY <1>2, <1>3, <1>4, <1>5 DEF ZedStateNext, Measure, TransmitPosition, Load, zedStateVars

LEMMA SkewedStep ==
  ZedTypes /\ InSequence /\ Current /\ Skewed /\ [ZedStateNext]_zedStateVars => Skewed'
<1> SUFFICES ASSUME ZedTypes, InSequence, Current, Skewed, [ZedStateNext]_zedStateVars
             PROVE  Skewed'
  OBVIOUS
<1>1. held \in Nat /\ loaded \in [Readers -> Seq(Nat)]
  BY ZedStateAssumption DEF ZedTypes, ZedTypeOK
<1>2. ASSUME NEW r \in Readers, Load(r) PROVE Skewed'
  <2> DEFINE k == IF Len(loaded[r]) = 3 THEN 0 ELSE Len(loaded[r])
  <2>1. /\ k \in 0..2
        /\ Len(loaded'[r]) = k + 1 /\ loaded'[r][k + 1] = zed[k + 1]
        /\ \A i \in 1..k : loaded'[r][i] = loaded[r][i]
        /\ \A s \in Readers : s # r => loaded'[s] = loaded[s]
        /\ k = 0 \/ k = Len(loaded[r])
    BY <1>2, LoadAppends
  <2>2. zed[k + 1] \in {0, held, held - 1} /\ zed[k + 1] \in Nat
    BY <2>1, ZedStateAssumption DEF Current, Latest, Coordinates, ZedTypes, ZedTypeOK
  <2>3. /\ \A i \in 1..k : loaded[r][i] <= held /\ loaded[r][i] \in Nat
        /\ \A i, j \in 1..k : i < j /\ loaded[r][i] # 0 /\ loaded[r][j] # 0
             => loaded[r][i] <= loaded[r][j] + 1
    <3>1. loaded[r] \in Seq(Nat)
      BY <1>1
    <3> QED
      BY <2>1, <3>1, ElementOfSeq DEF Skewed
  <2>4. held' = held
    BY <1>2 DEF Load
  <2> HIDE DEF k
  <2>5. ASSUME NEW i \in 1..Len(loaded'[r])
        PROVE  /\ loaded'[r][i] <= held
               /\ \A j \in 1..Len(loaded'[r]) :
                    i < j /\ loaded'[r][i] # 0 /\ loaded'[r][j] # 0
                      => loaded'[r][i] <= loaded'[r][j] + 1
    <3>1. CASE i \in 1..k
      <4>1. loaded'[r][i] <= held /\ loaded'[r][i] \in Nat
        BY <2>1, <2>3, <3>1
      <4>2. ASSUME NEW j \in 1..k, i < j, loaded'[r][i] # 0, loaded'[r][j] # 0
            PROVE  loaded'[r][i] <= loaded'[r][j] + 1
        BY <2>1, <2>3, <3>1, <4>2
      <4>3. ASSUME loaded'[r][k + 1] # 0 PROVE loaded'[r][i] <= loaded'[r][k + 1] + 1
        BY <1>1, <2>1, <2>2, <4>1, <4>3
      <4> QED
        BY <2>1, <4>1, <4>2, <4>3
    <3>2. CASE i = k + 1
      BY <1>1, <2>1, <2>2, <3>2
    <3> QED
      BY <2>1, <3>1, <3>2
  <2> QED
    BY <2>1, <2>4, <2>5 DEF Skewed
<1>3. CASE zedPosition_callback
  <2>1. held' = held + 1 /\ loaded' = loaded
    BY <1>3, CallbackKeeps DEF zedPosition_callback
  <2>2. ASSUME NEW r \in Readers, NEW i \in 1..Len(loaded[r]) PROVE loaded[r][i] <= held'
    <3>1. loaded[r][i] <= held /\ loaded[r][i] \in Nat
      BY <1>1, ElementOfSeq DEF Skewed
    <3> QED
      BY <1>1, <2>1, <3>1
  <2> QED
    BY <2>1, <2>2 DEF Skewed
<1>4. CASE UNCHANGED <<held, loaded>>
  BY <1>4 DEF Skewed
<1> QED
  BY <1>2, <1>3, <1>4 DEF ZedStateNext, Measure, TransmitPosition, zedPosition_continues,
     zed_setZero, zedStateVars

------------------------------------------------------------------------------

(* Whatever the PUB socket drops, the atomics, rows and replies contain    *)
(* zeros and measurements that were published.                             *)
THEOREM ZedStateTypes == ZedStateSpec => []ZedTypeOK
<1>1. ZedInv => ZedTypes
  BY DEF ZedInv
<1>2. ZedTypes => ZedTypeOK
  BY DEF ZedTypes
<1> QED
  BY <1>1, <1>2, ZedInvInit, ZedTypesStep, PTL DEF ZedStateSpec

LEMMA ZedInvHolds == ZedStateSpec /\ []NeverFull => []ZedInv
<1>1. ZedInv /\ NeverFull /\ [ZedStateNext]_zedStateVars => ZedInv'
  BY ZedTypesStep, InSequenceStep, CurrentStep, SkewedStep DEF ZedInv
<1> QED
  BY <1>1, ZedInvInit, PTL DEF ZedStateSpec

(* While the pipe of ZED_Position has room, resets and measurements stored *)
(* and loaded coordinate by coordinate can mix in a row only in one way:   *)
(* a coordinate is at most one measurement newer than those loaded later.  *)
THEOREM RowsSkewOneWay == ZedStateSpec /\ []NeverFull => []RowSkew
<1>1. ZedInv => RowSkew
  BY DEF ZedInv, Skewed, RowSkew, Coordinates
<1> QED
  BY <1>1, ZedInvHolds, PTL

(* While the pipe of ZED_Position has room, a race of resets with the      *)
(* callback leaves no coordinate of an older measurement behind.           *)
THEOREM NoOldCoordinate == ZedStateSpec /\ []NeverFull => []LastOrZero
<1>1. ZedInv => LastOrZero
  <2> SUFFICES ASSUME ZedInv, outbox = <<>>, inbox["ZED_Position"] = <<>>,
                      \A w \in Writers : stored[w] = 0
               PROVE  \A c \in Coordinates : zed[c] \in {0, measured}
    BY DEF LastOrZero
  <2>1. measured = held /\ stored["ZED_Position"] = 0
    BY ZedStateAssumption DEF ZedInv, InSequence, ZedTypes, ZedTypeOK, Writers
  <2> QED
    BY <2>1 DEF ZedInv, Current, Latest
<1> QED
  BY <1>1, ZedInvHolds, PTL

==============================================================================
