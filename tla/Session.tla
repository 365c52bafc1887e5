-------------------------------- MODULE Session --------------------------------
(***************************************************************************)
(* What the server promises to a client that waits for each command to     *)
(* take effect: commands are performed one at a time, in the order sent.   *)
(* CREATE opens a session, every PROBE in it becomes one row of its file,  *)
(* STOP or leaving closes it.                                              *)
(***************************************************************************)
EXTENDS Naturals, Sequences

CONSTANTS Files, NoFile, Serials   \* Serials tell the probes apart

VARIABLES
  session,  \* the file of the open session, or NoFile
  pending,  \* the command sent and not yet performed (at most one)
  rows      \* the probes recorded in each file, in order

sessionVars == <<session, pending, rows>>

Ops == [op : {"CreateFile", "Probe", "StopTest", "none"}, arg : {"-"} \cup Files,
        n : Serials]

SessionInit ==
  /\ session = NoFile
  /\ pending = <<>>
  /\ rows = [f \in Files |-> <<>>]

Request ==
  /\ pending = <<>> /\ pending' # <<>>
  /\ UNCHANGED <<session, rows>>
  /\ \E c \in Ops : /\ c.op = "CreateFile" => session = NoFile
                    /\ pending' = <<c>>

Perform ==
  /\ pending # <<>>
  /\ LET c == Head(pending) IN
     /\ session' = CASE c.op = "CreateFile" -> c.arg
                     [] c.op = "StopTest"   -> NoFile
                     [] OTHER               -> session
     /\ rows' = IF c.op = "Probe" /\ session # NoFile
                THEN [rows EXCEPT ![session] = Append(@, c.n)] ELSE rows
  /\ pending' = <<>>

Leave ==
  /\ pending = <<>>
  /\ session' = NoFile
  /\ UNCHANGED <<pending, rows>>

SessionNext == Request \/ Perform \/ Leave

SessionSpec == SessionInit /\ [][SessionNext]_sessionVars

==============================================================================
